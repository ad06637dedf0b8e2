--------------------------- MODULE WorkflowPipeline ---------------------------
(***************************************************************************)
(* WorkflowEngine.pipeline: N stages in a chain, one worker task and one   *)
(* input queue per stage, one semaphore shared by all workers, M items, and *)
(* a poison pill that stops the chain once every item is out of it.        *)
(*                                                                         *)
(* The value an item carries is what the next prompt is built from; here   *)
(* it is the set of stages whose output that value contains.               *)
(***************************************************************************)
EXTENDS Integers, Sequences, FiniteSets

CONSTANTS N,            \* number of stages
          M,            \* number of items
          Concurrency   \* spec.concurrency, validated to 1..64

ASSUME WorkflowPipelineAssumption ==
  /\ N \in Nat \ {0}
  /\ M \in Nat \ {0}
  /\ Concurrency \in 1..64

Stages == 0..(N - 1)
Items == 1..M
Message == [item : Items, value : SUBSET Stages]
Pill == [item |-> 0, value |-> {}]

VARIABLES
  queues,    \* queues[s] feeds stage s, queues[N] is the sink
  worker,    \* of each stage: idle, sem, run, exited or dead
  current,   \* the message each worker took last
  free,      \* value of the semaphore
  results,   \* what the main coroutine collected, in the order it arrived
  main,      \* collect, join or returned
  ok         \* history: the stages that succeeded, per item

pipelineVars == <<queues, worker, current, free, results, main, ok>>

(* All items are queued before the workers are created.                    *)
PipelineInit ==
  /\ queues = [s \in 0..N |->
                 IF s = 0 THEN [i \in Items |-> [item |-> i, value |-> {}]]
                 ELSE <<>>]
  /\ worker = [s \in Stages |-> "idle"]
  /\ current = [s \in Stages |-> Pill]
  /\ free = Concurrency
  /\ results = <<>>
  /\ main = "collect"
  /\ ok = [i \in Items |-> {}]

PushedFront(s, msg) ==    \* mutated form of Moved: the last to come goes first
  queues' = [queues EXCEPT ![s + 1] = <<msg>> \o @]
Moved(s, msg) ==
  queues' = [queues EXCEPT ![s + 1] = Append(@, msg)]

(* The worker takes the next message; an item then waits for a slot.       *)
TakeItem(s) ==
  /\ worker[s] = "idle"
  /\ queues[s] # <<>>
  /\ Head(queues[s]) # Pill
  /\ queues' = [queues EXCEPT ![s] = Tail(@)]
  /\ current' = [current EXCEPT ![s] = Head(queues[s])]
  /\ worker' = [worker EXCEPT ![s] = "sem"]
  /\ UNCHANGED <<free, results, main, ok>>

TakePillOnly(s) ==    \* mutated form of TakePill: the pill is not passed on
  /\ worker[s] = "idle"
  /\ queues[s] # <<>>
  /\ Head(queues[s]) = Pill
  /\ queues' = [queues EXCEPT ![s] = Tail(@)]
  /\ worker' = [worker EXCEPT ![s] = "exited"]
  /\ UNCHANGED <<current, free, results, main, ok>>

(* The pill is handed to the next stage and ends this worker.              *)
TakePill(s) ==
  /\ worker[s] = "idle"
  /\ queues[s] # <<>>
  /\ Head(queues[s]) = Pill
  /\ queues' = [queues EXCEPT ![s] = Tail(@), ![s + 1] = Append(@, Pill)]
  /\ worker' = [worker EXCEPT ![s] = "exited"]
  /\ UNCHANGED <<current, free, results, main, ok>>

(* A slot is free and _spawn_agent runs the stage for the item ...         *)
Spawn(s) ==
  /\ worker[s] = "sem"
  /\ free > 0
  /\ free' = free - 1
  /\ worker' = [worker EXCEPT ![s] = "run"]
  /\ UNCHANGED <<queues, current, results, main, ok>>

(* ... or build_native_agent raises out of it: the slot is returned, the   *)
(* worker's try has no except, and its task ends with the item in hand.    *)
BuildRaises(s) ==
  /\ worker[s] = "sem"
  /\ free > 0
  /\ worker' = [worker EXCEPT ![s] = "dead"]
  /\ UNCHANGED <<queues, current, free, results, main, ok>>

SpawnEnds(s, msg) ==
  /\ worker[s] = "run"
  /\ free' = free + 1
  /\ Moved(s, msg)
  /\ worker' = [worker EXCEPT ![s] = "idle"]
  /\ UNCHANGED <<current, results, main>>

Succeed(s) ==
  LET i == current[s].item IN
  /\ SpawnEnds(s, [current[s] EXCEPT !.value = @ \cup {s}])
  /\ ok' = [ok EXCEPT ![i] = @ \cup {s}]

PassOnEmpty(s) ==    \* mutated form of PassOn: the node's output is used
  /\ SpawnEnds(s, [current[s] EXCEPT !.value = {}])
  /\ UNCHANGED ok

PassOnSlotKept(s) ==    \* mutated form of PassOn: the slot is lost on error
  /\ worker[s] = "run"
  /\ Moved(s, current[s])
  /\ worker' = [worker EXCEPT ![s] = "idle"]
  /\ UNCHANGED <<free, current, results, main, ok>>

(* An error, or a node refused by the budget: the previous value goes on,  *)
(* to a next stage that is run for it like for any other.                  *)
PassOn(s) ==
  /\ SpawnEnds(s, current[s])
  /\ UNCHANGED ok

(* The main coroutine takes exactly M messages from the sink.              *)
Collect ==
  /\ main = "collect"
  /\ Len(results) < M
  /\ queues[N] # <<>>
  /\ results' = Append(results, Head(queues[N]))
  /\ queues' = [queues EXCEPT ![N] = Tail(@)]
  /\ UNCHANGED <<worker, current, free, main, ok>>

AllOut == Len(results) = M

SendPill ==
  /\ main = "collect"
  /\ AllOut
  /\ queues' = [queues EXCEPT ![0] = Append(@, Pill)]
  /\ main' = "join"
  /\ UNCHANGED <<worker, current, free, results, ok>>

(* gather(workers, return_exceptions) and the results in item order.       *)
Return ==
  /\ main = "join"
  /\ \A s \in Stages : worker[s] \in {"exited", "dead"}
  /\ main' = "returned"
  /\ UNCHANGED <<queues, worker, current, free, results, ok>>

WorkerStep(s) ==
  \/ TakeItem(s) \/ TakePill(s) \/ Spawn(s) \/ BuildRaises(s)
  \/ Succeed(s) \/ PassOn(s)

PipelineNext == Collect \/ SendPill \/ Return \/ \E s \in Stages : WorkerStep(s)

PipelineSpec == PipelineInit /\ [][PipelineNext]_pipelineVars

(* The event loop keeps running ready tasks, and every agent.run ends.     *)
PipelineFairSpec == PipelineSpec /\ WF_pipelineVars(PipelineNext)
-------------------------------------------------------------------------------
PipelineTypeOK ==
  /\ queues \in [0..N -> Seq(Message \cup {Pill})]
  /\ worker \in [Stages -> {"idle", "sem", "run", "exited", "dead"}]
  /\ current \in [Stages -> Message \cup {Pill}]
  /\ free \in 0..Concurrency
  /\ results \in Seq(Message)
  /\ main \in {"collect", "join", "returned"}
  /\ ok \in [Items -> SUBSET Stages]

(* Items leave the chain in the order they entered it, none twice.         *)
SinkInOrder == \A k \in DOMAIN results : results[k].item = k

(* What comes out for an item is built from the outputs of exactly the     *)
(* stages that succeeded for it: a failing stage neither drops the value   *)
(* so far nor lets its own output through.                                 *)
ResultsKeepSuccesses ==
  \A k \in DOMAIN results : results[k].value = ok[results[k].item]

(* When the call returns no worker is left behind, every slot is back, and *)
(* the only message left is the pill the last worker put on the sink.      *)
NothingLeftBehind ==
  main = "returned" =>
    /\ free = Concurrency
    /\ \A s \in Stages : worker[s] = "exited" /\ queues[s] = <<>>
    /\ queues[N] = <<Pill>>

(* The call returns as long as every agent can be built.                   *)
ReturnsUnlessWorkerDies ==
  <>(main = "returned" \/ \E s \in Stages : worker[s] = "dead")

(* pipeline()'s docstring: every item runs through all stages on its own;  *)
(* the class's: a failing agent never stops its siblings.                  *)
EveryItemComesOut == <>(Len(results) = M)
================================================================================
