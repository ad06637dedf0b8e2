------------------------------ MODULE WorkflowRun ------------------------------
(***************************************************************************)
(* WorkflowEngine.run: one fan-out of N nodes behind a semaphore, with the *)
(* budget lock of _spawn_agent and a gather barrier.                       *)
(*                                                                         *)
(* Every node is one task.  Tasks take their first step in spec order      *)
(* (gather schedules them first in, first out), and asyncio's Semaphore    *)
(* and Lock wake their waiters in arrival order, so spec order is also the *)
(* order in which the semaphore and the lock are granted.  A step is what  *)
(* the task does between two awaits.                                       *)
(***************************************************************************)
EXTENDS Integers, FiniteSets

CONSTANTS N,            \* number of nodes in the spec
          Concurrency,  \* ctx.concurrency, as the caller passed it
          Limit,        \* ctx.budget_limits: usage above it trips the budget
          MaxPrior,     \* bound on the usage ctx already carries
          MaxUse        \* bound on the usage of one agent run

ASSUME WorkflowRunAssumption ==
  /\ N \in Nat \ {0}
  /\ Concurrency \in Int
  /\ Limit \in Nat
  /\ MaxPrior \in Nat
  /\ MaxUse \in Nat

Nodes == 1..N
Cap == IF Concurrency < 1 THEN 1 ELSE Concurrency
NoNode == 0

VARIABLES
  pc,           \* where the task of each node stands
  outcome,      \* per node: the NodeResult it produced (status and error)
  free,         \* value of the semaphore
  holder,       \* the node that holds budget_lock, or NoNode
  hasBudget,    \* ctx.budget_limits.has_token_limits(); the caller's choice
  abort,        \* ctx.abort is set
  tripped,      \* ctx.budget_tripped
  total,        \* ctx.total_usage
  started,      \* nodes whose workflow_node_started was emitted
  completed,    \* nodes whose workflow_node_completed was emitted
  result        \* the WorkflowResult: none until run() returns

vars == <<pc, outcome, free, holder, hasBudget, abort, tripped, total,
          started, completed, result>>

NoResult == [status |-> "none", exceeded |-> FALSE]
-------------------------------------------------------------------------------
(* Every ctx a caller can pass: with or without a token budget, with some  *)
(* usage already on it.                                                    *)
Init ==
  /\ pc = [n \in Nodes |-> "created"]
  /\ outcome = [n \in Nodes |-> "none"]
  /\ free = Cap
  /\ holder = NoNode
  /\ hasBudget \in BOOLEAN
  /\ abort \in BOOLEAN
  /\ tripped = FALSE
  /\ total \in 0..MaxPrior
  /\ started = {}
  /\ completed = {}
  /\ result = NoResult

Earlier(n) == {m \in Nodes : m < n}
FirstAt(n, at) == pc[n] = at /\ \A m \in Earlier(n) : pc[m] # at

Finish(n, o) ==
  /\ pc' = [pc EXCEPT ![n] = "done"]
  /\ outcome' = [outcome EXCEPT ![n] = o]

KeepSlot == free' = free    \* mutated form of ReleaseSlot

(* The semaphore slot goes back when _spawn_agent is left, on any path.    *)
ReleaseSlot == free' = free + 1
-------------------------------------------------------------------------------
SkipTrips(n) ==    \* mutated form of SkipOnAbort: any abort counts as a trip
  /\ FirstAt(n, "created")
  /\ abort
  /\ tripped' = TRUE
  /\ Finish(n, "budget_exceeded_skipped")
  /\ UNCHANGED <<free, holder, hasBudget, abort, total, started, completed,
                 result>>

(* First step of _bounded: the cooperative-cancel check ...                *)
SkipOnAbort(n) ==
  /\ FirstAt(n, "created")
  /\ abort
  /\ Finish(n, "budget_exceeded_skipped")
  /\ UNCHANGED <<free, holder, hasBudget, abort, tripped, total, started,
                 completed, result>>

(* ... or node_started is emitted and the task queues on the semaphore.    *)
Enter(n) ==
  /\ FirstAt(n, "created")
  /\ ~abort
  /\ pc' = [pc EXCEPT ![n] = "sem"]
  /\ started' = started \cup {n}
  /\ UNCHANGED <<outcome, free, holder, hasBudget, abort, tripped, total,
                 completed, result>>

TakeSlotUnchecked(n) ==    \* mutated form of TakeSlot: the semaphore never blocks
  /\ FirstAt(n, "sem")
  /\ free' = free - 1
  /\ pc' = [pc EXCEPT ![n] = "spawn"]
  /\ UNCHANGED <<outcome, holder, hasBudget, abort, tripped, total,
                 started, completed, result>>

TakeSlot(n) ==
  /\ FirstAt(n, "sem")
  /\ free > 0
  /\ free' = free - 1
  /\ pc' = [pc EXCEPT ![n] = "spawn"]
  /\ UNCHANGED <<outcome, holder, hasBudget, abort, tripped, total,
                 started, completed, result>>

(* _spawn_agent: with a budget the lock covers the whole lifecycle of a    *)
(* node, and is granted first in, first out.                               *)
LockOnlyCheck(n) == hasBudget => FirstAt(n, "spawn")    \* mutated form of LockGranted
LockAnyOrder(n) == hasBudget => holder = NoNode         \* mutated form of LockGranted
LockGranted(n) == hasBudget => holder = NoNode /\ FirstAt(n, "spawn")

(* check_before_request raises when the committed usage is above the limit *)
OverOnce == hasBudget /\ ~tripped /\ total > Limit    \* mutated form of OverBudget
OverBudget == hasBudget /\ total > Limit

(* The check fails: the node is short-circuited inside the lock, which is  *)
(* given back in the same step, and every sibling is told through abort.   *)
Trip(n) ==
  /\ pc[n] = "spawn"
  /\ LockGranted(n)
  /\ OverBudget
  /\ tripped' = TRUE
  /\ abort' = TRUE
  /\ Finish(n, "budget_exceeded")
  /\ ReleaseSlot
  /\ completed' = completed \cup {n}
  /\ UNCHANGED <<holder, hasBudget, total, started, result>>

(* build_native_agent raises: the exception passes through _bounded, so no *)
(* node_completed is emitted, and gather returns it as this node's result. *)
BuildRaises(n) ==
  /\ pc[n] = "spawn"
  /\ LockGranted(n)
  /\ ~OverBudget
  /\ Finish(n, "unknown")
  /\ ReleaseSlot
  /\ UNCHANGED <<holder, hasBudget, abort, tripped, total, started,
                 completed, result>>

(* The agent is built and agent.run is awaited.                            *)
Spawn(n) ==
  /\ pc[n] = "spawn"
  /\ LockGranted(n)
  /\ ~OverBudget
  /\ pc' = [pc EXCEPT ![n] = "run"]
  /\ holder' = IF hasBudget THEN n ELSE holder
  /\ UNCHANGED <<outcome, free, hasBudget, abort, tripped, total, started,
                 completed, result>>

KeepLock == holder' = holder    \* mutated form of ReleaseLock
ReleaseLock == holder' = IF hasBudget THEN NoNode ELSE holder

(* agent.run returned: its usage is committed before the lock is released. *)
Succeed(n) ==
  /\ pc[n] = "run"
  /\ \E u \in 0..MaxUse : total' = total + u
  /\ Finish(n, "success")
  /\ ReleaseLock
  /\ ReleaseSlot
  /\ completed' = completed \cup {n}
  /\ UNCHANGED <<hasBudget, abort, tripped, started, result>>

(* agent.run raised: an error result that carries no usage.                *)
Fail(n) ==
  /\ pc[n] = "run"
  /\ Finish(n, "error")
  /\ ReleaseLock
  /\ ReleaseSlot
  /\ completed' = completed \cup {n}
  /\ UNCHANGED <<hasBudget, abort, tripped, total, started, result>>

SettledOrRunning(n) == pc[n] \in {"run", "done"}    \* mutated form of Settled
Settled(n) == pc[n] = "done"

AllFailed == \A n \in Nodes : outcome[n] # "success"

(* The gather barrier is passed and the results are folded into one.       *)
Return ==
  /\ result = NoResult
  /\ \A n \in Nodes : Settled(n)
  /\ result' = [status |-> IF AllFailed THEN "error" ELSE "success",
                exceeded |-> tripped]
  /\ UNCHANGED <<pc, outcome, free, holder, hasBudget, abort, tripped, total,
                 started, completed>>

(* The caller owns ctx.abort and may set it at any time.                   *)
CallerAbort ==
  /\ result = NoResult
  /\ ~abort
  /\ abort' = TRUE
  /\ UNCHANGED <<pc, outcome, free, holder, hasBudget, tripped, total,
                 started, completed, result>>

Terminated == result # NoResult /\ UNCHANGED vars

NodeStep(n) ==
  \/ SkipOnAbort(n) \/ Enter(n) \/ TakeSlot(n)
  \/ Trip(n) \/ BuildRaises(n) \/ Spawn(n) \/ Succeed(n) \/ Fail(n)

EngineStep == Return \/ \E n \in Nodes : NodeStep(n)

Next == EngineStep \/ CallerAbort \/ Terminated

Spec == Init /\ [][Next]_vars

(* The event loop keeps running ready tasks, and every agent.run ends.     *)
FairSpec == Spec /\ WF_vars(EngineStep)
-------------------------------------------------------------------------------
NodeOutcome == {"none", "success", "error", "unknown", "budget_exceeded",
                "budget_exceeded_skipped"}
ShortCircuited == {"budget_exceeded", "budget_exceeded_skipped"}
Ran(n) == pc[n] = "run" \/ outcome[n] \in {"success", "error", "unknown"}
Holders == {n \in Nodes : pc[n] \in {"spawn", "run"}}

TypeOK ==
  /\ pc \in [Nodes -> {"created", "sem", "spawn", "run", "done"}]
  /\ outcome \in [Nodes -> NodeOutcome]
  /\ free \in Nat
  /\ holder \in Nodes \cup {NoNode}
  /\ hasBudget \in BOOLEAN
  /\ abort \in BOOLEAN
  /\ tripped \in BOOLEAN
  /\ total \in Nat
  /\ started \in SUBSET Nodes
  /\ completed \in SUBSET Nodes
  /\ result \in [status : {"none", "success", "error"}, exceeded : BOOLEAN]

(* With a token budget, the usage committed by any number of concurrent    *)
(* nodes overshoots the limit by at most one agent run: the check of       *)
(* _spawn_agent never reads a total that a running sibling will still      *)
(* raise.                                                                  *)
OvershootBound == IF Limit + MaxUse > MaxPrior THEN Limit + MaxUse ELSE MaxPrior
BudgetBound == hasBudget => total <= OvershootBound

(* Once the budget tripped, no sibling starts an agent, although the abort *)
(* flag is only read in the first step of a task.                          *)
NoSpawnAfterTrip ==
  [][tripped => \A n \in Nodes : pc'[n] = "run" => pc[n] = "run"]_vars

(* The budget is spent in spec order: a short-circuited node is followed   *)
(* by short-circuited nodes only, so what was skipped is a suffix.         *)
SpentInOrder ==
  hasBudget =>
    \A m, n \in Nodes : m < n /\ outcome[m] \in ShortCircuited => ~Ran(n)

(* No path through _spawn_agent loses a semaphore slot or returns one      *)
(* twice, and no more than Cap nodes are ever inside it.                   *)
SlotsConserved == free + Cardinality(Holders) = Cap

(* budget_exceeded is reported exactly when a node was refused by the      *)
(* budget check; an abort set by the caller never turns it on.             *)
BudgetSignalExact ==
  result # NoResult =>
    (result.exceeded <=> \E n \in Nodes : outcome[n] = "budget_exceeded")

(* Whatever nodes fail, raise or are skipped, run() returns.               *)
Termination == <>(result # NoResult)

(* run() implements the fan-out contract.                                  *)
Outcome2Settled(o) ==
  IF o = "none" THEN "none" ELSE IF o = "success" THEN "success" ELSE "failure"

Promise == INSTANCE FanOut WITH
  settled <- [n \in Nodes |-> Outcome2Settled(outcome[n])],
  verdict <- result.status

ImplementsFanOut == Promise!FairSpec
================================================================================
