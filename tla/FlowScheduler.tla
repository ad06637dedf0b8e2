----------------------------- MODULE FlowScheduler -----------------------------
(***************************************************************************)
(* Flows (harness/flow.py): each FlowScheduler runs the turns of a graph as   *)
(* asyncio tasks over the clients of the harness sessions, and learns of a    *)
(* turn's end by wrapping client.emitter.emit.  Several flows may use one      *)
(* session; a flow may be run again, or cancelled at any moment.              *)
(*                                                                         *)
(* A task is <<node, k>>, the k-th _run_node of that node, and names the turn *)
(* it starts and the client it opens.  What is said in a turn is left out;    *)
(* whether it succeeds and whether a condition holds are chosen freely.      *)
(***************************************************************************)
EXTENDS Integers, Sequences, SequencesExt

CONSTANTS Flows, Nodes, Sessions,
          FlowOf,        \* [Nodes -> Flows]
          SessionOf,     \* [Nodes -> Sessions]
          Edges,         \* subset of Nodes \X Nodes
          Conditional,   \* the edges with a condition
          Claw,          \* the sessions of harness "claw"; the others are claude-code
          Opened,        \* the sessions that have a client at first
          MaxRuns,       \* [Flows -> Nat], bound on the runs of each flow
          MaxTasks,      \* of one node: large enough for MaxRuns
          MaxStrays,     \* bound on the turns other callers give a claw session
          NoFlow, NoClient

ASSUME FlowSchedulerAssumption ==
  /\ FlowOf \in [Nodes -> Flows] /\ SessionOf \in [Nodes -> Sessions]
  /\ Claw \subseteq Sessions /\ Opened \subseteq Sessions
  /\ Conditional \subseteq Edges
  /\ IsFiniteSet(Edges)
  /\ \A e \in Edges : e \in Nodes \X Nodes /\ FlowOf[e[1]] = FlowOf[e[2]]
  /\ MaxRuns \in [Flows -> Nat] /\ MaxStrays \in Nat
  /\ MaxTasks \in Nat /\ MaxTasks > 1
  /\ NoFlow \notin Flows

Tasks == Nodes \X (1..MaxTasks)
Stray == <<>>          \* the turn of another caller

VARIABLES
  status,    \* state.status of each flow
  phase,     \* where run() of each flow is
  node,      \* state.nodes[n]["status"]
  indegree,  \* _indegree
  task,      \* the locals of each _run_node
  pending,   \* _pending of each flow, in insertion order
  reg,       \* _sessions: the client of each session
  wrapper,   \* the flow that wraps a client's emitter
  turns,     \* the turns under way in the harness
  strays,
  runs,      \* runs of each flow
  \* history variables:
  fired,     \* the edges traversed
  held       \* flows cancelled when their start nodes had been spawned

vars == <<status, phase, node, indegree, task, pending, reg, wrapper, turns,
          strays, runs, fired, held>>
graph == <<indegree, fired>>
harness == <<reg, wrapper, turns>>
run == <<status, phase, runs, held>>

SessionIs(t) == SessionOf[t[1]]
ByTick(t) == SessionIs(t) \notin Claw
NodesOf(f) == {n \in Nodes : FlowOf[n] = f}
TasksOf(f) == {t \in Tasks : FlowOf[t[1]] = f}
Flow(t) == FlowOf[t[1]]
At(t, pc) == task[t].pc = pc
Goto(t, pc) == task' = [task EXCEPT ![t].pc = pc]
In(n) == {e \in Edges : e[2] = n}
Clients == Tasks \cup (Opened \X {0})

Init ==
  /\ status = [f \in Flows |-> "pending"]
  /\ phase = [f \in Flows |-> "created"]
  /\ node = [n \in Nodes |-> "pending"]
  /\ indegree = [n \in Nodes |-> Cardinality(In(n))]
  /\ task = [t \in Tasks |-> [pc |-> "none", client |-> NoClient, result |-> "none"]]
  /\ pending = [f \in Flows |-> <<>>]
  /\ reg = [s \in Sessions |-> IF s \in Opened THEN <<s, 0>> ELSE NoClient]
  /\ wrapper = [c \in Clients |-> NoFlow]
  /\ turns = {} /\ strays = 0 /\ fired = {} /\ held = {}
  /\ runs = [f \in Flows |-> 0]

(* _spawn_node, for each node of ns.                                        *)
Spawned(ns, ts) ==
  [t \in Tasks |->
     IF /\ t[1] \in ns
        /\ ts[t].pc = "none"
        /\ \A k \in 1..(t[2] - 1) : ts[<<t[1], k>>].pc # "none"
     THEN [ts[t] EXCEPT !.pc = "spawned"] ELSE ts[t]]

(* An entry of _pending is a task; a node has one at most, and a new one     *)
(* takes the place of the old.                                             *)
Watched(q, t) ==
  IF \E i \in DOMAIN q : q[i][1] = t[1]
  THEN [i \in DOMAIN q |-> IF q[i][1] = t[1] THEN t ELSE q[i]]
  ELSE Append(q, t)
Without(q, n) ==
  IF \E i \in 1..Len(q) : q[i][1] = n
  THEN RemoveAt(q, CHOOSE i \in 1..Len(q) : q[i][1] = n)
  ELSE q
-------------------------------------------------------------------------------
(* run()                                                                    *)

RunFlow(f) ==
  /\ phase[f] \in {"created", "done"}
  /\ runs[f] < MaxRuns[f]
  /\ phase' = [phase EXCEPT ![f] = "boot"]
  /\ runs' = [runs EXCEPT ![f] = @ + 1]
  /\ UNCHANGED <<status, node, task, pending, strays, held, graph, harness>>

Boot(f) ==
  /\ phase[f] = "boot"
  /\ phase' = [phase EXCEPT ![f] = "connect"]
  /\ status' = [status EXCEPT ![f] = "running"]
  /\ held' = held \ {f}
  /\ UNCHANGED <<node, task, pending, strays, runs, graph, harness>>

(* The emitter is connected and flow_started sent.                          *)
Starts(f) ==
  /\ phase[f] = "connect"
  /\ phase' = [phase EXCEPT ![f] = "drain"]
  /\ task' = Spawned({n \in NodesOf(f) : indegree[n] = 0}, task)
  /\ UNCHANGED <<status, node, pending, strays, held, runs, graph, harness>>

(* The tasks have drained: the nodes get their last status, the flow its own. *)
Finish(f) ==
  /\ phase[f] = "drain"
  /\ \A t \in TasksOf(f) : task[t].pc \in {"none", "over"}
  /\ node' = [n \in Nodes |->
                IF FlowOf[n] # f THEN node[n]
                ELSE IF node[n] = "pending" THEN "skipped"
                ELSE IF node[n] = "running" /\ status[f] = "cancelled" THEN "cancelled"
                ELSE node[n]]
  /\ status' = [status EXCEPT ![f] =
                  IF @ = "cancelled" THEN @
                  ELSE IF \E n \in NodesOf(f) : node[n] = "failed" THEN "failed"
                  ELSE "completed"]
  /\ phase' = [phase EXCEPT ![f] = "closing"]
  /\ UNCHANGED <<task, pending, strays, held, runs, graph, harness>>

(* flow_completed is sent, then the emitters are unwrapped.                 *)
Close(f) ==
  /\ phase[f] = "closing"
  /\ phase' = [phase EXCEPT ![f] = "done"]
  /\ wrapper' = [c \in Clients |-> IF wrapper[c] = f THEN NoFlow ELSE wrapper[c]]
  /\ UNCHANGED <<status, node, task, pending, reg, turns, strays, held, runs, graph>>

CancelStatusOnly(f) ==    \* mutated form of Cancel: the node tasks run on
  /\ status[f] \notin {"completed", "failed", "cancelled"}
  /\ status' = [status EXCEPT ![f] = "cancelled"]
  /\ held' = IF phase[f] = "drain" THEN held \cup {f} ELSE held
  /\ UNCHANGED <<phase, node, task, pending, strays, runs, graph, harness>>

(* cancel(): a cancelled task does nothing more; its entry in _pending stays. *)
Cancel(f) ==
  /\ status[f] \notin {"completed", "failed", "cancelled"}
  /\ status' = [status EXCEPT ![f] = "cancelled"]
  /\ task' = [t \in Tasks |->
                IF Flow(t) = f /\ task[t].pc # "none"
                THEN [task[t] EXCEPT !.pc = "over", !.result = "none"] ELSE task[t]]
  /\ held' = IF phase[f] = "drain" THEN held \cup {f} ELSE held
  /\ UNCHANGED <<phase, node, pending, strays, runs, graph, harness>>
-------------------------------------------------------------------------------
(* _on_tick_completed                                                       *)

(* The entry an event resolves: the one with its tick, else the first of     *)
(* its session, which only claw entries are matched by.                    *)
Hits(q, turn, s) ==
  LET tick == {i \in DOMAIN q : ByTick(q[i]) /\ q[i] = turn}
      session == {i \in DOMAIN q : ~ByTick(q[i]) /\ SessionIs(q[i]) = s} IN
  IF tick # {} THEN tick ELSE {i \in session : \A j \in session : i <= j}

(* A harness emits tick_completed: only the flow whose wrapper is on the      *)
(* client's emitter hears it.  The future of a task that is over cannot be   *)
(* set any more.                                                           *)
Emits(ts, c, turn, s, ok) ==
  LET f == wrapper[c]
      hits == IF f = NoFlow THEN {} ELSE Hits(pending[f], turn, s) IN
  IF hits = {} THEN task' = ts /\ UNCHANGED <<pending, node>>
  ELSE LET t == pending[f][CHOOSE i \in hits : TRUE] IN
       /\ pending' = [pending EXCEPT ![f] = Without(@, t[1])]
       /\ node' = [node EXCEPT ![t[1]] = IF ok THEN "completed" ELSE "failed"]
       /\ task' = [ts EXCEPT ![t].result =
                     IF ~At(t, "wait") THEN @ ELSE IF ok THEN "ok" ELSE "error"]

TurnEnds(t) ==
  /\ t \in turns
  /\ turns' = turns \ {t}
  /\ \E ok \in BOOLEAN : Emits(task, task[t].client, t, SessionIs(t), ok)
  /\ UNCHANGED <<run, reg, wrapper, strays, graph>>

(* A turn that another caller gave to a claw session.                       *)
StrayTurnEnds(s) ==
  /\ reg[s] # NoClient
  /\ strays < MaxStrays
  /\ strays' = strays + 1
  /\ \E ok \in BOOLEAN : Emits(task, reg[s], Stray, s, ok)
  /\ UNCHANGED <<run, graph, harness>>
-------------------------------------------------------------------------------
(* _run_node                                                                *)

StartNode(t) ==
  /\ At(t, "spawned")
  /\ node' = [node EXCEPT ![t[1]] = "running"]
  /\ Goto(t, "open")
  /\ UNCHANGED <<run, pending, strays, graph, harness>>

(* _wrap_emitter leaves an emitter alone that is wrapped, by any flow.       *)
UseClient(t, c) ==
  /\ task' = [task EXCEPT ![t].pc = "turn", ![t].client = c]
  /\ wrapper' = [wrapper EXCEPT ![c] = IF @ = NoFlow THEN Flow(t) ELSE @]

(* node_started is sent; then the session's client is looked up.            *)
FindClient(t) ==
  /\ At(t, "open")
  /\ IF reg[SessionIs(t)] = NoClient
     THEN Goto(t, "create") /\ UNCHANGED wrapper
     ELSE UseClient(t, reg[SessionIs(t)])
  /\ UNCHANGED <<run, node, pending, reg, turns, strays, graph>>

(* _create_claw or _create_claude: the last one made is registered.         *)
Created(t) ==
  /\ At(t, "create")
  /\ reg' = [reg EXCEPT ![SessionIs(t)] = t]
  /\ UseClient(t, t)
  /\ UNCHANGED <<run, node, pending, turns, strays, graph>>

(* It raises: gather collects the exception, the node stays "running".      *)
CreateRaises(t) ==
  /\ At(t, "create")
  /\ Goto(t, "over")
  /\ UNCHANGED <<run, node, pending, strays, graph, harness>>

Wait(t) ==
  /\ task' = [task EXCEPT ![t].pc = "wait"]
  /\ pending' = [pending EXCEPT ![Flow(t)] = Watched(@, t)]

(* claude: turn() leaves the turn to a task and returns its tick.           *)
TurnStarts(t) ==
  /\ At(t, "turn") /\ ByTick(t)
  /\ Wait(t)
  /\ turns' = turns \cup {t}
  /\ UNCHANGED <<run, node, reg, wrapper, strays, graph>>

(* claw: the gateway has the message, its answer is on the way...           *)
MessageTaken(t) ==
  /\ At(t, "turn") /\ ~ByTick(t)
  /\ Goto(t, "sent")
  /\ turns' = turns \cup {t}
  /\ UNCHANGED <<run, node, pending, reg, wrapper, strays, graph>>

(* ... and only then is the node's entry made.                              *)
MessageSent(t) ==
  /\ At(t, "sent")
  /\ Wait(t)
  /\ UNCHANGED <<run, node, strays, graph, harness>>

(* send_message returns though the client is not connected.                 *)
NotConnected(t) ==
  /\ At(t, "turn") /\ ~ByTick(t)
  /\ Wait(t)
  /\ UNCHANGED <<run, node, strays, graph, harness>>

(* The gateway refuses, or its answer is late (it may have taken the message *)
(* all the same): _fail_turn emits an error tick, and that before the node's *)
(* entry is made.                                                          *)
SendFails(t) ==
  /\ At(t, "turn") /\ ~ByTick(t)
  /\ Emits([task EXCEPT ![t].pc = "sent"], task[t].client, t, SessionIs(t), FALSE)
  /\ \E took \in {{}, {t}} : turns' = turns \cup took
  /\ UNCHANGED <<run, reg, wrapper, strays, graph>>

Completed(t) ==
  /\ At(t, "wait") /\ task[t].result # "none"
  /\ Goto(t, "report")
  /\ UNCHANGED <<run, node, pending, strays, graph, harness>>

TimedOut(t) ==
  /\ At(t, "wait")
  /\ node' = [node EXCEPT ![t[1]] = "failed"]
  /\ task' = [task EXCEPT ![t].pc = "report", ![t].result = "error"]
  /\ UNCHANGED <<run, strays, graph, harness>>

TimeoutKeepsEntry(t) == TimedOut(t) /\ UNCHANGED pending    \* mutated form of Timeout

TimeoutIfUnderWay(t) ==    \* mutated form of Timeout: for a turn that runs too long
  t \in turns /\ TimedOut(t) /\ pending' = [pending EXCEPT ![Flow(t)] = Without(@, t[1])]

(* NODE_TIMEOUT; it may win over a result that has just been set.           *)
Timeout(t) ==
  /\ TimedOut(t)
  /\ pending' = [pending EXCEPT ![Flow(t)] = Without(@, t[1])]

ReadyAtOnce(ns, ind) == ns    \* mutated form of Ready: the first source is enough

(* The nodes whose last source this is.                                     *)
Ready(ns, ind) == {n \in ns : ind[n] <= 0}

(* node_completed is sent; on success the edges whose condition holds are    *)
(* traversed.                                                              *)
Reported(t) ==
  LET out == {e \in Edges : e[1] = t[1]}
      ts == [task EXCEPT ![t].pc = "over", ![t].result = "none"] IN
  /\ At(t, "report")
  /\ IF task[t].result # "ok" THEN task' = ts /\ UNCHANGED graph
     ELSE \E hold \in SUBSET (out \cap Conditional) :
            LET taken == hold \cup (out \ Conditional)
                to == {e[2] : e \in taken} IN
            /\ indegree' = [n \in Nodes |-> IF n \in to THEN indegree[n] - 1 ELSE indegree[n]]
            /\ fired' = fired \cup taken
            /\ task' = Spawned(Ready(to, indegree'), ts)
  /\ UNCHANGED <<run, node, pending, strays, harness>>
-------------------------------------------------------------------------------
RunStep(f) == Boot(f) \/ Starts(f) \/ Finish(f) \/ Close(f)

TaskStep(t) ==
  \/ StartNode(t) \/ FindClient(t) \/ Created(t) \/ CreateRaises(t)
  \/ TurnStarts(t) \/ MessageTaken(t) \/ MessageSent(t) \/ NotConnected(t)
  \/ SendFails(t)
  \/ Completed(t) \/ Timeout(t) \/ Reported(t)

Next ==
  \/ \E f \in Flows : RunFlow(f) \/ Cancel(f) \/ RunStep(f)
  \/ \E t \in Tasks : TaskStep(t) \/ TurnEnds(t)
  \/ \E s \in Claw : StrayTurnEnds(s)

(* The event loop is never idle while a task of it can go on, and            *)
(* NODE_TIMEOUT passes.  Nothing is asked of the harness or of the callers:  *)
(* a turn may never end.                                                   *)
LoopStep ==
  \/ \E f \in Flows : RunStep(f)
  \/ \E t \in Tasks : TaskStep(t)

Spec == Init /\ [][Next]_vars /\ WF_vars(LoopStep)
-------------------------------------------------------------------------------
Ran(n) == task[<<n, 1>>].pc # "none"
FirstRun(f) == runs[f] = 1
Over == {"completed", "failed", "skipped"}

(* In the first run of a flow a node is started once, when every edge into   *)
(* it has been traversed and not before; and when the flow has ended,        *)
(* cancelled or not, no node is left whose edges were all traversed.        *)
MergeIsExact ==
  \A n \in Nodes : FirstRun(FlowOf[n]) =>
    /\ Ran(n) => In(n) \subseteq fired /\ task[<<n, 2>>].pc = "none"
    /\ phase[FlowOf[n]] = "done" /\ In(n) \subseteq fired => Ran(n)

(* cancel() of a flow whose start nodes have been spawned: no node of it     *)
(* starts or is spawned afterwards.  (One that comes earlier is forgotten.)  *)
CancelHolds ==
  [][\A t \in Tasks :
       Flow(t) \in held /\ phase[Flow(t)] \in {"drain", "closing"}
       => task'[t].pc \in {task[t].pc, "over"}]_vars

(* Within the first run the result of a node stands once its task has taken   *)
(* it: a late tick_completed, of this turn or of another turn of the         *)
(* session, changes nothing, not even after a timeout.                     *)
ResultStands ==
  [][\A n \in Nodes :
       /\ FirstRun(FlowOf[n])' /\ node[n] \in Over
       /\ task[<<n, 1>>].pc \in {"report", "over"}
       => node'[n] = node[n]]_vars

(* A flow that runs ends, even if a harness never answers, if the answer      *)
(* came before anyone waited for it or if another flow's wrapper got it.     *)
FlowEnds ==
  \A f \in Flows : phase[f] = "boot" ~> phase[f] = "done"
================================================================================
