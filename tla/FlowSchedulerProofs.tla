-------------------------- MODULE FlowSchedulerProofs --------------------------
(***************************************************************************)
(* Theorems about flows, for any flows, graphs, sessions and stray turns:   *)
(* merges in a first run, what a cancel ends, and results that stand.       *)
(***************************************************************************)
EXTENDS FlowScheduler, SequenceTheorems, FiniteSetTheorems, TLAPS

(* The entries of _pending: a node has one at most.                         *)
OneEach(q) == \A i, j \in 1..Len(q) : q[i][1] = q[j][1] => i = j

(* A removed entry closes the gap it leaves and moves nothing else.         *)
LEMMA RemoveCloses ==
  ASSUME NEW S, NEW q \in Seq(S), NEW k \in 1..Len(q)
  PROVE  /\ RemoveAt(q, k) \in Seq(S) /\ Len(RemoveAt(q, k)) = Len(q) - 1
         /\ \A i \in 1..(Len(q) - 1) :
              RemoveAt(q, k)[i] = IF i < k THEN q[i] ELSE q[i + 1]
<1> DEFINE left == SubSeq(q, 1, k - 1)
           right == SubSeq(q, k + 1, Len(q))
<1>1. RemoveAt(q, k) = left \o right BY DEF RemoveAt
<1>2. /\ left \in Seq(S) /\ Len(left) = k - 1
      /\ \A i \in 1..(k - 1) : left[i] = q[i]
  BY SubSeqProperties
<1>3. /\ right \in Seq(S) /\ Len(right) = Len(q) - k
      /\ \A i \in 1..(Len(q) - k) : right[i] = q[k + i]
  BY SubSeqProperties
<1>4. Len(q) \in Nat OBVIOUS
<1> HIDE DEF left, right
<1>5. left \o right \in Seq(S) /\ Len(left \o right) = Len(q) - 1
  <2>0. left \in Seq(S) /\ right \in Seq(S) BY <1>2, <1>3
  <2>1. left \o right \in Seq(S) BY <2>0
  <2>2. Len(left \o right) = Len(left) + Len(right) BY <2>0
  <2> QED BY <1>2, <1>3, <1>4, <2>1, <2>2
<1>6. ASSUME NEW i \in 1..(Len(q) - 1)
      PROVE  (left \o right)[i] = IF i < k THEN q[i] ELSE q[i + 1]
  <2>1. i \in 1..(Len(left) + Len(right)) BY <1>2, <1>3
  <2>2. (left \o right)[i] = IF i <= Len(left) THEN left[i]
                             ELSE right[i - Len(left)]
    BY <1>2, <1>3, <2>1, ConcatProperties
  <2>3. CASE i < k
    BY <1>2, <2>2, <2>3
  <2>4. CASE ~(i < k)
    <3>1. i - (k - 1) \in 1..(Len(q) - k) BY <1>4, <2>4
    <3>2. right[i - (k - 1)] = q[k + (i - (k - 1))] BY <1>3, <3>1
    <3> QED BY <1>2, <2>2, <2>4, <3>2
  <2> QED BY <2>3, <2>4
<1> QED BY <1>1, <1>5, <1>6

(* _pending.pop: the entry of the node goes, no other does.                 *)
LEMMA WithoutDrops ==
  ASSUME NEW q \in Seq(Tasks), NEW n, OneEach(q)
  PROVE  /\ Without(q, n) \in Seq(Tasks) /\ OneEach(Without(q, n))
         /\ \A i \in 1..Len(Without(q, n)) :
              \E j \in 1..Len(q) : Without(q, n)[i] = q[j] /\ q[j][1] # n
<1>1. CASE \A i \in 1..Len(q) : q[i][1] # n
  <2>1. Without(q, n) = q BY <1>1 DEF Without
  <2> QED BY <1>1, <2>1
<1>2. ASSUME NEW k \in 1..Len(q), q[k][1] = n
      PROVE  /\ Without(q, n) \in Seq(Tasks) /\ OneEach(Without(q, n))
             /\ \A i \in 1..Len(Without(q, n)) :
                  \E j \in 1..Len(q) : Without(q, n)[i] = q[j] /\ q[j][1] # n
  <2> DEFINE w == RemoveAt(q, k)
             old(i) == IF i < k THEN i ELSE i + 1
  <2>1. (CHOOSE i \in 1..Len(q) : q[i][1] = n) = k
    BY <1>2 DEF OneEach
  <2>2. Without(q, n) = w
    BY <1>2, <2>1 DEF Without
  <2>3. /\ w \in Seq(Tasks) /\ Len(w) = Len(q) - 1
        /\ \A i \in 1..(Len(q) - 1) : w[i] = IF i < k THEN q[i] ELSE q[i + 1]
    BY RemoveCloses
  <2>4. Len(q) \in Nat OBVIOUS
  <2> HIDE DEF w
  <2>5. ASSUME NEW i \in 1..Len(w)
        PROVE  old(i) \in 1..Len(q) /\ old(i) # k /\ w[i] = q[old(i)]
    <3>1. i \in 1..(Len(q) - 1) BY <2>3
    <3>2. old(i) \in 1..Len(q) /\ old(i) # k BY <2>4, <3>1
    <3>3. w[i] = q[old(i)] BY <2>3, <3>1
    <3> QED BY <3>2, <3>3
  <2>6. \A i, j \in 1..Len(w) : old(i) = old(j) => i = j
    BY <2>3, <2>4
  <2> HIDE DEF old
  <2>7. OneEach(w) BY <2>5, <2>6 DEF OneEach
  <2>8. \A i \in 1..Len(w) : q[old(i)][1] # n BY <1>2, <2>5 DEF OneEach
  <2> QED BY <2>2, <2>3, <2>5, <2>7, <2>8
<1> QED BY <1>1, <1>2

(* A new entry takes the place of its node's old one or comes last.         *)
LEMMA WatchedAdds ==
  ASSUME NEW q \in Seq(Tasks), NEW t \in Tasks, OneEach(q)
  PROVE  /\ Watched(q, t) \in Seq(Tasks) /\ OneEach(Watched(q, t))
         /\ \A i \in 1..Len(Watched(q, t)) :
              Watched(q, t)[i] = t \/ \E j \in 1..Len(q) : Watched(q, t)[i] = q[j]
<1> DEFINE w == Watched(q, t)
<1>0. Len(q) \in Nat /\ DOMAIN q = 1..Len(q) /\ \A i \in 1..Len(q) : q[i] \in Tasks
  BY LenProperties, ElementOfSeq
<1>1. CASE \E i \in DOMAIN q : q[i][1] = t[1]
  <2>0. w = [i \in DOMAIN q |-> IF q[i][1] = t[1] THEN t ELSE q[i]]
    BY Zenon, <1>1 DEF Watched
  <2>1. w = [i \in 1..Len(q) |-> IF q[i][1] = t[1] THEN t ELSE q[i]]
    BY Zenon, <1>0, <2>0
  <2>2. w \in [1..Len(q) -> Tasks] BY <1>0, <2>1
  <2>3. w \in Seq(Tasks) BY <1>0, <2>2, SeqDef
  <2>4. Len(w) = Len(q) BY <1>0, <2>2, <2>3, LenProperties
  <2>5. \A i \in 1..Len(q) : w[i][1] = q[i][1] BY <1>0, <2>1
  <2> HIDE DEF w
  <2>6. OneEach(w) BY <2>4, <2>5 DEF OneEach
  <2> QED BY <2>1, <2>3, <2>4, <2>6 DEF w
<1>2. CASE ~ \E i \in DOMAIN q : q[i][1] = t[1]
  <2>1. w = Append(q, t) BY <1>2 DEF Watched
  <2>2. w \in Seq(Tasks) /\ Len(w) = Len(q) + 1 /\ w[Len(q) + 1] = t
    BY <2>1
  <2>3. \A i \in 1..Len(q) : w[i] = q[i] BY <2>1
  <2> HIDE DEF w
  <2>4. \A i \in 1..Len(w) : i \in 1..Len(q) \/ i = Len(q) + 1
    BY <1>0, <2>2
  <2>5. OneEach(w) BY <1>0, <1>2, <2>2, <2>3, <2>4 DEF OneEach
  <2> QED BY <2>2, <2>3, <2>4, <2>5 DEF w
<1> QED BY <1>1, <1>2
-------------------------------------------------------------------------------
Points == {"none", "spawned", "open", "create", "turn", "sent", "wait",
           "report", "over"}
TaskRec == [pc : Points, client : Clients \cup {NoClient},
            result : {"none", "ok", "error"}]
NodeStatus == {"pending", "running", "completed", "failed", "skipped",
               "cancelled"}

(* A task that has begun its turn has a client, and so has a turn.          *)
TaskType ==
  /\ task \in [Tasks -> TaskRec]
  /\ turns \subseteq Tasks
  /\ \A t \in Tasks :
       At(t, "turn") \/ At(t, "sent") \/ t \in turns => task[t].client \in Clients

(* A flow waits for tasks of its own, and for one of each node at most.     *)
PendingType ==
  /\ pending \in [Flows -> Seq(Tasks)]
  /\ \A f \in Flows :
       /\ OneEach(pending[f])
       /\ \A i \in 1..Len(pending[f]) : Flow(pending[f][i]) = f

GraphType ==
  /\ indegree \in [Nodes -> Int]
  /\ fired \subseteq Edges

Statuses == {"pending", "running", "completed", "failed", "cancelled"}
Phases == {"created", "boot", "connect", "drain", "closing", "done"}
Early == {"created", "boot", "connect"}    \* before the start nodes are spawned
USE DEF Statuses, Phases, Early

RunType ==
  /\ status \in [Flows -> Statuses]
  /\ phase \in [Flows -> Phases]
  /\ runs \in [Flows -> Nat]
  /\ held \subseteq Flows

TypeInv ==
  /\ TaskType /\ PendingType /\ GraphType /\ RunType
  /\ node \in [Nodes -> NodeStatus]
  /\ reg \in [Sessions -> Clients \cup {NoClient}]
  /\ wrapper \in [Clients -> Flows \cup {NoFlow}]
  /\ strays \in Nat

LEMMA TasksAre ==
  /\ \A t \in Tasks : /\ t[1] \in Nodes /\ Flow(t) \in Flows
                      /\ SessionIs(t) \in Sessions /\ t \in Clients
                      /\ t = <<t[1], t[2]>> /\ t[2] \in 1..MaxTasks
  /\ \A n \in Nodes, k \in 1..MaxTasks : <<n, k>> \in Tasks
BY FlowSchedulerAssumption DEF Tasks, Flow, SessionIs, Clients

LEMMA InitTyped == Init => TypeInv
<1> SUFFICES ASSUME Init PROVE TypeInv OBVIOUS
<1>1. TaskType
  BY DEF Init, TaskType, TaskRec, Points, At
<1>2. PendingType
  <2>1. \A f \in Flows : pending[f] = <<>> BY DEF Init
  <2>2. pending \in [Flows -> Seq(Tasks)]
    BY EmptySeq DEF Init
  <2>3. \A f \in Flows : Len(pending[f]) = 0 BY <2>1
  <2> QED BY <2>2, <2>3 DEF PendingType, OneEach
<1>3. GraphType
  <2>1. ASSUME NEW n \in Nodes PROVE Cardinality(In(n)) \in Int
    <3>1. IsFiniteSet(In(n))
      BY FS_Subset, FlowSchedulerAssumption DEF In
    <3> QED BY <3>1, FS_CardinalityType
  <2> QED BY <2>1 DEF Init, GraphType
<1>4. RunType BY DEF Init, RunType
<1>5. reg \in [Sessions -> Clients \cup {NoClient}]
  BY FlowSchedulerAssumption DEF Init, Clients
<1>6. /\ node \in [Nodes -> NodeStatus] /\ strays \in Nat
      /\ wrapper \in [Clients -> Flows \cup {NoFlow}]
  BY DEF Init, NodeStatus
<1> QED BY <1>1, <1>2, <1>3, <1>4, <1>5, <1>6 DEF TypeInv

(* _spawn_node starts the first task of a node that there is none of yet.   *)
LEMMA SpawnedIs ==
  ASSUME NEW ns, NEW ts \in [Tasks -> TaskRec]
  PROVE  /\ Spawned(ns, ts) \in [Tasks -> TaskRec]
         /\ \A u \in Tasks :
              /\ Spawned(ns, ts)[u].client = ts[u].client
              /\ Spawned(ns, ts)[u].pc =
                   IF /\ u[1] \in ns /\ ts[u].pc = "none"
                      /\ \A k \in 1..(u[2] - 1) : ts[<<u[1], k>>].pc # "none"
                   THEN "spawned" ELSE ts[u].pc
BY DEF Spawned, TaskRec, Points

(* What an event of a client does: it resolves an entry of the flow that    *)
(* listens, or nothing.                                                     *)
Resolves(ts, ok) ==
  \/ task' = ts /\ UNCHANGED <<pending, node>>
  \/ \E f \in Flows : \E i \in 1..Len(pending[f]) :
       LET t == pending[f][i] IN
       /\ t \in Tasks /\ Flow(t) = f
       /\ pending' = [pending EXCEPT ![f] = Without(@, t[1])]
       /\ node' = [node EXCEPT ![t[1]] = IF ok THEN "completed" ELSE "failed"]
       /\ \E r \in {"none", "ok", "error"} : task' = [ts EXCEPT ![t].result = r]

LEMMA EmitsIs ==
  ASSUME TypeInv, NEW ts \in [Tasks -> TaskRec], NEW c \in Clients, NEW turn,
         NEW s, NEW ok \in BOOLEAN, Emits(ts, c, turn, s, ok)
  PROVE  Resolves(ts, ok)
<1> DEFINE f == wrapper[c]
           hits == IF f = NoFlow THEN {} ELSE Hits(pending[f], turn, s)
<1>1. CASE hits = {}
  BY <1>1 DEF Emits, Resolves
<1>2. CASE hits # {}
  <2>1. f \in Flows BY <1>2 DEF TypeInv
  <2>2. pending[f] \in Seq(Tasks) BY <2>1 DEF TypeInv, PendingType
  <2>3. hits \subseteq 1..Len(pending[f])
    BY <2>1, <2>2, <1>2, FlowSchedulerAssumption DEF Hits
  <2>4. PICK i \in hits : i = CHOOSE j \in hits : TRUE BY <1>2
  <2> DEFINE t == pending[f][i]
  <2>5. i \in 1..Len(pending[f]) /\ t \in Tasks /\ Flow(t) = f
    BY <2>1, <2>2, <2>3, <2>4, ElementOfSeq DEF TypeInv, PendingType
  <2>6. /\ pending' = [pending EXCEPT ![f] = Without(@, t[1])]
        /\ node' = [node EXCEPT ![t[1]] = IF ok THEN "completed" ELSE "failed"]
        /\ task' = [ts EXCEPT ![t].result =
                      IF ~At(t, "wait") THEN @ ELSE IF ok THEN "ok" ELSE "error"]
    BY <1>2, <2>4 DEF Emits
  <2>7. \E r \in {"none", "ok", "error"} : task' = [ts EXCEPT ![t].result = r]
    <3> DEFINE r == IF ~At(t, "wait") THEN ts[t].result
                    ELSE IF ok THEN "ok" ELSE "error"
    <3>1. r \in {"none", "ok", "error"} BY <2>5 DEF TaskRec
    <3>2. task' = [ts EXCEPT ![t].result = r] BY <2>6
    <3> QED BY <3>1, <3>2
  <2> QED BY <2>1, <2>5, <2>6, <2>7 DEF Resolves
<1> QED BY <1>1, <1>2

(* A pop or a new entry leaves _pending of its type.                        *)
Pops(f, n) == pending' = [pending EXCEPT ![f] = Without(@, n)]

LEMMA PopTyped ==
  ASSUME TypeInv, NEW f \in Flows, NEW n, Pops(f, n)
  PROVE  /\ PendingType'
         /\ \A g \in Flows : \A i \in 1..Len(pending'[g]) :
              /\ \E j \in 1..Len(pending[g]) : pending'[g][i] = pending[g][j]
              /\ g = f => pending'[g][i][1] # n
<1>1. pending[f] \in Seq(Tasks) /\ OneEach(pending[f])
  BY DEF TypeInv, PendingType
<1>2. /\ Without(pending[f], n) \in Seq(Tasks) /\ OneEach(Without(pending[f], n))
      /\ \A i \in 1..Len(Without(pending[f], n)) :
           \E j \in 1..Len(pending[f]) :
             Without(pending[f], n)[i] = pending[f][j] /\ pending[f][j][1] # n
  BY <1>1, WithoutDrops
<1>3. /\ pending' \in [Flows -> Seq(Tasks)]
      /\ \A g \in Flows :
           pending'[g] = IF g = f THEN Without(pending[f], n) ELSE pending[g]
  BY <1>2 DEF TypeInv, PendingType, Pops
<1>4. \A g \in Flows : \A i \in 1..Len(pending'[g]) :
        /\ \E j \in 1..Len(pending[g]) : pending'[g][i] = pending[g][j]
        /\ g = f => pending'[g][i][1] # n
  BY <1>2, <1>3
<1>5. \A g \in Flows : OneEach(pending'[g])
  BY <1>2, <1>3 DEF TypeInv, PendingType
<1>6. \A g \in Flows : \A i \in 1..Len(pending'[g]) : Flow(pending'[g][i]) = g
  <2>1. \A g \in Flows : \A j \in 1..Len(pending[g]) : Flow(pending[g][j]) = g
    BY DEF TypeInv, PendingType
  <2> QED BY <1>4, <2>1 DEF Flow
<1> QED BY <1>3, <1>4, <1>5, <1>6 DEF PendingType, OneEach, Flow

LEMMA WatchTyped ==
  ASSUME TypeInv, NEW t \in Tasks,
         pending' = [pending EXCEPT ![Flow(t)] = Watched(@, t)]
  PROVE  /\ PendingType'
         /\ \A g \in Flows : \A i \in 1..Len(pending'[g]) :
              \/ g = Flow(t) /\ pending'[g][i] = t
              \/ \E j \in 1..Len(pending[g]) : pending'[g][i] = pending[g][j]
<1> DEFINE f == Flow(t)
<1>0. f \in Flows BY TasksAre
<1>1. pending[f] \in Seq(Tasks) /\ OneEach(pending[f])
  BY <1>0 DEF TypeInv, PendingType
<1>2. /\ Watched(pending[f], t) \in Seq(Tasks) /\ OneEach(Watched(pending[f], t))
      /\ \A i \in 1..Len(Watched(pending[f], t)) :
           \/ Watched(pending[f], t)[i] = t
           \/ \E j \in 1..Len(pending[f]) : Watched(pending[f], t)[i] = pending[f][j]
  BY <1>1, WatchedAdds
<1>3. /\ pending' \in [Flows -> Seq(Tasks)]
      /\ \A g \in Flows :
           pending'[g] = IF g = f THEN Watched(pending[f], t) ELSE pending[g]
  BY <1>0, <1>2 DEF TypeInv, PendingType
<1>4. \A g \in Flows : \A i \in 1..Len(pending'[g]) :
        \/ g = f /\ pending'[g][i] = t
        \/ \E j \in 1..Len(pending[g]) : pending'[g][i] = pending[g][j]
  BY <1>2, <1>3
<1>5. \A g \in Flows : OneEach(pending'[g])
  BY <1>2, <1>3 DEF TypeInv, PendingType
<1>6. \A g \in Flows : \A i \in 1..Len(pending'[g]) : Flow(pending'[g][i]) = g
  <2>1. \A g \in Flows : \A j \in 1..Len(pending[g]) : Flow(pending[g][j]) = g
    BY DEF TypeInv, PendingType
  <2> QED BY <1>4, <2>1 DEF Flow
<1> QED BY <1>3, <1>4, <1>5, <1>6 DEF PendingType, OneEach, Flow

(* An event moves no task on and keeps every type.                          *)
LEMMA ResolvesTyped ==
  ASSUME TypeInv, NEW ts \in [Tasks -> TaskRec], NEW ok \in BOOLEAN,
         Resolves(ts, ok)
  PROVE  /\ task' \in [Tasks -> TaskRec]
         /\ \A u \in Tasks : task'[u].pc = ts[u].pc /\ task'[u].client = ts[u].client
         /\ PendingType'
         /\ node' \in [Nodes -> NodeStatus]
<1>1. CASE task' = ts /\ UNCHANGED <<pending, node>>
  BY <1>1 DEF TypeInv, PendingType, OneEach, Flow
<1>2. ASSUME NEW f \in Flows, NEW i \in 1..Len(pending[f]), NEW t \in Tasks,
             pending' = [pending EXCEPT ![f] = Without(@, t[1])],
             node' = [node EXCEPT ![t[1]] = IF ok THEN "completed" ELSE "failed"],
             NEW r \in {"none", "ok", "error"},
             task' = [ts EXCEPT ![t].result = r]
      PROVE  /\ task' \in [Tasks -> TaskRec]
             /\ \A u \in Tasks :
                  task'[u].pc = ts[u].pc /\ task'[u].client = ts[u].client
             /\ PendingType'
             /\ node' \in [Nodes -> NodeStatus]
  <2>0. Pops(f, t[1]) BY <1>2 DEF Pops
  <2>1. PendingType' BY <2>0, PopTyped
  <2>2. node' \in [Nodes -> NodeStatus]
    BY <1>2, TasksAre DEF TypeInv, NodeStatus
  <2>3. /\ task' \in [Tasks -> TaskRec]
        /\ \A u \in Tasks : task'[u].pc = ts[u].pc /\ task'[u].client = ts[u].client
    BY <1>2 DEF TaskRec
  <2> QED BY <2>1, <2>2, <2>3
<1> QED BY <1>1, <1>2 DEF Resolves

(* What an action leaves alone keeps its type.                              *)
LEMMA Untouched ==
  ASSUME TypeInv
  PROVE  /\ UNCHANGED pending => PendingType'
         /\ UNCHANGED <<task, turns>> => TaskType'
         /\ UNCHANGED graph => GraphType'
         /\ UNCHANGED run => RunType'
         /\ UNCHANGED node => node' \in [Nodes -> NodeStatus]
         /\ UNCHANGED reg => reg' \in [Sessions -> Clients \cup {NoClient}]
         /\ UNCHANGED wrapper => wrapper' \in [Clients -> Flows \cup {NoFlow}]
         /\ UNCHANGED strays => strays' \in Nat
<1>1. UNCHANGED pending => PendingType'
  BY DEF TypeInv, PendingType, OneEach, Flow
<1>2. UNCHANGED <<task, turns>> => TaskType'
  BY DEF TypeInv, TaskType, At
<1>3. UNCHANGED graph => GraphType'
  BY DEF TypeInv, GraphType, graph
<1>4. UNCHANGED run => RunType'
  BY DEF TypeInv, RunType, run
<1> QED BY <1>1, <1>2, <1>3, <1>4 DEF TypeInv

(* cancel() ends the tasks of the flow that there are.                      *)
Ended(t) == [task[t] EXCEPT !.pc = "over", !.result = "none"]

LEMMA CancelIs ==
  ASSUME task \in [Tasks -> TaskRec], NEW f \in Flows, Cancel(f)
  PROVE  /\ UNCHANGED <<phase, node, pending, strays, runs, graph, reg, wrapper, turns>>
         /\ status' = [status EXCEPT ![f] = "cancelled"]
         /\ held' = IF phase[f] = "drain" THEN held \cup {f} ELSE held
         /\ task' \in [Tasks -> TaskRec]
         /\ \A u \in Tasks :
              /\ task'[u].client = task[u].client
              /\ task'[u].pc = IF Flow(u) = f /\ task[u].pc # "none"
                               THEN "over" ELSE task[u].pc
<1>1. /\ status' = [status EXCEPT ![f] = "cancelled"]
      /\ held' = IF phase[f] = "drain" THEN held \cup {f} ELSE held
      /\ UNCHANGED <<phase, node, pending, strays, runs, graph, harness>>
      /\ task' = [t \in Tasks |->
                    IF Flow(t) = f /\ task[t].pc # "none" THEN Ended(t) ELSE task[t]]
  BY Zenon DEF Cancel, Ended
<1>2. \A u \in Tasks :
        Ended(u) \in TaskRec /\ Ended(u).pc = "over" /\ Ended(u).client = task[u].client
  BY DEF Ended, TaskRec, Points
<1>3. /\ task' \in [Tasks -> TaskRec]
      /\ \A u \in Tasks : task'[u] = IF Flow(u) = f /\ task[u].pc # "none"
                                     THEN Ended(u) ELSE task[u]
  BY <1>1, <1>2
<1>4. UNCHANGED <<reg, wrapper, turns>> BY <1>1 DEF harness
<1> QED BY <1>1, <1>2, <1>3, <1>4

(* Finish and Close do not touch a task; Starts, Cancel and Reported do.    *)
LEMMA RunTyped ==
  ASSUME TypeInv, NEW f \in Flows,
         RunFlow(f) \/ Cancel(f) \/ RunStep(f)
  PROVE  TypeInv'
<1> USE Untouched
<1>0. /\ status \in [Flows -> Statuses]
      /\ phase \in [Flows -> Phases]
      /\ runs \in [Flows -> Nat] /\ held \subseteq Flows
      /\ node \in [Nodes -> NodeStatus]
      /\ wrapper \in [Clients -> Flows \cup {NoFlow}]
  BY DEF TypeInv, RunType
<1>1. CASE RunFlow(f)
  <2>1. RunType' BY <1>0, <1>1 DEF RunFlow, RunType
  <2>2. UNCHANGED <<node, task, pending, strays, graph, reg, wrapper, turns>>
    BY <1>1 DEF RunFlow, harness
  <2> QED BY <2>1, <2>2 DEF TypeInv
<1>2. CASE Boot(f)
  <2>1. RunType' BY <1>0, <1>2 DEF Boot, RunType
  <2>2. UNCHANGED <<node, task, pending, strays, graph, reg, wrapper, turns>>
    BY <1>2 DEF Boot, harness
  <2> QED BY <2>1, <2>2 DEF TypeInv
<1>3. CASE Starts(f)
  <2>1. RunType' BY <1>0, <1>3 DEF Starts, RunType
  <2>2. UNCHANGED <<node, pending, strays, graph, reg, wrapper, turns>>
    BY <1>3 DEF Starts, harness
  <2>3. TaskType'
    <3>1. task' = Spawned({n \in NodesOf(f) : indegree[n] = 0}, task)
      BY <1>3 DEF Starts
    <3>2. task \in [Tasks -> TaskRec] BY DEF TypeInv, TaskType
    <3>3. /\ task' \in [Tasks -> TaskRec]
          /\ \A u \in Tasks : /\ task'[u].client = task[u].client
                             /\ task'[u].pc \in {task[u].pc, "spawned"}
      BY <3>1, <3>2, SpawnedIs
    <3> QED BY <2>2, <3>3 DEF TypeInv, TaskType, At
  <2> QED BY <2>1, <2>2, <2>3 DEF TypeInv
<1>4. CASE Finish(f)
  <2>1. RunType' BY <1>0, <1>4 DEF Finish, RunType
  <2>2. UNCHANGED <<task, pending, strays, graph, reg, wrapper, turns>>
    BY <1>4 DEF Finish, harness
  <2>3. node' \in [Nodes -> NodeStatus] BY <1>0, <1>4 DEF Finish, NodeStatus
  <2> QED BY <2>1, <2>2, <2>3 DEF TypeInv
<1>5. CASE Close(f)
  <2>1. RunType' BY <1>0, <1>5 DEF Close, RunType
  <2>2. UNCHANGED <<node, task, pending, strays, graph, reg, turns>>
    BY <1>5 DEF Close
  <2>3. wrapper' \in [Clients -> Flows \cup {NoFlow}] BY <1>0, <1>5 DEF Close
  <2> QED BY <2>1, <2>2, <2>3 DEF TypeInv
<1>6. CASE Cancel(f)
  <2>0. task \in [Tasks -> TaskRec] BY DEF TypeInv, TaskType
  <2>1. RunType' BY <1>0, <1>6, <2>0, CancelIs DEF RunType
  <2>2. UNCHANGED <<node, pending, strays, graph, reg, wrapper, turns>>
    BY <1>6, <2>0, CancelIs
  <2>3. /\ task' \in [Tasks -> TaskRec]
        /\ \A u \in Tasks : /\ task'[u].client = task[u].client
                            /\ task'[u].pc \in {task[u].pc, "over"}
    BY <1>6, <2>0, CancelIs
  <2>4. TaskType' BY <2>2, <2>3 DEF TypeInv, TaskType, At
  <2> QED BY <2>1, <2>2, <2>4 DEF TypeInv
<1> QED BY <1>1, <1>2, <1>3, <1>4, <1>5, <1>6 DEF RunStep

(* A task that only moves on: another pc, and the client it has.            *)
LEMMA MovesTyped ==
  ASSUME TypeInv, NEW t \in Tasks, NEW pc \in Points,
         task' = [task EXCEPT ![t].pc = pc],
         turns' \subseteq Tasks,
         \A u \in turns' : u \in turns \/ u = t,
         pc \in {"turn", "sent"} \/ t \in turns' => task[t].client \in Clients
  PROVE  TaskType'
BY DEF TypeInv, TaskType, TaskRec, At

LEMMA UsesTyped ==
  ASSUME TypeInv, NEW t \in Tasks, NEW c \in Clients, UseClient(t, c),
         UNCHANGED turns
  PROVE  TaskType' /\ wrapper' \in [Clients -> Flows \cup {NoFlow}]
<1>1. TaskType'
  <2>1. task \in [Tasks -> TaskRec] BY DEF TypeInv, TaskType
  <2>2. /\ task' \in [Tasks -> TaskRec] /\ task'[t].client = c
        /\ \A u \in Tasks : u # t => task'[u] = task[u]
    BY <2>1 DEF UseClient, TaskRec, Points
  <2> QED BY <2>1, <2>2 DEF TypeInv, TaskType, At
<1>2. wrapper' \in [Clients -> Flows \cup {NoFlow}]
  BY TasksAre DEF UseClient, TypeInv
<1> QED BY <1>1, <1>2

LEMMA TurnTyped ==
  ASSUME TypeInv, \/ \E t \in Tasks : TurnEnds(t)
                  \/ \E s \in Claw : StrayTurnEnds(s)
  PROVE  TypeInv'
<1> USE Untouched
<1>0. task \in [Tasks -> TaskRec] BY DEF TypeInv, TaskType
<1>1. ASSUME NEW t \in Tasks, TurnEnds(t) PROVE TypeInv'
  <2>1. task[t].client \in Clients BY <1>1 DEF TurnEnds, TypeInv, TaskType
  <2>2. PICK ok \in BOOLEAN : Emits(task, task[t].client, t, SessionIs(t), ok)
    BY <1>1 DEF TurnEnds
  <2>3. Resolves(task, ok) BY <1>0, <2>1, <2>2, EmitsIs
  <2>4. /\ task' \in [Tasks -> TaskRec]
        /\ \A u \in Tasks :
             task'[u].pc = task[u].pc /\ task'[u].client = task[u].client
        /\ PendingType' /\ node' \in [Nodes -> NodeStatus]
    BY <1>0, <2>3, ResolvesTyped
  <2>5. UNCHANGED <<run, reg, wrapper, strays, graph>> /\ turns' = turns \ {t}
    BY <1>1 DEF TurnEnds
  <2>6. TaskType' BY <2>4, <2>5 DEF TypeInv, TaskType, At
  <2> QED BY <2>4, <2>5, <2>6 DEF TypeInv
<1>2. ASSUME NEW s \in Claw, StrayTurnEnds(s) PROVE TypeInv'
  <2>1. reg[s] \in Clients
    BY <1>2, FlowSchedulerAssumption DEF StrayTurnEnds, TypeInv
  <2>2. PICK ok \in BOOLEAN : Emits(task, reg[s], Stray, s, ok)
    BY <1>2 DEF StrayTurnEnds
  <2>3. Resolves(task, ok) BY <1>0, <2>1, <2>2, EmitsIs
  <2>4. /\ task' \in [Tasks -> TaskRec]
        /\ \A u \in Tasks :
             task'[u].pc = task[u].pc /\ task'[u].client = task[u].client
        /\ PendingType' /\ node' \in [Nodes -> NodeStatus]
    BY <1>0, <2>3, ResolvesTyped
  <2>5. UNCHANGED <<run, graph, reg, wrapper, turns>> /\ strays' \in Nat
    BY <1>2 DEF StrayTurnEnds, TypeInv, harness
  <2>6. TaskType' BY <2>4, <2>5 DEF TypeInv, TaskType, At
  <2> QED BY <2>4, <2>5, <2>6 DEF TypeInv
<1> QED BY <1>1, <1>2

(* The end of a task that succeeded spawns the nodes its edges made ready.  *)
Outcome(t, taken, ts) ==
  /\ taken \subseteq {e \in Edges : e[1] = t[1]}
  /\ indegree' = [n \in Nodes |->
                    IF n \in {e[2] : e \in taken} THEN indegree[n] - 1 ELSE indegree[n]]
  /\ fired' = fired \cup taken
  /\ task' = Spawned(Ready({e[2] : e \in taken}, indegree'), ts)

LEMMA ReportedIs ==
  ASSUME task \in [Tasks -> TaskRec], NEW t \in Tasks, Reported(t)
  PROVE  /\ UNCHANGED <<run, node, pending, strays, reg, wrapper, turns>>
         /\ At(t, "report")
         /\ \E ts \in [Tasks -> TaskRec] :
              /\ \A u \in Tasks : /\ ts[u].pc = IF u = t THEN "over" ELSE task[u].pc
                                  /\ ts[u].client = task[u].client
              /\ \/ task' = ts /\ UNCHANGED graph
                 \/ \E taken \in SUBSET Edges : Outcome(t, taken, ts)
<1> DEFINE out == {e \in Edges : e[1] = t[1]}
           ts == [task EXCEPT ![t].pc = "over", ![t].result = "none"]
<1>1. /\ UNCHANGED <<run, node, pending, strays, reg, wrapper, turns>>
      /\ At(t, "report")
  BY DEF Reported, harness
<1>2. /\ ts \in [Tasks -> TaskRec]
      /\ \A u \in Tasks : /\ ts[u].pc = IF u = t THEN "over" ELSE task[u].pc
                          /\ ts[u].client = task[u].client
  BY DEF TaskRec, Points
<1>3. \/ task' = ts /\ UNCHANGED graph
      \/ \E taken \in SUBSET Edges : Outcome(t, taken, ts)
  <2>1. CASE task[t].result # "ok"
    BY Zenon, <2>1 DEF Reported
  <2>2. CASE task[t].result = "ok"
    <3>1. PICK hold \in SUBSET (out \cap Conditional) :
            LET taken == hold \cup (out \ Conditional)
                to == {e[2] : e \in taken} IN
            /\ indegree' = [n \in Nodes |-> IF n \in to THEN indegree[n] - 1 ELSE indegree[n]]
            /\ fired' = fired \cup taken
            /\ task' = Spawned(Ready(to, indegree'), ts)
      BY Zenon, <2>2 DEF Reported
    <3> DEFINE taken == hold \cup (out \ Conditional)
    <3>2. taken \subseteq out /\ taken \in SUBSET Edges OBVIOUS
    <3>3. Outcome(t, taken, ts) BY Zenon, <3>1, <3>2 DEF Outcome
    <3> QED BY <3>2, <3>3
  <2> QED BY <2>1, <2>2
<1> HIDE DEF ts
<1> QED BY <1>1, <1>2, <1>3

(* A failing send: the event comes before the node's entry is made.         *)
LEMMA SendFailsIs ==
  ASSUME TypeInv, NEW t \in Tasks, SendFails(t)
  PROVE  /\ UNCHANGED <<run, reg, wrapper, strays, graph>>
         /\ At(t, "turn") /\ turns' \subseteq turns \cup {t}
         /\ \E ts \in [Tasks -> TaskRec] :
              /\ \A u \in Tasks : /\ ts[u].pc = IF u = t THEN "sent" ELSE task[u].pc
                                  /\ ts[u].client = task[u].client
              /\ Resolves(ts, FALSE)
<1> DEFINE ts == [task EXCEPT ![t].pc = "sent"]
<1>1. /\ UNCHANGED <<run, reg, wrapper, strays, graph>>
      /\ At(t, "turn") /\ turns' \subseteq turns \cup {t}
      /\ Emits(ts, task[t].client, t, SessionIs(t), FALSE)
  BY DEF SendFails
<1>2. /\ ts \in [Tasks -> TaskRec]
      /\ \A u \in Tasks : /\ ts[u].pc = IF u = t THEN "sent" ELSE task[u].pc
                          /\ ts[u].client = task[u].client
  BY DEF TypeInv, TaskType, TaskRec, Points
<1>3. task[t].client \in Clients BY <1>1 DEF TypeInv, TaskType
<1> HIDE DEF ts
<1>4. Resolves(ts, FALSE) BY <1>1, <1>2, <1>3, EmitsIs
<1> QED BY <1>1, <1>2, <1>4

LEMMA TaskTyped ==
  ASSUME TypeInv, NEW t \in Tasks, TaskStep(t)
  PROVE  TypeInv'
<1> USE Untouched
<1>0. /\ task \in [Tasks -> TaskRec] /\ turns \subseteq Tasks
      /\ At(t, "turn") \/ At(t, "sent") \/ t \in turns => task[t].client \in Clients
      /\ node \in [Nodes -> NodeStatus] /\ reg \in [Sessions -> Clients \cup {NoClient}]
  BY DEF TypeInv, TaskType
<1>00. /\ t[1] \in Nodes /\ Flow(t) \in Flows /\ SessionIs(t) \in Sessions
       /\ t \in Clients
  BY TasksAre
<1>1. CASE StartNode(t)
  <2>1. TaskType'
    BY <1>0, <1>1, MovesTyped DEF StartNode, Goto, Points, harness
  <2>2. node' \in [Nodes -> NodeStatus]
    BY <1>0, <1>1 DEF StartNode, NodeStatus
  <2> QED BY <1>1, <2>1, <2>2 DEF StartNode, TypeInv, harness
<1>2. CASE FindClient(t)
  <2>1. UNCHANGED <<run, node, pending, reg, turns, strays, graph>>
    BY <1>2 DEF FindClient
  <2>2. CASE reg[SessionIs(t)] = NoClient
    <3>1. Goto(t, "create") /\ UNCHANGED wrapper BY <1>2, <2>2 DEF FindClient
    <3>2. TaskType' BY <1>0, <2>1, <3>1, MovesTyped DEF Goto, Points
    <3> QED BY <2>1, <3>1, <3>2 DEF TypeInv
  <2>3. CASE reg[SessionIs(t)] # NoClient
    <3>1. UseClient(t, reg[SessionIs(t)]) BY <1>2, <2>3 DEF FindClient
    <3>2. reg[SessionIs(t)] \in Clients BY <1>0, <1>00, <2>3
    <3>3. TaskType' /\ wrapper' \in [Clients -> Flows \cup {NoFlow}]
      BY <2>1, <3>1, <3>2, UsesTyped
    <3> QED BY <2>1, <3>3 DEF TypeInv
  <2> QED BY <2>2, <2>3
<1>3. CASE Created(t)
  <2>1. /\ UNCHANGED <<run, node, pending, turns, strays, graph>>
        /\ UseClient(t, t) /\ reg' \in [Sessions -> Clients \cup {NoClient}]
    BY <1>0, <1>00, <1>3 DEF Created
  <2>2. TaskType' /\ wrapper' \in [Clients -> Flows \cup {NoFlow}]
    BY <1>00, <2>1, UsesTyped
  <2> QED BY <2>1, <2>2 DEF TypeInv
<1>4. CASE CreateRaises(t)
  <2>1. TaskType'
    BY <1>0, <1>4, MovesTyped DEF CreateRaises, Goto, Points, harness
  <2> QED BY <1>4, <2>1 DEF CreateRaises, TypeInv, harness
<1>5. CASE TurnStarts(t)
  <2>1. TaskType'
    BY <1>0, <1>5, MovesTyped DEF TurnStarts, Wait, Points
  <2>2. PendingType' BY <1>5, WatchTyped DEF TurnStarts, Wait
  <2> QED BY <1>5, <2>1, <2>2 DEF TurnStarts, TypeInv
<1>6. CASE MessageTaken(t)
  <2>1. TaskType'
    BY <1>0, <1>6, MovesTyped DEF MessageTaken, Goto, Points
  <2> QED BY <1>6, <2>1 DEF MessageTaken, TypeInv
<1>7. CASE MessageSent(t)
  <2>1. TaskType'
    BY <1>0, <1>7, MovesTyped DEF MessageSent, Wait, Points, harness
  <2>2. PendingType' BY <1>7, WatchTyped DEF MessageSent, Wait
  <2> QED BY <1>7, <2>1, <2>2 DEF MessageSent, TypeInv, harness
<1>8. CASE NotConnected(t)
  <2>1. TaskType'
    BY <1>0, <1>8, MovesTyped DEF NotConnected, Wait, Points, harness
  <2>2. PendingType' BY <1>8, WatchTyped DEF NotConnected, Wait
  <2> QED BY <1>8, <2>1, <2>2 DEF NotConnected, TypeInv, harness
<1>9. CASE SendFails(t)
  <2>1. PICK ts \in [Tasks -> TaskRec] :
          /\ \A u \in Tasks : /\ ts[u].pc = IF u = t THEN "sent" ELSE task[u].pc
                              /\ ts[u].client = task[u].client
          /\ Resolves(ts, FALSE)
    BY <1>9, SendFailsIs
  <2>2. /\ task' \in [Tasks -> TaskRec]
        /\ \A u \in Tasks : task'[u].pc = ts[u].pc /\ task'[u].client = ts[u].client
        /\ PendingType' /\ node' \in [Nodes -> NodeStatus]
    BY <2>1, ResolvesTyped
  <2>3. UNCHANGED <<run, reg, wrapper, strays, graph>> BY <1>9, SendFailsIs
  <2>4. turns' \subseteq turns \cup {t} /\ At(t, "turn") BY <1>9, SendFailsIs
  <2>5. TaskType' BY <1>0, <2>1, <2>2, <2>4 DEF TypeInv, TaskType, At
  <2> QED BY <2>2, <2>3, <2>5 DEF TypeInv
<1>10. CASE Completed(t)
  <2>1. TaskType'
    BY <1>0, <1>10, MovesTyped DEF Completed, Goto, Points, harness
  <2> QED BY <1>10, <2>1 DEF Completed, TypeInv, harness
<1>11. CASE Timeout(t)
  <2>1. UNCHANGED <<run, strays, graph, reg, wrapper, turns>>
    BY <1>11 DEF Timeout, TimedOut, harness
  <2>2. /\ task' \in [Tasks -> TaskRec] /\ task'[t].pc = "report"
        /\ task'[t].client = task[t].client
        /\ \A u \in Tasks : u # t => task'[u] = task[u]
    BY <1>0, <1>11 DEF Timeout, TimedOut, TaskRec, Points
  <2>3. TaskType' BY <2>1, <2>2 DEF TypeInv, TaskType, At
  <2>4. PendingType'
    <3>1. Pops(Flow(t), t[1]) BY <1>11 DEF Timeout, Pops
    <3> QED BY <1>00, <3>1, PopTyped
  <2>5. node' \in [Nodes -> NodeStatus]
    BY <1>0, <1>11 DEF Timeout, TimedOut, NodeStatus
  <2> QED BY <2>1, <2>3, <2>4, <2>5 DEF TypeInv
<1>12. CASE Reported(t)
  <2>1. PICK ts \in [Tasks -> TaskRec] :
          /\ \A u \in Tasks : /\ ts[u].pc = IF u = t THEN "over" ELSE task[u].pc
                              /\ ts[u].client = task[u].client
          /\ \/ task' = ts /\ UNCHANGED graph
             \/ \E taken \in SUBSET Edges : Outcome(t, taken, ts)
    BY <1>0, <1>12, ReportedIs
  <2>2. UNCHANGED <<run, node, pending, strays, reg, wrapper, turns>>
    BY <1>0, <1>12, ReportedIs
  <2>3. /\ task' \in [Tasks -> TaskRec]
        /\ \A u \in Tasks : /\ task'[u].client = task[u].client
                            /\ task'[u].pc \in {task[u].pc, "spawned", "over"}
        /\ GraphType'
    <3>1. CASE task' = ts /\ UNCHANGED graph
      BY <2>1, <3>1
    <3>2. ASSUME NEW taken \in SUBSET Edges, Outcome(t, taken, ts)
          PROVE  /\ task' \in [Tasks -> TaskRec]
                 /\ \A u \in Tasks :
                      /\ task'[u].client = task[u].client
                      /\ task'[u].pc \in {task[u].pc, "spawned", "over"}
                 /\ GraphType'
      <4> DEFINE to == {e[2] : e \in taken}
                 ns == Ready(to, indegree')
      <4>1. /\ task' = Spawned(ns, ts) /\ fired' = fired \cup taken
            /\ indegree' = [n \in Nodes |-> IF n \in to THEN indegree[n] - 1
                                            ELSE indegree[n]]
        BY Zenon, <3>2 DEF Outcome
      <4> HIDE DEF ns, to
      <4>2. /\ task' \in [Tasks -> TaskRec]
            /\ \A u \in Tasks : /\ task'[u].client = ts[u].client
                                /\ task'[u].pc \in {ts[u].pc, "spawned"}
        BY <4>1, SpawnedIs
      <4>3. GraphType' BY <4>1 DEF TypeInv, GraphType
      <4> QED BY <2>1, <4>2, <4>3
    <3> QED BY <2>1, <3>1, <3>2
  <2>4. TaskType' BY <2>2, <2>3 DEF TypeInv, TaskType, At
  <2> QED BY <2>2, <2>3, <2>4 DEF TypeInv
<1> QED BY <1>1, <1>2, <1>3, <1>4, <1>5, <1>6, <1>7, <1>8, <1>9, <1>10,
           <1>11, <1>12 DEF TaskStep

LEMMA TypeStep == TypeInv /\ [Next]_vars => TypeInv'
<1> SUFFICES ASSUME TypeInv, [Next]_vars PROVE TypeInv' OBVIOUS
<1>1. CASE UNCHANGED vars
  BY <1>1, Untouched DEF vars, TypeInv, graph, run, harness
<1>2. CASE Next
  BY <1>2, RunTyped, TaskTyped, TurnTyped DEF Next
<1> QED BY <1>1, <1>2
-------------------------------------------------------------------------------
(* The first run of a flow, until the flow is run again.                    *)
First(n) == runs[FlowOf[n]] <= 1

(* Nothing has run before the start nodes are spawned.                      *)
BeginInv ==
  \A f \in Flows :
    /\ runs[f] = 0 <=> phase[f] = "created"
    /\ runs[f] <= 1 /\ phase[f] \in Early =>
         \A t \in TasksOf(f) : At(t, "none")

OnceInv ==
  \A n \in Nodes : First(n) => \A k \in 2..MaxTasks : At(<<n, k>>, "none")

(* An edge is traversed at the end of its source.                           *)
EdgesInv ==
  \A e \in fired : First(e[1]) => At(<<e[1], 1>>, "over")

(* _indegree counts the edges to come.                                      *)
CountInv ==
  \A n \in Nodes : First(n) => indegree[n] = Cardinality(In(n) \ fired)

MergeInv ==
  \A n \in Nodes : First(n) =>
    /\ Ran(n) => In(n) \subseteq fired
    /\ In(n) \subseteq fired =>
         \/ Ran(n)
         \/ In(n) = {} /\ phase[FlowOf[n]] \in Early

GraphInv == BeginInv /\ OnceInv /\ EdgesInv /\ CountInv /\ MergeInv

(* Most steps start no task, and bring none back that is over.              *)
Quiet ==
  /\ UNCHANGED <<graph, phase, runs>>
  /\ \A u \in Tasks :
       /\ task'[u].pc = "none" <=> task[u].pc = "none"
       /\ task[u].pc = "over" => task'[u].pc = "over"

LEMMA MovesQuietly ==
  ASSUME TypeInv, NEW t \in Tasks, ~At(t, "none"), ~At(t, "over"),
         task' \in [Tasks -> TaskRec], ~At(t, "none")',
         \A u \in Tasks : u # t => task'[u].pc = task[u].pc,
         UNCHANGED <<graph, phase, runs>>
  PROVE  Quiet
BY DEF Quiet, At

LEMMA TurnIsQuiet ==
  ASSUME TypeInv, \/ \E t \in Tasks : TurnEnds(t)
                  \/ \E s \in Claw : StrayTurnEnds(s)
  PROVE  Quiet
<1>0. task \in [Tasks -> TaskRec] BY DEF TypeInv, TaskType
<1>1. ASSUME NEW t \in Tasks, TurnEnds(t) PROVE Quiet
  <2>1. task[t].client \in Clients BY <1>1 DEF TurnEnds, TypeInv, TaskType
  <2>2. PICK ok \in BOOLEAN : Emits(task, task[t].client, t, SessionIs(t), ok)
    BY <1>1 DEF TurnEnds
  <2>3. \A u \in Tasks : task'[u].pc = task[u].pc
    BY <1>0, <2>1, <2>2, EmitsIs, ResolvesTyped
  <2> QED BY <1>1, <2>3 DEF TurnEnds, Quiet, run
<1>2. ASSUME NEW s \in Claw, StrayTurnEnds(s) PROVE Quiet
  <2>1. reg[s] \in Clients
    BY <1>2, FlowSchedulerAssumption DEF StrayTurnEnds, TypeInv
  <2>2. PICK ok \in BOOLEAN : Emits(task, reg[s], Stray, s, ok)
    BY <1>2 DEF StrayTurnEnds
  <2>3. \A u \in Tasks : task'[u].pc = task[u].pc
    BY <1>0, <2>1, <2>2, EmitsIs, ResolvesTyped
  <2> QED BY <1>2, <2>3 DEF StrayTurnEnds, Quiet, run
<1> QED BY <1>1, <1>2

LEMMA TaskIsQuiet ==
  ASSUME TypeInv, NEW t \in Tasks, TaskStep(t), ~Reported(t)
  PROVE  Quiet
<1>0. task \in [Tasks -> TaskRec] BY DEF TypeInv, TaskType
<1>1. CASE StartNode(t)
  BY <1>0, <1>1, MovesQuietly DEF StartNode, Goto, At, run, TaskRec, Points
<1>2. CASE FindClient(t)
  <2>1. /\ UNCHANGED <<graph, phase, runs>> /\ At(t, "open")
        /\ \/ Goto(t, "create")
           \/ task' = [task EXCEPT ![t].pc = "turn", ![t].client = reg[SessionIs(t)]]
    BY <1>2 DEF FindClient, UseClient, run
  <2>2. /\ \A u \in Tasks : u # t => task'[u] = task[u]
        /\ task'[t].pc # "none"
    BY <1>0, <2>1 DEF Goto, TaskRec
  <2> QED BY <2>1, <2>2 DEF Quiet, At
<1>3. CASE Created(t)
  <2>1. /\ UNCHANGED <<graph, phase, runs>> /\ At(t, "create")
        /\ task' = [task EXCEPT ![t].pc = "turn", ![t].client = t]
    BY <1>3 DEF Created, UseClient, run
  <2>2. /\ \A u \in Tasks : u # t => task'[u] = task[u]
        /\ task'[t].pc # "none"
    BY <1>0, <2>1 DEF TaskRec
  <2> QED BY <2>1, <2>2 DEF Quiet, At
<1>4. CASE CreateRaises(t)
  BY <1>0, <1>4, MovesQuietly DEF CreateRaises, Goto, At, run, TaskRec, Points
<1>5. CASE TurnStarts(t)
  BY <1>0, <1>5, MovesQuietly DEF TurnStarts, Wait, At, run, TaskRec, Points
<1>6. CASE MessageTaken(t)
  BY <1>0, <1>6, MovesQuietly DEF MessageTaken, Goto, At, run, TaskRec, Points
<1>7. CASE MessageSent(t)
  BY <1>0, <1>7, MovesQuietly DEF MessageSent, Wait, At, run, TaskRec, Points
<1>8. CASE NotConnected(t)
  BY <1>0, <1>8, MovesQuietly DEF NotConnected, Wait, At, run, TaskRec, Points
<1>9. CASE SendFails(t)
  <2>1. PICK ts \in [Tasks -> TaskRec] :
          /\ \A u \in Tasks : ts[u].pc = IF u = t THEN "sent" ELSE task[u].pc
          /\ Resolves(ts, FALSE)
    BY <1>9, SendFailsIs
  <2>2. \A u \in Tasks : task'[u].pc = ts[u].pc BY <2>1, ResolvesTyped
  <2>3. UNCHANGED <<graph, phase, runs>> /\ At(t, "turn")
    BY <1>9 DEF SendFails, run
  <2> QED BY <2>1, <2>2, <2>3 DEF Quiet, At
<1>10. CASE Completed(t)
  BY <1>0, <1>10, MovesQuietly DEF Completed, Goto, At, run, TaskRec, Points
<1>11. CASE Timeout(t)
  <2>1. /\ UNCHANGED <<graph, phase, runs>> /\ At(t, "wait")
        /\ task' = [task EXCEPT ![t].pc = "report", ![t].result = "error"]
    BY <1>11 DEF Timeout, TimedOut, run
  <2>2. /\ \A u \in Tasks : u # t => task'[u] = task[u]
        /\ task'[t].pc # "none"
    BY <1>0, <2>1 DEF TaskRec
  <2> QED BY <2>1, <2>2 DEF Quiet, At
<1> QED BY <1>1, <1>2, <1>3, <1>4, <1>5, <1>6, <1>7, <1>8, <1>9, <1>10,
           <1>11 DEF TaskStep

LEMMA CancelIsQuiet ==
  ASSUME TypeInv, NEW f \in Flows, Cancel(f)
  PROVE  Quiet
<1>1. task \in [Tasks -> TaskRec] BY DEF TypeInv, TaskType
<1>2. /\ UNCHANGED <<phase, runs, graph>>
      /\ \A u \in Tasks : task'[u].pc = IF Flow(u) = f /\ task[u].pc # "none"
                                        THEN "over" ELSE task[u].pc
  BY <1>1, CancelIs
<1> QED BY <1>2 DEF Quiet

LEMMA QuietKeepsGraph ==
  ASSUME TypeInv, GraphInv, Quiet
  PROVE  GraphInv'
<1>0. /\ UNCHANGED <<indegree, fired, phase, runs>>
      /\ \A u \in Tasks : /\ task'[u].pc = "none" <=> task[u].pc = "none"
                          /\ task[u].pc = "over" => task'[u].pc = "over"
  BY DEF Quiet, graph
<1>1. BeginInv' BY <1>0 DEF GraphInv, BeginInv, TasksOf, At, Flow
<1>2. OnceInv'
  BY <1>0, TasksAre DEF GraphInv, OnceInv, First, At
<1>3. EdgesInv'
  BY <1>0, TasksAre, FlowSchedulerAssumption
    DEF GraphInv, EdgesInv, First, At, TypeInv, GraphType
<1>4. CountInv' BY <1>0 DEF GraphInv, CountInv, First, In
<1>5. MergeInv'
  BY <1>0, TasksAre, FlowSchedulerAssumption DEF GraphInv, MergeInv, First, In, Ran
<1> QED BY <1>1, <1>2, <1>3, <1>4, <1>5 DEF GraphInv

LEMMA InIsFinite == \A n \in Nodes : \A s : IsFiniteSet(In(n) \ s)
<1> TAKE n \in Nodes
<1> TAKE s
<1> QED BY FS_Subset, FlowSchedulerAssumption DEF In

(* A count of nothing left is an empty set.                                 *)
LEMMA NothingLeft ==
  ASSUME NEW n \in Nodes, NEW s
  PROVE  /\ Cardinality(In(n) \ s) \in Nat
         /\ Cardinality(In(n) \ s) = 0 <=> In(n) \subseteq s
<1>1. IsFiniteSet(In(n) \ s) BY InIsFinite
<1>2. Cardinality(In(n) \ s) \in Nat BY <1>1, FS_CardinalityType
<1>3. Cardinality(In(n) \ s) = 0 <=> In(n) \ s = {} BY <1>1, FS_EmptySet
<1> QED BY <1>2, <1>3

(* What _spawn_node does to the tasks of one node.                          *)
LEMMA SpawnsFirst ==
  ASSUME NEW ns, NEW ts \in [Tasks -> TaskRec], NEW n \in Nodes,
         \A k \in 2..MaxTasks : ts[<<n, k>>].pc = "none",
         n \in ns => ts[<<n, 1>>].pc = "none"
  PROVE  /\ Spawned(ns, ts)[<<n, 1>>].pc =
              IF n \in ns THEN "spawned" ELSE ts[<<n, 1>>].pc
         /\ \A k \in 2..MaxTasks : Spawned(ns, ts)[<<n, k>>].pc = "none"
<1>0. 1 \in 1..MaxTasks /\ MaxTasks \in Nat BY FlowSchedulerAssumption
<1>1. <<n, 1>> \in Tasks BY <1>0, TasksAre
<1>2. Spawned(ns, ts)[<<n, 1>>].pc =
        IF n \in ns /\ ts[<<n, 1>>].pc = "none" THEN "spawned" ELSE ts[<<n, 1>>].pc
  BY <1>1, SpawnedIs
<1>3. ASSUME NEW k \in 2..MaxTasks
      PROVE  Spawned(ns, ts)[<<n, k>>].pc = "none"
  <2>1. k \in 1..MaxTasks /\ 1 \in 1..(k - 1) BY <1>0
  <2>2. <<n, k>> \in Tasks BY <2>1, TasksAre
  <2>3. CASE n \in ns
    <3>1. ~ \A j \in 1..(k - 1) : ts[<<n, j>>].pc # "none" BY <2>1, <2>3
    <3> QED BY <2>2, <3>1, SpawnedIs
  <2>4. CASE n \notin ns
    BY <2>2, <2>4, SpawnedIs
  <2> QED BY <2>3, <2>4
<1> QED BY <1>2, <1>3

LEMMA InitGraph == Init => GraphInv
<1> SUFFICES ASSUME Init PROVE GraphInv OBVIOUS
<1>0. 1 \in 1..MaxTasks /\ MaxTasks \in Nat BY FlowSchedulerAssumption
<1>1. BeginInv BY DEF Init, BeginInv, At, TasksOf
<1>2. OnceInv
  <2>1. ASSUME NEW n \in Nodes, NEW k \in 2..MaxTasks PROVE At(<<n, k>>, "none")
    <3>1. k \in 1..MaxTasks BY <1>0
    <3> QED BY <3>1, TasksAre DEF Init, At
  <2> QED BY <2>1 DEF OnceInv
<1>3. EdgesInv BY DEF Init, EdgesInv
<1>4. CountInv
  <2>1. \A n \in Nodes : In(n) \ fired = In(n) BY DEF Init
  <2> QED BY <2>1 DEF Init, CountInv
<1>5. MergeInv
  <2>1. \A n \in Nodes : ~Ran(n) /\ phase[FlowOf[n]] = "created"
    BY <1>0, TasksAre, FlowSchedulerAssumption DEF Init, Ran
  <2> QED BY <2>1 DEF Init, MergeInv
<1> QED BY <1>1, <1>2, <1>3, <1>4, <1>5 DEF GraphInv

(* run() up to the start nodes, and what follows the last task.             *)
LEMMA RunKeepsGraph ==
  ASSUME TypeInv, GraphInv, NEW f \in Flows,
         RunFlow(f) \/ Boot(f) \/ Finish(f) \/ Close(f)
  PROVE  GraphInv'
<1>0. /\ UNCHANGED <<indegree, fired, task>>
      /\ phase' \in [Flows -> Phases]
      /\ runs' \in [Flows -> Nat]
      /\ \A g \in Flows :
           /\ runs[g] = 0 <=> phase[g] = "created"
           /\ runs'[g] = 0 <=> phase'[g] = "created"
           /\ runs'[g] <= 1 => runs[g] <= 1
           /\ runs'[g] <= 1 /\ phase'[g] \in Early
                => phase[g] \in Early
           /\ runs'[g] <= 1 /\ phase[g] \in Early
                => phase'[g] \in Early
  <2>1. /\ phase \in [Flows -> Phases]
        /\ runs \in [Flows -> Nat]
        /\ \A g \in Flows : runs[g] = 0 <=> phase[g] = "created"
    BY DEF TypeInv, RunType, GraphInv, BeginInv
  <2>2. CASE RunFlow(f)
    BY <2>1, <2>2 DEF RunFlow, graph
  <2>3. CASE Boot(f) BY <2>1, <2>3 DEF Boot, graph
  <2>4. CASE Finish(f) BY <2>1, <2>4 DEF Finish, graph
  <2>5. CASE Close(f) BY <2>1, <2>5 DEF Close, graph
  <2> QED BY <2>2, <2>3, <2>4, <2>5
<1>1. BeginInv' BY <1>0 DEF GraphInv, BeginInv, TasksOf, At, Flow
<1>00. \A n \in Nodes : FlowOf[n] \in Flows BY FlowSchedulerAssumption
<1>2. OnceInv' BY <1>0, <1>00 DEF GraphInv, OnceInv, First, At
<1>3. EdgesInv'
  BY <1>0, <1>00, FlowSchedulerAssumption
    DEF GraphInv, EdgesInv, First, At, TypeInv, GraphType
<1>4. CountInv' BY <1>0, <1>00 DEF GraphInv, CountInv, First, In
<1>5. MergeInv' BY <1>0, <1>00 DEF GraphInv, MergeInv, First, In, Ran
<1> QED BY <1>1, <1>2, <1>3, <1>4, <1>5 DEF GraphInv

LEMMA StartsKeepsGraph ==
  ASSUME TypeInv, GraphInv, NEW f \in Flows, Starts(f)
  PROVE  GraphInv'
<1> DEFINE ns == {n \in NodesOf(f) : indegree[n] = 0}
<1>0. /\ phase[f] = "connect" /\ phase' = [phase EXCEPT ![f] = "drain"]
      /\ task' = Spawned(ns, task)
      /\ UNCHANGED <<indegree, fired, runs>>
  BY DEF Starts, graph
<1>1. task \in [Tasks -> TaskRec] BY DEF TypeInv, TaskType
<1>2. /\ phase \in [Flows -> Phases]
      /\ phase'[f] = "drain" /\ \A g \in Flows : g # f => phase'[g] = phase[g]
  BY <1>0 DEF TypeInv, RunType
<1>3. 1 \in 1..MaxTasks /\ MaxTasks \in Nat BY FlowSchedulerAssumption
<1>4. \A n \in ns : n \in Nodes /\ FlowOf[n] = f /\ indegree[n] = 0
  BY DEF NodesOf
<1>5. \A n \in Nodes : FlowOf[n] = f => (n \in ns <=> indegree[n] = 0)
  BY DEF NodesOf
<1> HIDE DEF ns
(* Of the flow that starts there is no task yet, others have none of ns.    *)
<1>6. ASSUME NEW n \in Nodes, First(n)
      PROVE  /\ task'[<<n, 1>>].pc = IF n \in ns THEN "spawned" ELSE task[<<n, 1>>].pc
             /\ \A k \in 2..MaxTasks : task'[<<n, k>>].pc = "none"
             /\ FlowOf[n] = f => task[<<n, 1>>].pc = "none"
  <2>1. \A k \in 2..MaxTasks : task[<<n, k>>].pc = "none"
    BY <1>6 DEF GraphInv, OnceInv, At
  <2>2. FlowOf[n] = f => task[<<n, 1>>].pc = "none"
    <3>1. <<n, 1>> \in Tasks BY <1>3, TasksAre
    <3>2. FlowOf[n] = f => <<n, 1>> \in TasksOf(f) BY <3>1 DEF TasksOf
    <3> QED BY <1>0, <1>6, <3>2 DEF GraphInv, BeginInv, First, At
  <2>3. n \in ns => task[<<n, 1>>].pc = "none" BY <1>4, <2>2
  <2> QED BY <1>0, <1>1, <2>1, <2>2, <2>3, SpawnsFirst
<1>7. BeginInv'
  <2>1. ASSUME NEW g \in Flows
        PROVE  /\ runs'[g] = 0 <=> phase'[g] = "created"
               /\ runs'[g] <= 1 /\ phase'[g] \in Early =>
                    \A t \in TasksOf(g) : task'[t].pc = "none"
    <3>1. runs'[g] = 0 <=> phase'[g] = "created"
      BY <1>0, <1>2 DEF GraphInv, BeginInv
    <3>2. ASSUME runs'[g] <= 1, phase'[g] \in Early,
                 NEW t \in TasksOf(g)
          PROVE  task'[t].pc = "none"
      <4>1. g # f BY <1>2, <3>2
      <4>2. task[t].pc = "none" /\ t \in Tasks /\ FlowOf[t[1]] = g
        BY <1>0, <1>2, <3>2, <4>1 DEF GraphInv, BeginInv, At, TasksOf
      <4>3. t[1] \notin ns BY <1>4, <4>1, <4>2
      <4> QED BY <1>0, <1>1, <4>2, <4>3, SpawnedIs
    <3> QED BY <3>1, <3>2
  <2> QED BY <2>1 DEF BeginInv, TasksOf, At
<1>8. OnceInv' BY <1>0, <1>6 DEF OnceInv, First, At
<1>9. EdgesInv'
  <2>1. ASSUME NEW e \in fired, First(e[1]) PROVE task'[<<e[1], 1>>].pc = "over"
    <3>1. e[1] \in Nodes
      BY FlowSchedulerAssumption DEF TypeInv, GraphType
    <3>2. task[<<e[1], 1>>].pc = "over" BY <2>1 DEF GraphInv, EdgesInv, At
    <3>3. e[1] \notin ns BY <1>4, <1>6, <2>1, <3>1, <3>2
    <3> QED BY <1>6, <2>1, <3>1, <3>2, <3>3
  <2> QED BY <1>0, <2>1 DEF EdgesInv, First, At
<1>10. CountInv' BY <1>0 DEF GraphInv, CountInv, First, In
<1>11. MergeInv'
  <2>1. ASSUME NEW n \in Nodes, First(n)
        PROVE  /\ task'[<<n, 1>>].pc # "none" => In(n) \subseteq fired
               /\ In(n) \subseteq fired =>
                    \/ task'[<<n, 1>>].pc # "none"
                    \/ In(n) = {} /\ phase'[FlowOf[n]] \in Early
    <3>0. /\ task[<<n, 1>>].pc # "none" => In(n) \subseteq fired
          /\ In(n) \subseteq fired =>
               \/ task[<<n, 1>>].pc # "none"
               \/ In(n) = {} /\ phase[FlowOf[n]] \in Early
      BY <2>1 DEF GraphInv, MergeInv, Ran
    <3>1. indegree[n] = 0 <=> In(n) \subseteq fired
      BY <2>1, NothingLeft DEF GraphInv, CountInv
    <3>2. CASE FlowOf[n] = f
      <4>1. n \in ns <=> In(n) \subseteq fired BY <1>5, <3>1, <3>2
      <4> QED BY <1>6, <2>1, <3>2, <4>1
    <3>3. CASE FlowOf[n] # f
      <4>1. n \notin ns /\ phase'[FlowOf[n]] = phase[FlowOf[n]]
        BY <1>2, <1>4, <3>3, FlowSchedulerAssumption
      <4> QED BY <1>6, <2>1, <3>0, <4>1
    <3> QED BY <3>2, <3>3
  <2> QED BY <1>0, <2>1 DEF MergeInv, First, Ran, In
<1> QED BY <1>7, <1>8, <1>9, <1>10, <1>11 DEF GraphInv

(* The edges a node traverses at the end of its first run are new, and each *)
(* is the one edge from that node to its target.                            *)
LEMMA OutcomeKeepsGraph ==
  ASSUME TypeInv, GraphInv, NEW t \in Tasks, At(t, "report"),
         NEW ts \in [Tasks -> TaskRec],
         \A u \in Tasks : ts[u].pc = IF u = t THEN "over" ELSE task[u].pc,
         NEW taken \in SUBSET Edges, Outcome(t, taken, ts),
         UNCHANGED <<phase, runs>>
  PROVE  GraphInv'
<1> DEFINE to == {e[2] : e \in taken}
           ns == Ready(to, indegree')
           m == t[1]
<1>0. /\ indegree' = [n \in Nodes |-> IF n \in to THEN indegree[n] - 1 ELSE indegree[n]]
      /\ fired' = fired \cup taken
      /\ task' = Spawned(ns, ts)
      /\ \A e \in taken : e \in Edges /\ e[1] = m
  BY Zenon DEF Outcome
<1>1. /\ m \in Nodes /\ Flow(t) = FlowOf[m] /\ FlowOf[m] \in Flows
      /\ t = <<m, t[2]>> /\ t[2] \in 1..MaxTasks
  BY TasksAre, FlowSchedulerAssumption DEF Flow
<1>2. 1 \in 1..MaxTasks /\ MaxTasks \in Nat BY FlowSchedulerAssumption
<1>3. \A e \in taken : /\ e = <<m, e[2]>> /\ e[2] \in Nodes
                       /\ FlowOf[e[2]] = FlowOf[m]
  BY <1>0, FlowSchedulerAssumption
<1>4. \A n \in to : n \in Nodes /\ FlowOf[n] = FlowOf[m] /\ <<m, n>> \in taken
  BY <1>3
<1>5. \A e \in taken : e[2] \in to OBVIOUS
<1>6. \A n \in Nodes : n \in ns <=> n \in to /\ indegree'[n] <= 0
  BY DEF Ready
<1>7. \A n \in ns : n \in to BY DEF Ready
<1> HIDE DEF to, ns
(* In a first run this is the one task of the node.                         *)
<1>8. First(m) => /\ t = <<m, 1>>
                  /\ \A e \in taken : e \notin fired
                  /\ phase[FlowOf[m]] \notin Early
  <2> SUFFICES ASSUME First(m)
               PROVE  /\ t = <<m, 1>>
                      /\ \A e \in taken : e \notin fired
                      /\ phase[FlowOf[m]] \notin Early
    OBVIOUS
  <2>1. t = <<m, 1>>
    <3>1. t[2] \notin 2..MaxTasks
      BY <1>1 DEF GraphInv, OnceInv, At
    <3> QED BY <1>1, <1>2, <3>1
  <2>2. \A e \in taken : e \notin fired
    BY <1>0, <2>1 DEF GraphInv, EdgesInv, At
  <2>3. phase[FlowOf[m]] \notin Early
    BY <1>1 DEF GraphInv, BeginInv, TasksOf, At, First, Flow
  <2> QED BY <2>1, <2>2, <2>3
(* Of the edges into a target one is traversed, into other nodes none.      *)
<1>9. ASSUME NEW n \in Nodes, First(n)
      PROVE  /\ n \in to => /\ <<m, n>> \in In(n) \ fired
                            /\ In(n) \ fired' = (In(n) \ fired) \ {<<m, n>>}
                            /\ task[<<n, 1>>].pc = "none"
             /\ n \notin to => In(n) \ fired' = In(n) \ fired
  <2>1. CASE n \in to
    <3>1. FlowOf[n] = FlowOf[m] /\ <<m, n>> \in taken BY <1>4, <2>1
    <3>2. First(m) BY <1>9, <3>1 DEF First
    <3>3. <<m, n>> \in In(n) \ fired BY <1>8, <3>1, <3>2 DEF In
    <3>4. \A e \in In(n) : e \in taken <=> e = <<m, n>>
      BY <1>3, <3>1 DEF In
    <3>5. In(n) \ fired' = (In(n) \ fired) \ {<<m, n>>}
      BY <1>0, <3>4
    <3>6. task[<<n, 1>>].pc = "none"
      BY <1>9, <3>3 DEF GraphInv, MergeInv, Ran
    <3> QED BY <2>1, <3>3, <3>5, <3>6
  <2>2. CASE n \notin to
    <3>1. \A e \in In(n) : e \notin taken BY <1>5, <2>2 DEF In
    <3> QED BY <1>0, <2>2, <3>1
  <2> QED BY <2>1, <2>2
<1>10. ASSUME NEW n \in Nodes, First(n)
       PROVE  indegree'[n] = Cardinality(In(n) \ fired')
  <2>1. indegree[n] = Cardinality(In(n) \ fired) BY <1>10 DEF GraphInv, CountInv
  <2>2. IsFiniteSet(In(n) \ fired) BY InIsFinite
  <2>3. CASE n \in to
    <3>1. Cardinality((In(n) \ fired) \ {<<m, n>>}) = Cardinality(In(n) \ fired) - 1
      BY <1>9, <1>10, <2>2, <2>3, FS_RemoveElement
    <3> QED BY <1>0, <1>9, <1>10, <2>1, <2>3, <3>1
  <2>4. CASE n \notin to
    BY <1>0, <1>9, <1>10, <2>1, <2>4
  <2> QED BY <2>3, <2>4
<1>11. ASSUME NEW n \in Nodes, First(n)
       PROVE  n \in ns <=> n \in to /\ In(n) \subseteq fired'
  <2>1. indegree'[n] = 0 <=> In(n) \subseteq fired' BY <1>10, <1>11, NothingLeft
  <2>2. indegree'[n] \in Nat BY <1>10, <1>11, NothingLeft
  <2> QED BY <1>6, <2>1, <2>2
<1>12. ASSUME NEW n \in Nodes, First(n)
       PROVE  /\ task'[<<n, 1>>].pc = IF n \in ns THEN "spawned"
                                      ELSE ts[<<n, 1>>].pc
              /\ \A k \in 2..MaxTasks : task'[<<n, k>>].pc = "none"
              /\ n \in ns => ts[<<n, 1>>].pc = "none"
  <2>1. \A k \in 2..MaxTasks : ts[<<n, k>>].pc = "none"
    <3>1. ASSUME NEW k \in 2..MaxTasks PROVE ts[<<n, k>>].pc = "none"
      <4>1. task[<<n, k>>].pc = "none" BY <1>12 DEF GraphInv, OnceInv, At
      <4>2. <<n, k>> \in Tasks BY <1>2, TasksAre
      <4>3. <<n, k>> # t BY <4>1 DEF At
      <4> QED BY <4>1, <4>2, <4>3
    <3> QED BY <3>1
  <2>2. n \in ns => ts[<<n, 1>>].pc = "none"
    <3>1. <<n, 1>> \in Tasks BY <1>2, TasksAre
    <3>2. n \in ns => task[<<n, 1>>].pc = "none" BY <1>7, <1>9, <1>12
    <3>3. n \in ns => <<n, 1>> # t BY <3>2 DEF At
    <3> QED BY <3>1, <3>2, <3>3
  <2> QED BY <1>0, <2>1, <2>2, SpawnsFirst
<1>13. BeginInv'
  <2>1. ASSUME NEW g \in Flows, runs[g] <= 1,
               phase[g] \in Early, NEW u \in TasksOf(g)
        PROVE  task'[u].pc = "none"
    <3>1. task[u].pc = "none" /\ u \in Tasks /\ FlowOf[u[1]] = g
      BY <2>1 DEF GraphInv, BeginInv, At, TasksOf
    <3>2. u # t BY <3>1 DEF At
    <3>3. g # FlowOf[m]
      <4>1. g = FlowOf[m] => First(m) BY <2>1 DEF First
      <4> QED BY <1>8, <2>1, <4>1
    <3>4. u[1] \notin ns BY <1>4, <1>7, <3>1, <3>3
    <3> QED BY <1>0, <3>1, <3>2, <3>4, SpawnedIs
  <2> QED BY <2>1 DEF GraphInv, BeginInv, TasksOf, At
<1>14. OnceInv' BY <1>12 DEF OnceInv, First, At
<1>15. EdgesInv'
  <2>1. ASSUME NEW e \in fired', First(e[1]) PROVE task'[<<e[1], 1>>].pc = "over"
    <3>1. e \in Edges /\ e[1] \in Nodes /\ <<e[1], 1>> \in Tasks
      BY <1>0, <1>2, <2>1, TasksAre, FlowSchedulerAssumption DEF TypeInv, GraphType
    <3>2. CASE e \in taken
      <4>1. t = <<e[1], 1>> BY <1>0, <1>8, <2>1, <3>2
      <4>2. ts[<<e[1], 1>>].pc = "over" BY <3>1, <4>1
      <4> QED BY <1>12, <2>1, <3>1, <4>2
    <3>3. CASE e \in fired
      <4>1. task[<<e[1], 1>>].pc = "over" BY <2>1, <3>3 DEF GraphInv, EdgesInv, At
      <4>2. ts[<<e[1], 1>>].pc = "over" BY <3>1, <4>1
      <4> QED BY <1>12, <2>1, <3>1, <4>2
    <3> QED BY <1>0, <2>1, <3>2, <3>3
  <2> QED BY <2>1 DEF EdgesInv, First, At
<1>16. CountInv' BY <1>10 DEF CountInv, First, In
<1>17. MergeInv'
  <2>1. ASSUME NEW n \in Nodes, First(n)
        PROVE  /\ task'[<<n, 1>>].pc # "none" => In(n) \subseteq fired'
               /\ In(n) \subseteq fired' =>
                    \/ task'[<<n, 1>>].pc # "none"
                    \/ In(n) = {} /\ phase[FlowOf[n]] \in Early
    <3>0. /\ task[<<n, 1>>].pc # "none" => In(n) \subseteq fired
          /\ In(n) \subseteq fired =>
               \/ task[<<n, 1>>].pc # "none"
               \/ In(n) = {} /\ phase[FlowOf[n]] \in Early
      BY <2>1 DEF GraphInv, MergeInv, Ran
    <3>1. ts[<<n, 1>>].pc # "none" <=> task[<<n, 1>>].pc # "none"
      <4>1. <<n, 1>> \in Tasks BY <1>2, TasksAre
      <4> QED BY <4>1 DEF At
    <3>2. CASE n \in ns
      BY <1>11, <1>12, <2>1, <3>2
    <3>3. CASE n \notin ns
      <4>1. task'[<<n, 1>>].pc = ts[<<n, 1>>].pc BY <1>12, <2>1, <3>3
      <4>2. In(n) \subseteq fired => In(n) \subseteq fired' BY <1>0
      <4>3. In(n) \subseteq fired' => In(n) \subseteq fired
        <5>1. CASE n \in to BY <1>11, <2>1, <3>3, <5>1
        <5>2. CASE n \notin to
          <6>1. In(n) \ fired' = In(n) \ fired BY <1>9, <2>1, <5>2
          <6> QED BY <6>1
        <5> QED BY <5>1, <5>2
      <4> QED BY <3>0, <3>1, <4>1, <4>2, <4>3
    <3> QED BY <3>2, <3>3
  <2> QED BY <2>1 DEF MergeInv, First, Ran, In
<1> QED BY <1>13, <1>14, <1>15, <1>16, <1>17 DEF GraphInv

LEMMA GraphStep == TypeInv /\ GraphInv /\ [Next]_vars => GraphInv'
<1> SUFFICES ASSUME TypeInv, GraphInv, [Next]_vars PROVE GraphInv' OBVIOUS
<1>0. task \in [Tasks -> TaskRec] BY DEF TypeInv, TaskType
<1>1. ASSUME NEW t \in Tasks, Reported(t) PROVE GraphInv'
  <2>1. PICK ts \in [Tasks -> TaskRec] :
          /\ \A u \in Tasks : ts[u].pc = IF u = t THEN "over" ELSE task[u].pc
          /\ \/ task' = ts /\ UNCHANGED graph
             \/ \E taken \in SUBSET Edges : Outcome(t, taken, ts)
    BY <1>0, <1>1, ReportedIs
  <2>2. UNCHANGED <<phase, runs>> /\ At(t, "report")
    BY <1>0, <1>1, ReportedIs DEF run
  <2>3. CASE task' = ts /\ UNCHANGED graph
    <3>1. Quiet BY <2>1, <2>2, <2>3 DEF Quiet, At
    <3> QED BY <3>1, QuietKeepsGraph
  <2>4. CASE \E taken \in SUBSET Edges : Outcome(t, taken, ts)
    BY <2>1, <2>2, <2>4, OutcomeKeepsGraph
  <2> QED BY <2>1, <2>3, <2>4
<1>2. ASSUME NEW t \in Tasks, TaskStep(t), ~Reported(t) PROVE GraphInv'
  BY <1>2, TaskIsQuiet, QuietKeepsGraph
<1>3. ASSUME NEW t \in Tasks, TurnEnds(t) PROVE GraphInv'
  BY <1>3, TurnIsQuiet, QuietKeepsGraph
<1>4. ASSUME NEW s \in Claw, StrayTurnEnds(s) PROVE GraphInv'
  BY <1>4, TurnIsQuiet, QuietKeepsGraph
<1>5. ASSUME NEW f \in Flows, RunFlow(f) \/ RunStep(f) PROVE GraphInv'
  BY <1>5, RunKeepsGraph, StartsKeepsGraph DEF RunStep
<1>6. ASSUME NEW f \in Flows, Cancel(f) PROVE GraphInv'
  BY <1>6, CancelIsQuiet, QuietKeepsGraph
<1>7. CASE UNCHANGED vars
  <2>1. Quiet BY <1>7 DEF vars, Quiet, graph
  <2> QED BY <2>1, QuietKeepsGraph
<1> QED BY <1>1, <1>2, <1>3, <1>4, <1>5, <1>6, <1>7 DEF Next
-------------------------------------------------------------------------------
(* A flow that is cancelled once its start nodes are spawned has no task left *)
(* that could do anything, and is not one whose start nodes are to come.    *)
HeldInv ==
  \A f \in held :
    /\ phase[f] \notin {"created", "connect"}
    /\ phase[f] \in {"drain", "closing"} =>
         \A t \in TasksOf(f) : task[t].pc \in {"none", "over"}

NoneStarts ==
  \A t \in Tasks :
    Flow(t) \in held /\ phase[Flow(t)] \in {"drain", "closing"}
    => task'[t].pc \in {task[t].pc, "over"}

LEMMA QuietHolds ==
  ASSUME TypeInv, HeldInv, Quiet, UNCHANGED held
  PROVE  HeldInv' /\ NoneStarts
<1>1. HeldInv' BY DEF HeldInv, Quiet, TasksOf
<1>2. NoneStarts BY DEF HeldInv, Quiet, TasksOf, NoneStarts, Flow
<1> QED BY <1>1, <1>2

(* Tasks are spawned by a flow that is held by none.                        *)
LEMMA SpawningHolds ==
  ASSUME TypeInv, HeldInv, NEW g \in Flows,
         g \in held => phase[g] \notin {"drain", "closing"} /\ phase'[g] = phase[g],
         phase' \in [Flows -> Phases],
         \A f \in Flows : f # g => phase'[f] = phase[f],
         \A u \in Tasks : Flow(u) # g => task'[u].pc = task[u].pc,
         UNCHANGED held
  PROVE  HeldInv' /\ NoneStarts
<1>0. held \subseteq Flows BY DEF TypeInv, RunType
<1>1. HeldInv' BY <1>0 DEF HeldInv, TasksOf, Flow
<1>2. NoneStarts BY <1>0 DEF HeldInv, TasksOf, NoneStarts, Flow
<1> QED BY <1>1, <1>2

(* The edges of a node stay in its flow, and so do the tasks they spawn.    *)
LEMMA OutcomeElsewhere ==
  ASSUME NEW t \in Tasks, NEW ts \in [Tasks -> TaskRec],
         NEW taken \in SUBSET Edges, Outcome(t, taken, ts)
  PROVE  \A u \in Tasks : Flow(u) # Flow(t) => task'[u].pc = ts[u].pc
<1> DEFINE ns == Ready({e[2] : e \in taken}, indegree')
<1>1. task' = Spawned(ns, ts) /\ \A e \in taken : e \in Edges /\ e[1] = t[1]
  BY Zenon DEF Outcome
<1>2. \A n \in ns : FlowOf[n] = Flow(t)
  BY <1>1, FlowSchedulerAssumption DEF Ready, Flow
<1> HIDE DEF ns
<1> QED BY <1>1, <1>2, SpawnedIs DEF Flow

LEMMA HeldStep ==
  ASSUME TypeInv, HeldInv, [Next]_vars
  PROVE  HeldInv' /\ NoneStarts
<1>0. /\ task \in [Tasks -> TaskRec] /\ held \subseteq Flows
      /\ phase \in [Flows -> Phases]
  BY DEF TypeInv, TaskType, RunType
<1>1. ASSUME NEW t \in Tasks, Reported(t) PROVE HeldInv' /\ NoneStarts
  <2>1. PICK ts \in [Tasks -> TaskRec] :
          /\ \A u \in Tasks : ts[u].pc = IF u = t THEN "over" ELSE task[u].pc
          /\ \/ task' = ts /\ UNCHANGED graph
             \/ \E taken \in SUBSET Edges : Outcome(t, taken, ts)
    BY <1>0, <1>1, ReportedIs
  <2>2. UNCHANGED <<phase, held>> /\ At(t, "report")
    BY <1>0, <1>1, ReportedIs DEF run
  <2>3. \A u \in Tasks : Flow(u) # Flow(t) => task'[u].pc = task[u].pc
    BY <2>1, OutcomeElsewhere
  <2>4. Flow(t) \in Flows BY TasksAre
  <2>5. Flow(t) \in held => phase[Flow(t)] \notin {"drain", "closing"}
    BY <2>2 DEF HeldInv, TasksOf, At, Flow
  <2>6. phase' \in [Flows -> Phases]
    BY <1>0, <2>2
  <2> QED BY <2>2, <2>3, <2>4, <2>5, <2>6, SpawningHolds
<1>2. ASSUME NEW t \in Tasks, TaskStep(t), ~Reported(t)
      PROVE  HeldInv' /\ NoneStarts
  <2>1. UNCHANGED held
    BY <1>2 DEF TaskStep, StartNode, FindClient, Created, CreateRaises, TurnStarts,
      MessageTaken, MessageSent, NotConnected, SendFails, Completed, Timeout,
      TimedOut, run
  <2> QED BY <1>2, <2>1, TaskIsQuiet, QuietHolds
<1>3. CASE \/ \E t \in Tasks : TurnEnds(t)
           \/ \E s \in Claw : StrayTurnEnds(s)
  <2>1. UNCHANGED held BY <1>3 DEF TurnEnds, StrayTurnEnds, run
  <2>2. Quiet BY <1>3, TurnIsQuiet
  <2> QED BY <2>1, <2>2, QuietHolds
<1>4. ASSUME NEW f \in Flows, RunFlow(f) \/ Finish(f) \/ Close(f)
      PROVE  HeldInv' /\ NoneStarts
  <2>1. UNCHANGED <<task, held>> BY <1>4 DEF RunFlow, Finish, Close
  <2>2. \/ phase' = [phase EXCEPT ![f] = "boot"]
        \/ phase' = [phase EXCEPT ![f] = "done"]
        \/ phase[f] = "drain" /\ phase' = [phase EXCEPT ![f] = "closing"]
    BY <1>4 DEF RunFlow, Finish, Close
  <2>3. HeldInv' BY <1>0, <2>1, <2>2 DEF HeldInv, TasksOf
  <2>4. NoneStarts BY <2>1 DEF NoneStarts
  <2> QED BY <2>3, <2>4
<1>5. ASSUME NEW f \in Flows, Boot(f) PROVE HeldInv' /\ NoneStarts
  <2>1. /\ UNCHANGED task /\ held' = held \ {f}
        /\ phase' = [phase EXCEPT ![f] = "connect"]
    BY <1>5 DEF Boot
  <2>2. HeldInv' BY <1>0, <2>1 DEF HeldInv, TasksOf
  <2>3. NoneStarts BY <2>1 DEF NoneStarts
  <2> QED BY <2>2, <2>3
<1>6. ASSUME NEW f \in Flows, Starts(f) PROVE HeldInv' /\ NoneStarts
  <2>1. /\ phase[f] = "connect" /\ UNCHANGED held
        /\ phase' = [phase EXCEPT ![f] = "drain"]
        /\ task' = Spawned({n \in NodesOf(f) : indegree[n] = 0}, task)
    BY <1>6 DEF Starts
  <2>2. \A u \in Tasks : Flow(u) # f => task'[u].pc = task[u].pc
    <3> DEFINE ns == {n \in NodesOf(f) : indegree[n] = 0}
    <3>1. \A u \in Tasks : Flow(u) # f => u[1] \notin ns
      BY DEF NodesOf, Flow
    <3>2. task' = Spawned(ns, task) BY <2>1
    <3> HIDE DEF ns
    <3> QED BY <1>0, <3>1, <3>2, SpawnedIs
  <2>3. f \notin held BY <2>1 DEF HeldInv
  <2>4. /\ phase' \in [Flows -> Phases]
        /\ \A g \in Flows : g # f => phase'[g] = phase[g]
    BY <1>0, <2>1
  <2> QED BY <2>1, <2>2, <2>3, <2>4, SpawningHolds
<1>7. ASSUME NEW f \in Flows, Cancel(f) PROVE HeldInv' /\ NoneStarts
  <2>1. /\ UNCHANGED phase
        /\ held' = IF phase[f] = "drain" THEN held \cup {f} ELSE held
        /\ \A u \in Tasks : task'[u].pc = IF Flow(u) = f /\ task[u].pc # "none"
                                          THEN "over" ELSE task[u].pc
    BY <1>0, <1>7, CancelIs
  <2>2. HeldInv' BY <2>1 DEF HeldInv, TasksOf, Flow
  <2>3. NoneStarts BY <2>1 DEF NoneStarts
  <2> QED BY <2>2, <2>3
<1>8. CASE UNCHANGED vars
  <2>1. UNCHANGED <<task, phase, held>> BY <1>8 DEF vars
  <2> QED BY <2>1 DEF HeldInv, TasksOf, NoneStarts
<1> QED BY <1>1, <1>2, <1>3, <1>4, <1>5, <1>6, <1>7, <1>8 DEF Next, RunStep
-------------------------------------------------------------------------------
(* In the first run an entry of _pending belongs to a task that waits, has  *)
(* been answered or is over; its node has not been given a result.          *)
Entry(n) == \E i \in 1..Len(pending[FlowOf[n]]) : pending[FlowOf[n]][i][1] = n
InTurn == {"open", "create", "turn", "sent"}

ResultInv ==
  \A n \in Nodes : First(n) =>
    /\ Entry(n) => /\ task[<<n, 1>>].pc \in {"wait", "report", "over"}
                   /\ node[n] \in {"running", "cancelled"}
    /\ task[<<n, 1>>].pc \in InTurn => node[n] = "running"

ResultKept ==
  \A n \in Nodes :
    /\ FirstRun(FlowOf[n])' /\ node[n] \in Over
    /\ task[<<n, 1>>].pc \in {"report", "over"}
    => node'[n] = node[n]

LEMMA NodeTask ==
  /\ \A n \in Nodes : <<n, 1>> \in Tasks /\ Flow(<<n, 1>>) = FlowOf[n]
                      /\ FlowOf[n] \in Flows
  /\ OnceInv => \A t \in Tasks : First(t[1]) /\ ~At(t, "none") => t = <<t[1], 1>>
<1>1. 1 \in 1..MaxTasks /\ MaxTasks \in Nat BY FlowSchedulerAssumption
<1>2. \A n \in Nodes : <<n, 1>> \in Tasks /\ Flow(<<n, 1>>) = FlowOf[n]
                       /\ FlowOf[n] \in Flows
  BY <1>1, TasksAre, FlowSchedulerAssumption DEF Flow
<1>3. ASSUME OnceInv, NEW t \in Tasks, First(t[1]), ~At(t, "none")
      PROVE  t = <<t[1], 1>>
  <2>1. t[1] \in Nodes /\ t = <<t[1], t[2]>> /\ t[2] \in 1..MaxTasks BY TasksAre
  <2>2. t[2] \notin 2..MaxTasks BY <1>3, <2>1 DEF OnceInv
  <2> QED BY <1>1, <2>1, <2>2
<1> QED BY <1>2, <1>3

(* Steps that give no node a status and touch no entry.                     *)
LEMMA CalmKeepsResult ==
  ASSUME TypeInv, ResultInv, UNCHANGED <<node, pending>>,
         \A f \in Flows : runs'[f] <= 1 => runs[f] <= 1,
         \A u \in Tasks :
           \/ task'[u].pc \in {task[u].pc, "over"}
           \/ task[u].pc = "none" /\ task'[u].pc = "spawned"
           \/ task[u].pc \in InTurn /\ task'[u].pc \in InTurn
           \/ task[u].pc = "wait" /\ task'[u].pc = "report"
  PROVE  ResultInv' /\ ResultKept
<1>1. ResultInv'
  BY NodeTask DEF ResultInv, First, Entry, InTurn
<1>2. ResultKept BY DEF ResultKept
<1> QED BY <1>1, <1>2

(* Steps that give a status to the node of one entry, which they take out.  *)
LEMMA PopKeepsResult ==
  ASSUME TypeInv, ResultInv, UNCHANGED runs, NEW m \in Nodes,
         NEW s, node' = [node EXCEPT ![m] = s],
         Pops(FlowOf[m], m),
         First(m) => task[<<m, 1>>].pc \notin InTurn,
         First(m) => Entry(m) \/ task[<<m, 1>>].pc = "wait",
         \A n \in Nodes :
           \/ task'[<<n, 1>>].pc = task[<<n, 1>>].pc
           \/ task[<<n, 1>>].pc \in InTurn /\ task'[<<n, 1>>].pc \in InTurn
           \/ task[<<n, 1>>].pc = "wait" /\ task'[<<n, 1>>].pc = "report"
  PROVE  ResultInv' /\ ResultKept
<1>0. node \in [Nodes -> NodeStatus] /\ \A n \in Nodes : FlowOf[n] \in Flows
  BY NodeTask DEF TypeInv
<1>1. \A g \in Flows : \A i \in 1..Len(pending'[g]) :
        /\ \E j \in 1..Len(pending[g]) : pending'[g][i] = pending[g][j]
        /\ g = FlowOf[m] => pending'[g][i][1] # m
  BY <1>0, PopTyped
<1>2. ASSUME NEW n \in Nodes, Entry(n)'
      PROVE  n # m /\ Entry(n)
  <2>1. FlowOf[n] \in Flows BY <1>0
  <2>2. PICK i \in 1..Len(pending'[FlowOf[n]]) : pending'[FlowOf[n]][i][1] = n
    BY <1>2 DEF Entry
  <2>3. /\ \E j \in 1..Len(pending[FlowOf[n]]) :
             pending'[FlowOf[n]][i] = pending[FlowOf[n]][j]
        /\ FlowOf[n] = FlowOf[m] => pending'[FlowOf[n]][i][1] # m
    BY <1>1, <2>1, <2>2
  <2> QED BY <2>2, <2>3 DEF Entry
<1>3. ASSUME NEW n \in Nodes, First(n)'
      PROVE  /\ Entry(n)' => /\ task'[<<n, 1>>].pc \in {"wait", "report", "over"}
                             /\ node'[n] \in {"running", "cancelled"}
             /\ task'[<<n, 1>>].pc \in InTurn => node'[n] = "running"
  <2>1. First(n) BY <1>3 DEF First
  <2>2. /\ Entry(n) => /\ task[<<n, 1>>].pc \in {"wait", "report", "over"}
                       /\ node[n] \in {"running", "cancelled"}
        /\ task[<<n, 1>>].pc \in InTurn => node[n] = "running"
    BY <2>1 DEF ResultInv
  <2>3. n # m => node'[n] = node[n] BY <1>0
  <2>4. Entry(n)' => n # m /\ Entry(n) BY <1>2
  <2> QED BY <2>1, <2>2, <2>3, <2>4 DEF InTurn
<1>4. ResultInv' BY <1>3 DEF ResultInv
<1>5. ResultKept
  <2>1. ASSUME NEW n \in Nodes, FirstRun(FlowOf[n])', node[n] \in Over,
               task[<<n, 1>>].pc \in {"report", "over"}
        PROVE  n # m
    <3>1. First(n) BY <2>1 DEF FirstRun, First
    <3>2. ~Entry(n) BY <2>1, <3>1 DEF ResultInv, Over
    <3> QED BY <2>1, <3>1, <3>2
  <2> QED BY <1>0, <2>1 DEF ResultKept
<1> QED BY <1>4, <1>5

(* An event of a client.                                                    *)
LEMMA ResolvesKeepsResult ==
  ASSUME TypeInv, OnceInv, ResultInv, UNCHANGED runs,
         NEW ts \in [Tasks -> TaskRec], NEW ok \in BOOLEAN, Resolves(ts, ok),
         \A u \in Tasks :
           \/ ts[u].pc = task[u].pc
           \/ task[u].pc \in InTurn /\ ts[u].pc \in InTurn
  PROVE  ResultInv' /\ ResultKept
<1>0. \A u \in Tasks : task'[u].pc = ts[u].pc BY ResolvesTyped
<1>1. CASE task' = ts /\ UNCHANGED <<pending, node>>
  BY <1>1, CalmKeepsResult
<1>2. ASSUME NEW f \in Flows, NEW i \in 1..Len(pending[f]),
             pending[f][i] \in Tasks, Flow(pending[f][i]) = f,
             pending' = [pending EXCEPT ![f] = Without(@, pending[f][i][1])],
             node' = [node EXCEPT ![pending[f][i][1]] =
                        IF ok THEN "completed" ELSE "failed"]
      PROVE  ResultInv' /\ ResultKept
  <2> DEFINE m == pending[f][i][1]
  <2>1. m \in Nodes /\ FlowOf[m] = f BY <1>2, TasksAre DEF Flow
  <2>2. Entry(m) BY <2>1 DEF Entry
  <2>3. First(m) => task[<<m, 1>>].pc \notin InTurn
    BY <2>1, <2>2 DEF ResultInv, InTurn
  <2>4. ASSUME NEW n \in Nodes
        PROVE  \/ task'[<<n, 1>>].pc = task[<<n, 1>>].pc
               \/ task[<<n, 1>>].pc \in InTurn /\ task'[<<n, 1>>].pc \in InTurn
    <3>1. <<n, 1>> \in Tasks BY NodeTask
    <3> QED BY <1>0, <3>1
  <2>5. Pops(FlowOf[m], m) BY <1>2, <2>1 DEF Pops
  <2>6. node' = [node EXCEPT ![m] = IF ok THEN "completed" ELSE "failed"] BY <1>2
  <2> HIDE DEF m
  <2> QED BY <2>1, <2>2, <2>3, <2>4, <2>5, <2>6, PopKeepsResult
<1> QED BY <1>1, <1>2 DEF Resolves

(* The entry of a task whose turn has begun.                                *)
LEMMA WaitKeepsResult ==
  ASSUME TypeInv, OnceInv, ResultInv, UNCHANGED <<runs, node>>,
         NEW t \in Tasks, task[t].pc \in InTurn, Wait(t)
  PROVE  ResultInv' /\ ResultKept
<1>0. task' = [task EXCEPT ![t].pc = "wait"] /\ task \in [Tasks -> TaskRec]
  BY DEF Wait, TypeInv, TaskType
<1>1. /\ task'[t].pc = "wait"
      /\ \A u \in Tasks : u # t => task'[u].pc = task[u].pc
  BY <1>0 DEF TaskRec
<1>2. \A g \in Flows : \A i \in 1..Len(pending'[g]) :
        \/ g = Flow(t) /\ pending'[g][i] = t
        \/ \E j \in 1..Len(pending[g]) : pending'[g][i] = pending[g][j]
  BY WatchTyped DEF Wait
<1>3. ASSUME NEW n \in Nodes, First(n)
      PROVE  /\ Entry(n)' => /\ task'[<<n, 1>>].pc \in {"wait", "report", "over"}
                             /\ node[n] \in {"running", "cancelled"}
             /\ task'[<<n, 1>>].pc \in InTurn => node[n] = "running"
  <2>1. <<n, 1>> \in Tasks /\ FlowOf[n] \in Flows BY NodeTask
  <2>2. Entry(n)' => t[1] = n \/ Entry(n) BY <1>2, <2>1 DEF Entry
  <2>3. t[1] = n => t = <<n, 1>>
    BY <1>3, NodeTask DEF At, InTurn
  <2>4. /\ Entry(n) => /\ task[<<n, 1>>].pc \in {"wait", "report", "over"}
                       /\ node[n] \in {"running", "cancelled"}
        /\ task[<<n, 1>>].pc \in InTurn => node[n] = "running"
    BY <1>3 DEF ResultInv
  <2>5. CASE t = <<n, 1>> BY <1>1, <2>4, <2>5 DEF InTurn
  <2>6. CASE t # <<n, 1>> BY <1>1, <2>1, <2>2, <2>3, <2>4, <2>6
  <2> QED BY <2>5, <2>6
<1>4. ResultInv' BY <1>3 DEF ResultInv, First
<1>5. ResultKept BY DEF ResultKept
<1> QED BY <1>4, <1>5

LEMMA InitHolds == Init => HeldInv /\ ResultInv
<1> SUFFICES ASSUME Init PROVE HeldInv /\ ResultInv OBVIOUS
<1>1. HeldInv BY DEF Init, HeldInv
<1>2. ASSUME NEW n \in Nodes
      PROVE  ~Entry(n) /\ task[<<n, 1>>].pc = "none"
  <2>1. pending[FlowOf[n]] = <<>> BY NodeTask DEF Init
  <2>2. Len(pending[FlowOf[n]]) = 0 BY <2>1
  <2>3. task[<<n, 1>>].pc = "none" BY NodeTask DEF Init
  <2> QED BY <2>2, <2>3 DEF Entry
<1>3. ResultInv BY <1>2 DEF ResultInv, InTurn
<1> QED BY <1>1, <1>3

(* The node is given its result by the task's timeout, which takes its entry *)
(* out, or by the event that resolves the entry.                            *)
LEMMA TaskKeepsResult ==
  ASSUME TypeInv, OnceInv, ResultInv, NEW t \in Tasks, TaskStep(t), ~Reported(t)
  PROVE  ResultInv' /\ ResultKept
<1>0. task \in [Tasks -> TaskRec] /\ node \in [Nodes -> NodeStatus]
  BY DEF TypeInv, TaskType
<1>00. t[1] \in Nodes /\ FlowOf[t[1]] \in Flows /\ Flow(t) = FlowOf[t[1]]
  BY NodeTask, TasksAre DEF Flow
<1>1. CASE StartNode(t)
  <2>1. /\ At(t, "spawned") /\ node' = [node EXCEPT ![t[1]] = "running"]
        /\ task' = [task EXCEPT ![t].pc = "open"] /\ UNCHANGED <<pending, runs>>
    BY <1>1 DEF StartNode, Goto, run
  <2>2. ASSUME NEW n \in Nodes, First(n)
        PROVE  /\ Entry(n) => /\ task'[<<n, 1>>].pc \in {"wait", "report", "over"}
                              /\ node'[n] \in {"running", "cancelled"}
               /\ task'[<<n, 1>>].pc \in InTurn => node'[n] = "running"
               /\ task[<<n, 1>>].pc \in {"report", "over"} => node'[n] = node[n]
    <3>1. <<n, 1>> \in Tasks BY NodeTask
    <3>2. t[1] = n => t = <<n, 1>> BY <2>1, <2>2, NodeTask DEF At
    <3>3. /\ Entry(n) => /\ task[<<n, 1>>].pc \in {"wait", "report", "over"}
                         /\ node[n] \in {"running", "cancelled"}
          /\ task[<<n, 1>>].pc \in InTurn => node[n] = "running"
      BY <2>2 DEF ResultInv
    <3>4. CASE t = <<n, 1>>
      <4>1. task[<<n, 1>>].pc = "spawned" BY <2>1, <3>4 DEF At
      <4>2. node'[n] = "running" BY <1>0, <2>1, <3>4
      <4> QED BY <3>3, <4>1, <4>2
    <3>5. CASE t # <<n, 1>>
      <4>1. node'[n] = node[n] BY <1>0, <2>1, <3>2, <3>5
      <4>2. task'[<<n, 1>>].pc = task[<<n, 1>>].pc BY <1>0, <2>1, <3>1, <3>5
      <4> QED BY <3>3, <4>1, <4>2
    <3> QED BY <3>4, <3>5
  <2>3. ResultInv' BY <2>1, <2>2 DEF ResultInv, First, Entry
  <2>4. ResultKept BY <2>1, <2>2 DEF ResultKept, First, FirstRun
  <2> QED BY <2>3, <2>4
<1>2. CASE \/ FindClient(t) \/ Created(t) \/ CreateRaises(t)
           \/ MessageTaken(t) \/ Completed(t)
  <2>1. /\ UNCHANGED <<node, pending, runs>>
        /\ \/ task[t].pc \in InTurn /\ task'[t].pc \in InTurn
           \/ task'[t].pc = "over"
           \/ task[t].pc = "wait" /\ task'[t].pc = "report"
        /\ \A u \in Tasks : u # t => task'[u].pc = task[u].pc
    <3>1. CASE FindClient(t)
      BY <1>0, <3>1 DEF FindClient, UseClient, Goto, At, run, InTurn, TaskRec
    <3>2. CASE Created(t)
      BY <1>0, <3>2 DEF Created, UseClient, At, run, InTurn, TaskRec
    <3>3. CASE CreateRaises(t)
      BY <1>0, <3>3 DEF CreateRaises, Goto, At, run, InTurn, TaskRec
    <3>4. CASE MessageTaken(t)
      BY <1>0, <3>4 DEF MessageTaken, Goto, At, run, InTurn, TaskRec
    <3>5. CASE Completed(t)
      BY <1>0, <3>5 DEF Completed, Goto, At, run, InTurn, TaskRec
    <3> QED BY <1>2, <3>1, <3>2, <3>3, <3>4, <3>5
  <2> QED BY <2>1, CalmKeepsResult
<1>3. CASE TurnStarts(t) \/ MessageSent(t) \/ NotConnected(t)
  <2>1. UNCHANGED <<runs, node>> /\ task[t].pc \in InTurn /\ Wait(t)
    BY <1>3 DEF TurnStarts, MessageSent, NotConnected, At, run, InTurn
  <2> QED BY <2>1, WaitKeepsResult
<1>4. CASE SendFails(t)
  <2>1. PICK ts \in [Tasks -> TaskRec] :
          /\ \A u \in Tasks : ts[u].pc = IF u = t THEN "sent" ELSE task[u].pc
          /\ Resolves(ts, FALSE)
    BY <1>4, SendFailsIs
  <2>2. UNCHANGED runs /\ At(t, "turn") BY <1>4 DEF SendFails, run
  <2>3. \A u \in Tasks : \/ ts[u].pc = task[u].pc
                         \/ task[u].pc \in InTurn /\ ts[u].pc \in InTurn
    BY <2>1, <2>2 DEF At, InTurn
  <2> QED BY <2>1, <2>2, <2>3, ResolvesKeepsResult
<1>5. CASE Timeout(t)
  <2>1. /\ At(t, "wait") /\ UNCHANGED runs
        /\ node' = [node EXCEPT ![t[1]] = "failed"]
        /\ task' = [task EXCEPT ![t].pc = "report", ![t].result = "error"]
        /\ Pops(FlowOf[t[1]], t[1])
    BY <1>5, <1>00 DEF Timeout, TimedOut, run, Pops
  <2>2. First(t[1]) => task[<<t[1], 1>>].pc = "wait"
    BY <2>1, NodeTask DEF At
  <2>3. /\ task'[t].pc = "report"
        /\ \A u \in Tasks : u # t => task'[u].pc = task[u].pc
    BY <1>0, <2>1 DEF TaskRec
  <2>4. ASSUME NEW n \in Nodes
        PROVE  \/ task'[<<n, 1>>].pc = task[<<n, 1>>].pc
               \/ task[<<n, 1>>].pc \in InTurn /\ task'[<<n, 1>>].pc \in InTurn
               \/ task[<<n, 1>>].pc = "wait" /\ task'[<<n, 1>>].pc = "report"
    <3>1. <<n, 1>> \in Tasks BY NodeTask
    <3> QED BY <2>1, <2>3, <3>1 DEF At
  <2>5. First(t[1]) => task[<<t[1], 1>>].pc \notin InTurn BY <2>2 DEF InTurn
  <2> QED BY <1>00, <2>1, <2>2, <2>4, <2>5, PopKeepsResult
<1> QED BY <1>1, <1>2, <1>3, <1>4, <1>5 DEF TaskStep

LEMMA ResultStep ==
  ASSUME TypeInv, OnceInv, ResultInv, [Next]_vars
  PROVE  ResultInv' /\ ResultKept
<1>0. task \in [Tasks -> TaskRec] /\ node \in [Nodes -> NodeStatus]
      /\ runs \in [Flows -> Nat]
  BY DEF TypeInv, TaskType, RunType
<1>1. ASSUME NEW t \in Tasks, Reported(t) PROVE ResultInv' /\ ResultKept
  <2>1. PICK ts \in [Tasks -> TaskRec] :
          /\ \A u \in Tasks : ts[u].pc = IF u = t THEN "over" ELSE task[u].pc
          /\ \/ task' = ts /\ UNCHANGED graph
             \/ \E taken \in SUBSET Edges : Outcome(t, taken, ts)
    BY <1>0, <1>1, ReportedIs
  <2>2. UNCHANGED <<node, pending, runs>>
    BY <1>0, <1>1, ReportedIs DEF run
  <2>3. \A u \in Tasks : \/ task'[u].pc = ts[u].pc
                         \/ ts[u].pc = "none" /\ task'[u].pc = "spawned"
    <3>1. ASSUME NEW taken \in SUBSET Edges, Outcome(t, taken, ts)
          PROVE  \A u \in Tasks : \/ task'[u].pc = ts[u].pc
                                  \/ ts[u].pc = "none" /\ task'[u].pc = "spawned"
      <4> DEFINE ns == Ready({e[2] : e \in taken}, indegree')
      <4>1. task' = Spawned(ns, ts) BY Zenon, <3>1 DEF Outcome
      <4> HIDE DEF ns
      <4> QED BY <4>1, SpawnedIs
    <3> QED BY <2>1, <3>1
  <2>4. \A u \in Tasks : \/ task'[u].pc \in {task[u].pc, "over"}
                         \/ task[u].pc = "none" /\ task'[u].pc = "spawned"
    BY <2>1, <2>3
  <2> QED BY <2>2, <2>4, CalmKeepsResult
<1>2. ASSUME NEW t \in Tasks, TaskStep(t), ~Reported(t)
      PROVE  ResultInv' /\ ResultKept
  BY <1>2, TaskKeepsResult
<1>3. ASSUME NEW t \in Tasks, TurnEnds(t) PROVE ResultInv' /\ ResultKept
  <2>1. task[t].client \in Clients BY <1>3 DEF TurnEnds, TypeInv, TaskType
  <2>2. PICK ok \in BOOLEAN : Emits(task, task[t].client, t, SessionIs(t), ok)
    BY <1>3 DEF TurnEnds
  <2>3. Resolves(task, ok) BY <1>0, <2>1, <2>2, EmitsIs
  <2>4. UNCHANGED runs BY <1>3 DEF TurnEnds, run
  <2> QED BY <1>0, <2>3, <2>4, ResolvesKeepsResult
<1>4. ASSUME NEW s \in Claw, StrayTurnEnds(s) PROVE ResultInv' /\ ResultKept
  <2>1. reg[s] \in Clients
    BY <1>4, FlowSchedulerAssumption DEF StrayTurnEnds, TypeInv
  <2>2. PICK ok \in BOOLEAN : Emits(task, reg[s], Stray, s, ok)
    BY <1>4 DEF StrayTurnEnds
  <2>3. Resolves(task, ok) BY <1>0, <2>1, <2>2, EmitsIs
  <2>4. UNCHANGED runs BY <1>4 DEF StrayTurnEnds, run
  <2> QED BY <1>0, <2>3, <2>4, ResolvesKeepsResult
<1>5. ASSUME NEW f \in Flows, RunFlow(f) \/ Boot(f) \/ Close(f)
      PROVE  ResultInv' /\ ResultKept
  <2>1. /\ UNCHANGED <<node, pending, task>>
        /\ runs' = runs \/ runs' = [runs EXCEPT ![f] = @ + 1]
    BY <1>5 DEF RunFlow, Boot, Close
  <2>2. \A g \in Flows : runs'[g] <= 1 => runs[g] <= 1 BY <1>0, <2>1
  <2> QED BY <2>1, <2>2, CalmKeepsResult
<1>6. ASSUME NEW f \in Flows, Starts(f) PROVE ResultInv' /\ ResultKept
  <2> DEFINE ns == {n \in NodesOf(f) : indegree[n] = 0}
  <2>1. UNCHANGED <<node, pending, runs>> /\ task' = Spawned(ns, task)
    BY <1>6 DEF Starts
  <2> HIDE DEF ns
  <2>2. \A u \in Tasks : \/ task'[u].pc = task[u].pc
                         \/ task[u].pc = "none" /\ task'[u].pc = "spawned"
    BY <1>0, <2>1, SpawnedIs
  <2> QED BY <2>1, <2>2, CalmKeepsResult
<1>7. ASSUME NEW f \in Flows, Cancel(f) PROVE ResultInv' /\ ResultKept
  <2>1. /\ UNCHANGED <<node, pending, runs>>
        /\ \A u \in Tasks : task'[u].pc \in {task[u].pc, "over"}
    BY <1>0, <1>7, CancelIs
  <2> QED BY <2>1, CalmKeepsResult
(* No task of the flow is under way when it gives its nodes a last status.  *)
<1>8. ASSUME NEW f \in Flows, Finish(f) PROVE ResultInv' /\ ResultKept
  <2>1. /\ UNCHANGED <<pending, task, runs>>
        /\ \A t \in TasksOf(f) : task[t].pc \in {"none", "over"}
        /\ \A n \in Nodes :
             node'[n] = IF FlowOf[n] # f THEN node[n]
                        ELSE IF node[n] = "pending" THEN "skipped"
                        ELSE IF node[n] = "running" /\ status[f] = "cancelled"
                             THEN "cancelled"
                        ELSE node[n]
    BY <1>8 DEF Finish
  <2>2. ASSUME NEW n \in Nodes, First(n)
        PROVE  /\ Entry(n) => /\ task[<<n, 1>>].pc \in {"wait", "report", "over"}
                              /\ node'[n] \in {"running", "cancelled"}
               /\ task[<<n, 1>>].pc \in InTurn => node'[n] = "running"
    <3>1. FlowOf[n] = f => task[<<n, 1>>].pc \in {"none", "over"}
      BY <2>1, NodeTask DEF TasksOf, Flow
    <3> QED BY <2>1, <2>2, <3>1 DEF ResultInv, InTurn
  <2>3. ResultInv' BY <2>1, <2>2 DEF ResultInv, First, Entry
  <2>4. ResultKept BY <2>1 DEF ResultKept, Over
  <2> QED BY <2>3, <2>4
<1>9. CASE UNCHANGED vars
  <2>1. UNCHANGED <<node, pending, task, runs>> BY <1>9 DEF vars
  <2> QED BY <2>1, CalmKeepsResult
<1> QED BY <1>1, <1>2, <1>3, <1>4, <1>5, <1>6, <1>7, <1>8, <1>9
    DEF Next, RunStep
-------------------------------------------------------------------------------
FlowInv == TypeInv /\ GraphInv /\ HeldInv /\ ResultInv

LEMMA FlowInvHolds == Spec => []FlowInv
<1>1. Init => FlowInv BY InitTyped, InitGraph, InitHolds DEF FlowInv
<1>2. FlowInv /\ [Next]_vars => FlowInv'
  BY TypeStep, GraphStep, HeldStep, ResultStep DEF FlowInv, GraphInv
<1> QED BY <1>1, <1>2, PTL DEF Spec

(* In every reachable state the flows, tasks, entries of _pending, clients  *)
(* and turns have their types: a flow waits for tasks of its own, one entry *)
(* per node, and a turn under way has a client.                             *)
THEOREM FlowsAreTyped == Spec => []TypeInv
<1>1. FlowInv => TypeInv BY DEF FlowInv
<1> QED BY <1>1, FlowInvHolds, PTL

(* A node of a first run is started once, when all the edges into it have   *)
(* been traversed; and when the flow has ended no such node is left.        *)
THEOREM MergesAreExact == Spec => []MergeIsExact
<1>1. FlowInv => MergeIsExact
  <2> SUFFICES ASSUME FlowInv, NEW n \in Nodes, FirstRun(FlowOf[n])
               PROVE  /\ Ran(n) => In(n) \subseteq fired /\ task[<<n, 2>>].pc = "none"
                      /\ phase[FlowOf[n]] = "done" /\ In(n) \subseteq fired => Ran(n)
    BY DEF MergeIsExact
  <2>1. First(n) BY DEF First, FirstRun
  <2>2. 2 \in 2..MaxTasks BY FlowSchedulerAssumption
  <2> QED BY <2>1, <2>2 DEF FlowInv, GraphInv, OnceInv, MergeInv, At
<1> QED BY <1>1, FlowInvHolds, PTL

(* After cancel() of a flow whose start nodes have been spawned no node of it *)
(* starts or is spawned, until it is run again.                             *)
THEOREM CancelsHold == Spec => CancelHolds
<1>1. FlowInv /\ [Next]_vars => [NoneStarts]_vars
  BY HeldStep DEF FlowInv
<1>2. CancelHolds <=> [][NoneStarts]_vars BY PTL DEF CancelHolds, NoneStarts
<1> QED BY <1>1, <1>2, FlowInvHolds, PTL DEF Spec

(* The result a task of a first run has taken is the node's for good.       *)
THEOREM ResultsStand == Spec => ResultStands
<1>1. FlowInv /\ [Next]_vars => [ResultKept]_vars
  BY ResultStep DEF FlowInv, GraphInv
<1>2. ResultStands <=> [][ResultKept]_vars BY PTL DEF ResultStands, ResultKept
<1> QED BY <1>1, <1>2, FlowInvHolds, PTL DEF Spec
================================================================================
