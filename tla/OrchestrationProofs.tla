------------------------- MODULE OrchestrationProofs -------------------------
(***************************************************************************)
(* Theorems about Orchestration for any requests, agents, branches, slots  *)
(* and faults.                                                              *)
(***************************************************************************)
EXTENDS Orchestration, FiniteSetTheorems, TLAPS

Streams == {"new", "waiting", "woken", "opening", "open", "left", "ended"}
Works == Nodes \cup Over \cup {"told"}
Phases == {"none", "storing", "running", "deleting", "done"}

(* What the stream of a request says about its work.                       *)
Agree(r, g, w) ==
  /\ g \in {"new", "waiting", "woken", "opening"} => w = "none"
  /\ g = "open" => w \notin {"none", "dropped", "cut"}
  /\ g = "ended" => w = "over"
  /\ w \in {"agent", "dropped"} => Kind[r] = "execute"

TypeInv ==
  /\ free \in Nat
  /\ active \subseteq Agents
  /\ status \in [Agents -> {"idle", "running"}]
  /\ gen \in [Requests -> Streams]
  /\ work \in [Requests -> Works]
  /\ worker \in [Workers -> Phases]
  /\ agents \subseteq Subagents /\ members \subseteq Subagents /\ rows \subseteq Subagents
  /\ leaves \in Nat /\ failures \in Nat /\ crashes \in Nat
  /\ overlapped \in BOOLEAN
  /\ \A r \in Requests : Agree(r, gen[r], work[r])
  /\ \A w \in Workers : worker[w] \in {"storing", "deleting"} => w \in Subagents

(* Who is woken was asleep; the value that is left is what was not handed.  *)
LEMMA HandOver ==
  ASSUME NEW value \in Nat, NEW queue, NEW g \in [Requests -> Streams],
         Hand(value, queue, g)
  PROVE  /\ free' \in Nat
         /\ gen' \in [Requests -> Streams]
         /\ \A r \in Requests :
              gen'[r] = g[r] \/ (g[r] = "waiting" /\ gen'[r] = "woken")
<1>1. PICK first \in SUBSET {r \in Requests : g[r] = "waiting"} :
        /\ Cardinality(first) =
             IF value < Cardinality({r \in Requests : g[r] = "waiting"})
             THEN value ELSE Cardinality({r \in Requests : g[r] = "waiting"})
        /\ free' = value - Cardinality(first)
        /\ gen' = [r \in Requests |-> IF r \in first THEN "woken" ELSE g[r]]
  BY DEF Hand
<1>2. Cardinality({r \in Requests : g[r] = "waiting"}) \in Nat
  BY FS_Subset, FS_CardinalityType, OrchestrationAssumption
<1>3. Cardinality(first) \in Nat /\ Cardinality(first) <= value
  BY <1>1, <1>2
<1> QED
  BY <1>1, <1>3 DEF Streams

(* A step that hands slots over: g is what it makes of the streams before.  *)
LEMMA HandKeepsTypes ==
  ASSUME TypeInv, NEW value \in Nat, NEW queue, NEW g \in [Requests -> Streams],
         Hand(value, queue, g),
         \A r \in Requests : Agree(r, g[r], work'[r]),
         active' \subseteq Agents, status' \in [Agents -> {"idle", "running"}],
         work' \in [Requests -> Works], leaves' \in Nat,
         UNCHANGED <<worker, agents, members, rows, failures, crashes, overlapped>>
  PROVE  TypeInv'
<1>1. /\ free' \in Nat /\ gen' \in [Requests -> Streams]
      /\ \A r \in Requests :
           gen'[r] = g[r] \/ (g[r] = "waiting" /\ gen'[r] = "woken")
  BY HandOver
<1>2. \A r \in Requests : Agree(r, gen'[r], work'[r])
  BY <1>1 DEF Agree
<1> QED
  BY <1>1, <1>2 DEF TypeInv

LEMMA TypeInvStep ==
  ASSUME TypeInv, [Next]_vars
  PROVE  TypeInv'
<1> USE OrchestrationAssumption
<1> USE DEF slots, subs, counts
<1>w. \A w \in Workers : w[1] \in Requests /\ (Spawns(w[1]) <=> w \in Subagents)
  BY DEF Workers, Subagents
<1>t. /\ \A r \in Requests :
           gen[r] \in Streams /\ work[r] \in Works /\ Agree(r, gen[r], work[r])
      /\ gen \in [Requests -> Streams] /\ work \in [Requests -> Works]
      /\ status \in [Agents -> {"idle", "running"}]
      /\ free \in Nat /\ leaves \in Nat /\ active \subseteq Agents
      /\ \A r \in Requests : AgentOf[r] \in Agents
  BY DEF TypeInv
<1>1. ASSUME NEW r \in Requests, Arrive(r) PROVE TypeInv'
  <2>1. CASE free > 0 /\ waiters = <<>>
    BY <1>1, <2>1 DEF Arrive, Entered, TypeInv, Streams, Agree
  <2>2. CASE ~(free > 0 /\ waiters = <<>>)
    BY <1>1, <2>2 DEF Arrive, TypeInv, Streams, Agree
  <2> QED
    BY <2>1, <2>2
<1>2. ASSUME NEW r \in Requests, Resume(r) PROVE TypeInv'
  <2> DEFINE g == [gen EXCEPT ![r] = "opening"]
  <2>1. g \in [Requests -> Streams] /\ Hand(free, Remove(waiters, r), g)
    BY <1>2, <1>t DEF Resume, Streams
  <2>2. \A x \in Requests : Agree(x, g[x], work'[x])
    BY <1>2, <1>t DEF Resume, Agree
  <2>3. /\ active' \subseteq Agents /\ status' \in [Agents -> {"idle", "running"}]
        /\ UNCHANGED <<work, leaves, worker, agents, members, rows, failures, crashes,
                       overlapped>>
    BY <1>2, <1>t DEF Resume, Entered
  <2> QED
    BY <1>t, <2>1, <2>2, <2>3, HandKeepsTypes
<1>3. ASSUME NEW r \in Requests, Open(r) PROVE TypeInv'
  BY <1>3, <1>t DEF Open, TypeInv, Streams, Works, Nodes, Over, Agree
<1>4. ASSUME NEW r \in Requests, NextNode(r) PROVE TypeInv'
  BY <1>4, <1>t DEF NextNode, NodeAfter, TypeInv, Works, Nodes, Over, Agree
<1>5. ASSUME NEW r \in Requests, Answered(r) PROVE TypeInv'
  BY <1>5, <1>t DEF Answered, TypeInv, Works, Nodes, Over, Agree
<1>6. ASSUME NEW r \in Requests, Finish(r) PROVE TypeInv'
  <2> DEFINE v == IF AgentOf[r] \in active THEN free + 1 ELSE free
  <2>1. v \in Nat /\ Hand(v, waiters, gen)
    BY <1>6, <1>t DEF Finish, Release
  <2>2. /\ work' \in [Requests -> Works]
        /\ \A x \in Requests : Agree(x, gen[x], work'[x])
    BY <1>6, <1>t DEF Finish, Agree, Works, Over, Nodes
  <2>3. /\ active' \subseteq Agents
        /\ UNCHANGED <<status, leaves, worker, agents, members, rows, failures, crashes,
                       overlapped>>
    BY <1>6, <1>t DEF Finish, Release
  <2> QED
    BY <1>t, <2>1, <2>2, <2>3, HandKeepsTypes
<1>7. ASSUME NEW r \in Requests, EndStream(r) PROVE TypeInv'
  BY <1>7, <1>t DEF EndStream, TypeInv, Streams, Agree
<1>8. ASSUME NEW r \in Requests, LeaveQueue(r) PROVE TypeInv'
  <2> DEFINE v == IF gen[r] = "woken" THEN free + 1 ELSE free
             g == Left(r)
  <2>1. /\ v \in Nat /\ Hand(v, Remove(waiters, r), g)
        /\ g \in [Requests -> Streams]
    BY <1>8, <1>t DEF LeaveQueue, Left, Streams
  <2>2. \A x \in Requests : Agree(x, g[x], work'[x])
    BY <1>8, <1>t DEF LeaveQueue, Left, Agree
  <2>3. /\ leaves' \in Nat
        /\ UNCHANGED <<active, status, work, worker, agents, members, rows, failures,
                       crashes, overlapped>>
    BY <1>8, <1>t DEF LeaveQueue, Leaving
  <2> QED
    BY <1>t, <2>1, <2>2, <2>3, HandKeepsTypes
<1>9. ASSUME NEW r \in Requests, LeaveOpening(r) \/ LeaveStream(r) PROVE TypeInv'
  BY <1>9, <1>t DEF LeaveOpening, LeaveStream, Leaving, Left, TypeInv, Streams, Works,
                    Over, Agree
<1>10. ASSUME NEW r \in Requests, LeaveTurn(r) PROVE TypeInv'
  <2>1. CASE /\ work' = [work EXCEPT ![r] = "cut"] /\ gen' = Left(r)
             /\ UNCHANGED slots
    BY <1>10, <1>t, <2>1 DEF LeaveTurn, Leaving, Left, TypeInv, Streams, Works, Over, Agree
  <2>2. CASE work' = [work EXCEPT ![r] = "dropped"] /\ Release(AgentOf[r], Left(r))
    <3> DEFINE v == IF AgentOf[r] \in active THEN free + 1 ELSE free
               g == Left(r)
    <3>1. v \in Nat /\ Hand(v, waiters, g) /\ g \in [Requests -> Streams]
      BY <1>t, <2>2 DEF Release, Left, Streams
    <3>2. /\ work' \in [Requests -> Works]
          /\ \A x \in Requests : Agree(x, g[x], work'[x])
      BY <1>10, <1>t, <2>2 DEF LeaveTurn, Left, Works, Over, Agree
    <3>3. /\ active' \subseteq Agents /\ leaves' \in Nat
          /\ UNCHANGED <<status, worker, agents, members, rows, failures, crashes,
                         overlapped>>
      BY <1>10, <1>t, <2>2 DEF LeaveTurn, Leaving, Release
    <3> QED
      BY <1>t, <3>1, <3>2, <3>3, HandKeepsTypes
  <2> QED
    BY <1>10, <2>1, <2>2 DEF LeaveTurn
<1>11. ASSUME NEW w \in Workers, WorkerStep(w) PROVE TypeInv'
  <2>1. CASE WorkerBegins(w)
    BY <1>w, <2>1 DEF WorkerBegins, TypeInv, Phases
  <2>2. CASE RowStored(w) \/ RowDeleted(w)
    <3>1. w \in Subagents
      BY <2>2 DEF RowStored, RowDeleted, TypeInv
    <3> QED
      BY <1>w, <2>2, <3>1 DEF RowStored, RowDeleted, TypeInv, Phases
  <2>3. CASE TurnEnds(w)
    BY <1>w, <2>3 DEF TurnEnds, TypeInv, Phases
  <2> QED
    BY <1>11, <2>1, <2>2, <2>3 DEF WorkerStep
<1>12. CASE Crash
  <2>1. /\ gen' \in [Requests -> Streams] /\ work' \in [Requests -> Works]
        /\ \A r \in Requests : Agree(r, gen'[r], work'[r])
    BY <1>12, <1>t DEF Crash, Streams, Works, Over, Agree
  <2>2. /\ worker' \in [Workers -> Phases]
        /\ \A w \in Workers : worker'[w] \notin {"storing", "deleting"}
    BY <1>12 DEF Crash, Phases
  <2>3. /\ free' \in Nat /\ active' \subseteq Agents
        /\ status' \in [Agents -> {"idle", "running"}]
    BY <1>12 DEF Crash
  <2>4. /\ agents' \subseteq Subagents /\ members' \subseteq Subagents
        /\ rows' \subseteq Subagents
    BY <1>12 DEF Crash, TypeInv
  <2>5. leaves' \in Nat /\ failures' \in Nat /\ crashes' \in Nat
    BY <1>12 DEF Crash, TypeInv
  <2>6. overlapped' \in BOOLEAN
    <3>1. overlapped' = FALSE
      BY <1>12 DEF Crash
    <3> QED
      BY <3>1
  <2> QED
    BY <2>1, <2>2, <2>3, <2>4, <2>5, <2>6 DEF TypeInv
<1>13. CASE UNCHANGED vars
  BY <1>13 DEF vars, TypeInv, Agree
<1> QED
  BY <1>1, <1>2, <1>3, <1>4, <1>5, <1>6, <1>7, <1>8, <1>9, <1>10, <1>11, <1>12, <1>13
     DEF Next, Step, Leave

LEMMA TypeInvHolds == Spec => []TypeInv
<1>1. Init => TypeInv
  <2> SUFFICES ASSUME Init PROVE TypeInv
    OBVIOUS
  <2>1. /\ gen \in [Requests -> Streams] /\ work \in [Requests -> Works]
        /\ \A r \in Requests : Agree(r, gen[r], work[r])
    BY DEF Init, Streams, Works, Over, Agree
  <2>2. /\ worker \in [Workers -> Phases]
        /\ \A w \in Workers : worker[w] \notin {"storing", "deleting"}
    BY DEF Init, Phases
  <2>3. /\ free \in Nat /\ active = {} /\ status \in [Agents -> {"idle", "running"}]
        /\ agents = {} /\ members = {} /\ rows = {}
        /\ leaves = 0 /\ failures = 0 /\ crashes = 0 /\ overlapped = FALSE
    BY OrchestrationAssumption DEF Init
  <2> QED
    BY <2>1, <2>2, <2>3 DEF TypeInv
<1> QED
  BY <1>1, TypeInvStep, PTL DEF Spec
-----------------------------------------------------------------------------
(* Registry, session and table follow the phase of a subagent's worker, and *)
(* the walk goes on only when every branch is done.                         *)
Spawned == {w \in Subagents : worker[w] \in {"storing", "running"}}
Deleting == {w \in Subagents : worker[w] = "deleting"}

SubInv ==
  /\ members = Spawned
  /\ agents \subseteq Spawned \cup rows
  /\ agents \cap Deleting = {}
  /\ crashes = 0 => agents = Spawned
  /\ crashes = 0 /\ failures = 0 => rows \subseteq Spawned \cup Deleting
  /\ \A r \in Requests : work[r] \in {"fan_in", "synthesizer"} =>
       \A b \in Branches[r] : worker[<<r, b>>] = "done"

LEMMA RequestsLeaveSubagents ==
  ASSUME TypeInv, NEW r \in Requests, Arrive(r) \/ Step(r) \/ Leave(r)
  PROVE  /\ UNCHANGED <<subs, failures, crashes>>
         /\ \A x \in Requests : work'[x] \in {"fan_in", "synthesizer"} =>
              \/ work[x] \in {"fan_in", "synthesizer"}
              \/ work[x] = "multi_agent" /\ Ready(x)
<1> USE DEF slots, counts
<1>1. CASE Arrive(r) \/ Resume(r) \/ EndStream(r) \/ LeaveQueue(r) \/ LeaveStream(r)
  BY <1>1 DEF Arrive, Resume, EndStream, LeaveQueue, LeaveStream, Leaving
<1>2. CASE Open(r) \/ Answered(r) \/ Finish(r)
  BY <1>2 DEF Open, Answered, Finish, TypeInv
<1>3. CASE NextNode(r)
  BY <1>3 DEF NextNode, NodeAfter, TypeInv
<1>4. CASE LeaveOpening(r) \/ LeaveTurn(r)
  BY <1>4 DEF LeaveOpening, LeaveTurn, Leaving, TypeInv
<1> QED
  BY <1>1, <1>2, <1>3, <1>4 DEF Step, Leave

LEMMA SubInvStep ==
  ASSUME TypeInv, SubInv, [Next]_vars
  PROVE  SubInv'
<1> USE DEF SubInv, Spawned, Deleting
<1>w. /\ worker \in [Workers -> Phases] /\ Subagents \subseteq Workers
      /\ \A r \in Requests : \A b \in Branches[r] : <<r, b>> \in Workers
      /\ \A w \in Workers : w[1] \in Requests /\ (Spawns(w[1]) <=> w \in Subagents)
      /\ failures \in Nat
  BY DEF TypeInv, Subagents, Workers
<1>1. ASSUME NEW r \in Requests, Arrive(r) \/ Step(r) \/ Leave(r) PROVE SubInv'
  BY <1>1, RequestsLeaveSubagents DEF subs, Ready
<1>2. ASSUME NEW w \in Workers, WorkerBegins(w) PROVE SubInv'
  <2>1. \A r \in Requests : \A b \in Branches[r] :
          work[r] \in {"fan_in", "synthesizer"} => worker'[<<r, b>>] = worker[<<r, b>>]
    BY <1>2, <1>w DEF WorkerBegins
  <2>2. UNCHANGED <<rows, work, crashes, failures>>
    BY <1>2 DEF WorkerBegins, counts
  <2>3. CASE Spawns(w[1])
    BY <1>2, <1>w, <2>1, <2>2, <2>3 DEF WorkerBegins
  <2>4. CASE ~Spawns(w[1])
    BY <1>2, <1>w, <2>1, <2>2, <2>4 DEF WorkerBegins
  <2> QED
    BY <2>3, <2>4
<1>3. ASSUME NEW w \in Workers, RowStored(w) PROVE SubInv'
  <2>1. worker' = [worker EXCEPT ![w] = "running"] /\ worker[w] = "storing"
    BY <1>3 DEF RowStored
  <2>2. Spawned' = Spawned /\ Deleting' = Deleting /\ w \in Subagents
    BY <1>w, <2>1 DEF TypeInv
  <2>3. \/ rows' = rows \cup {w} /\ failures' = failures
        \/ rows' = rows /\ failures' = failures + 1
    BY <1>3 DEF RowStored
  <2>4. UNCHANGED <<agents, members, work, crashes>>
    BY <1>3 DEF RowStored
  <2>5. w \in Spawned
    BY <2>1, <2>2
  <2> QED
    BY <1>w, <2>1, <2>2, <2>3, <2>4, <2>5
<1>4. ASSUME NEW w \in Workers, TurnEnds(w) PROVE SubInv'
  <2>1. /\ worker' = [worker EXCEPT ![w] = IF Spawns(w[1]) THEN "deleting" ELSE "done"]
        /\ worker[w] = "running"
        /\ agents' = agents \ {w} /\ members' = members \ {w}
        /\ UNCHANGED <<rows, work, crashes, failures>>
    BY <1>4 DEF TurnEnds, counts
  <2>2. /\ Spawned' = Spawned \ {w}
        /\ Deleting' = IF w \in Subagents THEN Deleting \cup {w} ELSE Deleting
    BY <1>w, <2>1
  <2>3. \A r \in Requests : \A b \in Branches[r] :
          worker[<<r, b>>] = "done" => worker'[<<r, b>>] = "done"
    BY <1>w, <2>1
  <2> HIDE DEF Spawned, Deleting
  <2>4. agents \subseteq Subagents /\ (w \in Spawned => w \in Subagents)
    BY DEF TypeInv, Spawned
  <2> QED
    BY <2>1, <2>2, <2>3, <2>4
<1>5. ASSUME NEW w \in Workers, RowDeleted(w) PROVE SubInv'
  <2>1. /\ worker' = [worker EXCEPT ![w] = "done"] /\ worker[w] = "deleting"
        /\ UNCHANGED <<agents, members, work, crashes>>
    BY <1>5 DEF RowDeleted
  <2>2. \/ rows' = rows \ {w} /\ failures' = failures
        \/ rows' = rows /\ failures' = failures + 1
    BY <1>5 DEF RowDeleted
  <2>3. /\ Spawned' = Spawned /\ Deleting' = Deleting \ {w} /\ w \in Deleting
    BY <1>w, <2>1 DEF TypeInv
  <2>4. \A r \in Requests : \A b \in Branches[r] :
          worker[<<r, b>>] = "done" => worker'[<<r, b>>] = "done"
    BY <1>w, <2>1
  <2> HIDE DEF Spawned, Deleting
  <2> QED
    BY <1>w, <2>1, <2>2, <2>3, <2>4
<1>6. CASE Crash
  <2>1. /\ agents' = rows /\ members' = {} /\ rows' = rows
        /\ crashes' = crashes + 1 /\ crashes \in Nat
        /\ worker' = [w \in Workers |-> IF worker[w] = "none" THEN "none" ELSE "done"]
        /\ \A r \in Requests : work'[r] \in {"none", "over"}
    BY <1>6 DEF Crash, TypeInv
  <2> QED
    BY <1>w, <2>1
<1>7. CASE UNCHANGED vars
  BY <1>7 DEF vars, subs, counts
<1> QED
  BY <1>1, <1>2, <1>3, <1>4, <1>5, <1>6, <1>7 DEF Next, WorkerStep

(* Whatever ends a subagent's turn, it is out of the session when its       *)
(* teardown begins, and what the synthesis sees is a session without it;    *)
(* registry and table follow, but for failed statements and crashes.        *)
THEOREM SubagentsComeAndGo == Spec => []SubagentsAreTransient
<1>1. Init => SubInv
  BY DEF Init, SubInv, Spawned, Deleting, Subagents
<1>2. TypeInv /\ SubInv => SubagentsAreTransient
  <2> SUFFICES ASSUME TypeInv, SubInv PROVE SubagentsAreTransient
    OBVIOUS
  <2>1. ASSUME NEW r \in Requests, work[r] = "synthesizer", NEW w \in members
        PROVE  w[1] # r
    <3>1. worker[w] \in {"storing", "running"} /\ w \in Workers
      BY <2>1 DEF SubInv, Spawned, Subagents
    <3>2. w[1] \in Requests /\ w[2] \in Branches[w[1]] /\ w = <<w[1], w[2]>>
      BY <3>1 DEF Workers
    <3> QED
      BY <2>1, <3>1, <3>2 DEF SubInv
  <2> QED
    BY <2>1 DEF SubInv, Spawned, Deleting, SubagentsAreTransient
<1> QED
  BY <1>1, <1>2, TypeInvHolds, SubInvStep, PTL DEF Spec
-----------------------------------------------------------------------------
(* While no requests overlapped, an agent has one request that is not       *)
(* answered at most.                                                        *)
Alone ==
  overlapped \/
  \A p, q \in Requests :
    AgentOf[p] = AgentOf[q] /\ Unanswered(p) /\ Unanswered(q) => p = q

(* A step of one request leaves the others where they are, but for the      *)
(* sleepers it wakes, and leaves a lost request lost.                       *)
LEMMA OthersStay ==
  ASSUME TypeInv, NEW r \in Requests, Arrive(r) \/ Step(r) \/ Leave(r)
  PROVE  /\ \A x \in Requests \ {r} :
              /\ work'[x] = work[x]
              /\ gen'[x] = gen[x] \/ (gen[x] = "waiting" /\ gen'[x] = "woken")
         /\ work[r] \notin {"cut", "dropped"}
         /\ overlapped => overlapped'
<1>t. /\ \A x \in Requests :
           gen[x] \in Streams /\ work[x] \in Works /\ Agree(x, gen[x], work[x])
      /\ gen \in [Requests -> Streams] /\ work \in [Requests -> Works]
      /\ free \in Nat /\ overlapped \in BOOLEAN
  BY DEF TypeInv
<1>1. CASE Arrive(r)
  BY <1>1, <1>t DEF Arrive, Agree
<1>2. CASE Resume(r)
  <2> DEFINE g == [gen EXCEPT ![r] = "opening"]
  <2>1. g \in [Requests -> Streams] /\ Hand(free, Remove(waiters, r), g)
    BY <1>2, <1>t DEF Resume, Streams
  <2>2. \A x \in Requests : gen'[x] = g[x] \/ (g[x] = "waiting" /\ gen'[x] = "woken")
    BY <1>t, <2>1, HandOver
  <2> QED
    BY <1>2, <1>t, <2>2 DEF Resume, Agree
<1>3. CASE Open(r) \/ NextNode(r) \/ Answered(r)
  BY <1>3, <1>t DEF Open, NextNode, Answered, Agree
<1>4. CASE Finish(r)
  <2> DEFINE v == IF AgentOf[r] \in active THEN free + 1 ELSE free
  <2>1. v \in Nat /\ Hand(v, waiters, gen)
    BY <1>4, <1>t DEF Finish, Release
  <2>2. \A x \in Requests : gen'[x] = gen[x] \/ (gen[x] = "waiting" /\ gen'[x] = "woken")
    BY <1>t, <2>1, HandOver
  <2> QED
    BY <1>4, <1>t, <2>2 DEF Finish
<1>5. CASE EndStream(r) \/ LeaveStream(r) \/ LeaveOpening(r)
  BY <1>5, <1>t DEF EndStream, LeaveStream, LeaveOpening, Leaving, Left, Agree
<1>6. CASE LeaveQueue(r)
  <2> DEFINE v == IF gen[r] = "woken" THEN free + 1 ELSE free
             g == Left(r)
  <2>1. v \in Nat /\ Hand(v, Remove(waiters, r), g) /\ g \in [Requests -> Streams]
    BY <1>6, <1>t DEF LeaveQueue, Left, Streams
  <2>2. \A x \in Requests : gen'[x] = g[x] \/ (g[x] = "waiting" /\ gen'[x] = "woken")
    BY <1>t, <2>1, HandOver
  <2> QED
    BY <1>6, <1>t, <2>2 DEF LeaveQueue, Leaving, Left, Agree
<1>7. CASE LeaveTurn(r)
  <2>1. work[r] \notin {"cut", "dropped"} /\ overlapped' = overlapped
    BY <1>7, <1>t DEF LeaveTurn, Leaving, Agree
  <2>2. CASE work' = [work EXCEPT ![r] = "cut"] /\ gen' = Left(r)
    BY <1>t, <2>1, <2>2 DEF Left
  <2>3. CASE work' = [work EXCEPT ![r] = "dropped"] /\ Release(AgentOf[r], Left(r))
    <3> DEFINE v == IF AgentOf[r] \in active THEN free + 1 ELSE free
               g == Left(r)
    <3>1. v \in Nat /\ Hand(v, waiters, g) /\ g \in [Requests -> Streams]
      BY <1>t, <2>3 DEF Release, Left, Streams
    <3>2. \A x \in Requests : gen'[x] = g[x] \/ (g[x] = "waiting" /\ gen'[x] = "woken")
      BY <1>t, <3>1, HandOver
    <3> QED
      BY <1>t, <2>1, <2>3, <3>2 DEF Left
  <2> QED
    BY <1>7, <2>2, <2>3 DEF LeaveTurn
<1> QED
  BY <1>1, <1>2, <1>3, <1>4, <1>5, <1>6, <1>7 DEF Step, Leave

(* What a step that may hand slots over makes of the request that takes it. *)
LEMMA OneMoves ==
  ASSUME TypeInv, NEW r \in Requests
  PROVE  /\ Resume(r) => gen'[r] = "opening"
         /\ Finish(r) => gen'[r] = gen[r]
         /\ Leave(r) => gen'[r] = "left"
<1>t. /\ gen[r] \in Streams /\ work[r] \in Works /\ Agree(r, gen[r], work[r])
      /\ gen \in [Requests -> Streams] /\ work \in [Requests -> Works]
      /\ free \in Nat
  BY DEF TypeInv
<1>1. ASSUME Resume(r) PROVE gen'[r] = "opening"
  <2> DEFINE g == [gen EXCEPT ![r] = "opening"]
  <2>1. g \in [Requests -> Streams] /\ Hand(free, Remove(waiters, r), g)
    BY <1>1, <1>t DEF Resume, Streams
  <2> QED
    BY <1>1, <1>t, <2>1, HandOver DEF Resume
<1>2. ASSUME Finish(r) PROVE gen'[r] = gen[r]
  <2> DEFINE v == IF AgentOf[r] \in active THEN free + 1 ELSE free
  <2>1. v \in Nat /\ Hand(v, waiters, gen)
    BY <1>2, <1>t DEF Finish, Release
  <2>2. gen[r] # "waiting"
    BY <1>2, <1>t DEF Finish, Agree
  <2> QED
    BY <1>2, <1>t, <2>1, <2>2, HandOver
<1>3. ASSUME Leave(r) PROVE gen'[r] = "left"
  <2> DEFINE g == Left(r)
  <2>1. g \in [Requests -> Streams] /\ g[r] = "left"
    BY <1>t DEF Left, Streams
  <2>2. CASE gen' = g
    BY <1>3, <2>1, <2>2
  <2>3. ASSUME NEW v \in Nat, NEW queue, Hand(v, queue, g) PROVE gen'[r] = "left"
    BY <2>1, <2>3, HandOver
  <2>4. \/ gen' = g
        \/ \E v \in Nat : \E queue \in {waiters, Remove(waiters, r)} : Hand(v, queue, g)
    BY <1>3, <1>t DEF Leave, LeaveQueue, LeaveOpening, LeaveTurn, LeaveStream, Release
  <2> QED
    BY <1>3, <2>2, <2>3, <2>4
<1> QED
  BY <1>1, <1>2, <1>3

(* Only its arrival makes a request one that is not answered.               *)
LEMMA NobodyIsUnansweredAgain ==
  ASSUME TypeInv, NEW r \in Requests, Step(r) \/ Leave(r), NEW x \in Requests,
         Unanswered(x)'
  PROVE  Unanswered(x)
<1>t. /\ gen[r] \in Streams /\ work[r] \in Works /\ Agree(r, gen[r], work[r])
      /\ gen \in [Requests -> Streams] /\ work \in [Requests -> Works]
  BY DEF TypeInv
<1>1. CASE x # r
  BY <1>1, OthersStay DEF Unanswered
<1>2. CASE x = r
  <2>1. CASE Resume(r) \/ Open(r) \/ EndStream(r)
    BY <1>2, <2>1, <1>t DEF Resume, Open, EndStream, Unanswered
  <2>2. CASE NextNode(r) \/ Answered(r) \/ Finish(r)
    <3>1. gen[r] \in {"open", "left"} /\ work[r] \notin Over
      BY <2>2, <1>t DEF NextNode, Answered, Finish, Agree, Streams, Over
    <3> QED
      BY <1>2, <3>1 DEF Unanswered
  <2>3. CASE LeaveQueue(r) \/ LeaveStream(r) \/ LeaveOpening(r) \/ LeaveTurn(r)
    <3>1. gen[r] \in {"waiting", "woken", "opening", "open"}
      BY <2>3 DEF LeaveQueue, LeaveStream, LeaveOpening, LeaveTurn
    <3> QED
      BY <1>2, <3>1 DEF Unanswered
  <2> QED
    BY <2>1, <2>2, <2>3 DEF Step, Leave
<1> QED
  BY <1>1, <1>2

LEMMA AloneStep ==
  ASSUME TypeInv, Alone, [Next]_vars
  PROVE  Alone'
<1>1. ASSUME NEW r \in Requests, Step(r) \/ Leave(r) PROVE Alone'
  <2>1. overlapped => overlapped'
    BY <1>1, OthersStay
  <2>2. \A x \in Requests : Unanswered(x)' => Unanswered(x)
    BY <1>1, NobodyIsUnansweredAgain
  <2> QED
    BY <2>1, <2>2 DEF Alone
<1>2. ASSUME NEW r \in Requests, Arrive(r) PROVE Alone'
  <2>1. \A x \in Requests \ {r} : Unanswered(x)' => Unanswered(x)
    BY <1>2, OthersStay DEF Unanswered
  <2>2. overlapped' = (overlapped \/ \E q \in Requests :
                         AgentOf[q] = AgentOf[r] /\ Unanswered(q))
    BY <1>2 DEF Arrive
  <2>3. ASSUME ~overlapped', NEW p \in Requests, NEW q \in Requests,
               AgentOf[p] = AgentOf[q], Unanswered(p)', Unanswered(q)'
        PROVE  p = q
    BY <2>1, <2>2, <2>3 DEF Alone
  <2> QED
    BY <2>3 DEF Alone
<1>3. ASSUME NEW w \in Workers, WorkerStep(w) PROVE Alone'
  BY <1>3 DEF WorkerStep, WorkerBegins, RowStored, TurnEnds, RowDeleted, Alone, Unanswered
<1>4. CASE Crash
  BY <1>4 DEF Crash, Alone, Unanswered, Over
<1>5. CASE UNCHANGED vars
  BY <1>5 DEF vars, Alone, Unanswered
<1> QED
  BY <1>1, <1>2, <1>3, <1>4, <1>5 DEF Next
-----------------------------------------------------------------------------
(* The request of an agent that shows it as running, and the one that left  *)
(* without saying that it is over.                                          *)
Shows(r) == gen[r] = "opening" \/ work[r] \in Nodes
Silent(r) == work[r] \in {"cut", "dropped"}
Mine(a) == {r \in Requests : AgentOf[r] = a /\ Kind[r] # "parallel"}

StatusInv ==
  overlapped \/
  \A a \in Agents :
    \/ \E r \in Mine(a) : Silent(r)
    \/ status[a] = "running" <=> \E r \in Mine(a) : Shows(r)

LEMMA StatusInvStep ==
  ASSUME TypeInv, Alone, StatusInv, [Next]_vars
  PROVE  StatusInv'
<1> USE DEF Mine
<1>t. /\ \A r \in Requests :
           gen[r] \in Streams /\ work[r] \in Works /\ Agree(r, gen[r], work[r])
      /\ gen \in [Requests -> Streams] /\ work \in [Requests -> Works]
      /\ status \in [Agents -> {"idle", "running"}]
      /\ \A r \in Requests : AgentOf[r] \in Agents
  BY OrchestrationAssumption DEF TypeInv
<1>1. ASSUME NEW r \in Requests, Arrive(r) \/ Step(r) \/ Leave(r) PROVE StatusInv'
  <2>1. /\ overlapped => overlapped'
        /\ ~Silent(r)
        /\ \A x \in Requests \ {r} : Silent(x)' = Silent(x) /\ Shows(x)' = Shows(x)
    BY <1>1, <1>t, OthersStay DEF Silent, Shows
  <2>2. \A a \in Agents : (\E x \in Mine(a) : Silent(x)) => \E x \in Mine(a) : Silent(x)'
    BY <2>1
  <2>3. CASE status' = status /\ Shows(r)' = Shows(r)
    <3>1. \A x \in Requests : Shows(x)' = Shows(x)
      BY <2>1, <2>3
    <3> QED
      BY <2>1, <2>2, <2>3, <3>1 DEF StatusInv
  <2>4. CASE Kind[r] = "parallel" /\ status' = status
    <3>1. \A a \in Agents : r \notin Mine(a)
      BY <2>4
    <3> QED
      BY <2>1, <2>2, <2>4, <3>1 DEF StatusInv
  <2>5. CASE /\ Kind[r] # "parallel" /\ Shows(r)'
             /\ status' = [status EXCEPT ![AgentOf[r]] = "running"]
    <3>1. \A a \in Agents \ {AgentOf[r]} : r \notin Mine(a) /\ status'[a] = status[a]
      BY <2>5
    <3>2. r \in Mine(AgentOf[r]) /\ status'[AgentOf[r]] = "running"
      BY <1>t, <2>5
    <3> QED
      BY <2>1, <2>2, <2>5, <3>1, <3>2 DEF StatusInv
  <2>6. CASE /\ Kind[r] # "parallel" /\ Shows(r) /\ ~Shows(r)' /\ Unanswered(r)
             /\ status' = [status EXCEPT ![AgentOf[r]] = "idle"]
    <3>1. \A a \in Agents \ {AgentOf[r]} : r \notin Mine(a) /\ status'[a] = status[a]
      BY <2>6
    <3>2. status'[AgentOf[r]] = "idle"
      BY <1>t, <2>6
    <3>3. \A x \in Requests : Shows(x) => Unanswered(x)
      BY <1>t DEF Shows, Unanswered, Agree, Nodes, Over, Streams
    <3>4. overlapped \/ \A x \in Mine(AgentOf[r]) \ {r} : ~Shows(x)
      BY <2>6, <3>3 DEF Alone
    <3> QED
      BY <1>t, <2>1, <2>2, <2>6, <3>1, <3>2, <3>4 DEF StatusInv
  <2>7. CASE status' = status /\ Silent(r)'
    <3>1. \A a \in Agents : r \in Mine(a) => \E x \in Mine(a) : Silent(x)'
      BY <2>7
    <3> QED
      BY <2>1, <2>2, <2>7, <3>1 DEF StatusInv
  <2>8. CASE Arrive(r)
    <3>1. gen[r] = "new" /\ work[r] = "none" /\ work' = work
      BY <1>t, <2>8 DEF Arrive, Agree
    <3>2. CASE free > 0 /\ waiters = <<>>
      <4>1. gen' = [gen EXCEPT ![r] = "opening"] /\ Entered(r)
        BY <2>8, <3>2 DEF Arrive
      <4>2. Shows(r)'
        BY <1>t, <4>1 DEF Shows
      <4> QED
        BY <2>4, <2>5, <4>1, <4>2 DEF Entered
    <3>3. CASE ~(free > 0 /\ waiters = <<>>)
      <4>1. gen' = [gen EXCEPT ![r] = "waiting"] /\ status' = status
        BY <2>8, <3>3 DEF Arrive
      <4> QED
        BY <1>t, <2>3, <3>1, <4>1 DEF Shows, Nodes
    <3> QED
      BY <3>2, <3>3
  <2>9. CASE Resume(r)
    <3>1. Shows(r)' /\ Entered(r)
      BY <2>9, OneMoves DEF Resume, Shows
    <3> QED
      BY <2>4, <2>5, <3>1 DEF Entered
  <2>10. CASE Open(r) \/ NextNode(r)
    <3>1. Shows(r) /\ Shows(r)' /\ status' = status
      BY <1>t, <2>10 DEF Open, NextNode, NodeAfter, Shows, Nodes
    <3> QED
      BY <2>3, <3>1
  <2>11. CASE Answered(r)
    <3>1. /\ Shows(r) /\ ~Shows(r)' /\ Unanswered(r)
          /\ status' = IF Kind[r] = "parallel" THEN status
                       ELSE [status EXCEPT ![AgentOf[r]] = "idle"]
      BY <1>t, <2>11 DEF Answered, Shows, Nodes, Agree, Unanswered, Over, Streams
    <3> QED
      BY <2>4, <2>6, <3>1
  <2>12. CASE Finish(r)
    <3>1. gen'[r] = gen[r]
      BY <2>12, OneMoves
    <3> QED
      BY <1>t, <2>3, <2>12, <3>1 DEF Finish, Shows, Nodes
  <2>13. CASE EndStream(r) \/ LeaveStream(r)
    BY <1>t, <2>3, <2>13 DEF EndStream, LeaveStream, Left, Shows
  <2>14. CASE LeaveQueue(r)
    <3>1. gen[r] # "opening" /\ gen'[r] = "left" /\ work' = work /\ status' = status
      BY <2>14, OneMoves DEF LeaveQueue, Leave
    <3> QED
      BY <2>3, <3>1 DEF Shows
  <2>15. CASE LeaveOpening(r) \/ LeaveTurn(r)
    BY <1>t, <2>7, <2>15 DEF LeaveOpening, LeaveTurn, Silent
  <2> QED
    BY <1>1, <2>8, <2>9, <2>10, <2>11, <2>12, <2>13, <2>14, <2>15 DEF Step, Leave
<1>2. ASSUME NEW w \in Workers, WorkerStep(w) PROVE StatusInv'
  BY <1>2 DEF WorkerStep, WorkerBegins, RowStored, TurnEnds, RowDeleted, StatusInv,
              Shows, Silent
<1>3. CASE Crash
  BY <1>3 DEF Crash, StatusInv, Shows, Silent, Nodes
<1>4. CASE UNCHANGED vars
  BY <1>4 DEF vars, StatusInv, Shows, Silent
<1> QED
  BY <1>1, <1>2, <1>3, <1>4 DEF Next

(* The status of an agent is the state of its one unanswered request, unless*)
(* one of its requests left behind nobody's finally.                        *)
THEOREM StatusIsTrue == Spec => []StatusTellsTheTruth
<1>1. Init => Alone /\ StatusInv
  BY DEF Init, Alone, Unanswered, StatusInv, Shows, Nodes, Mine
<1>2. StatusInv => StatusTellsTheTruth
  BY DEF StatusInv, Shows, Silent, Mine, StatusTellsTheTruth
<1> QED
  BY <1>1, <1>2, TypeInvHolds, AloneStep, StatusInvStep, PTL DEF Spec
-----------------------------------------------------------------------------
(* The requests that hold a slot, and those of them that were entered in    *)
(* _active_agents.                                                          *)
Taken == {r \in Requests : HasSlot(r)}
Holds(r) == gen[r] = "opening" \/ work[r] \notin Over

(* Handing over moves slots from the value to the woken, and loses none.    *)
LEMMA HandCounts ==
  ASSUME TypeInv, NEW value \in Nat, NEW queue, NEW g \in [Requests -> Streams],
         Hand(value, queue, g), \A r \in Requests : Agree(r, g[r], work'[r])
  PROVE  /\ free' \in Nat /\ Cardinality(Taken') \in Nat
         /\ free' + Cardinality(Taken') =
              value + Cardinality({r \in Requests : \/ g[r] \in {"woken", "opening"}
                                                    \/ work'[r] \notin Over})
<1> DEFINE asleep == {r \in Requests : g[r] = "waiting"}
           T == {r \in Requests : g[r] \in {"woken", "opening"} \/ work'[r] \notin Over}
<1>1. PICK first \in SUBSET asleep :
        /\ Cardinality(first) =
             IF value < Cardinality(asleep) THEN value ELSE Cardinality(asleep)
        /\ free' = value - Cardinality(first)
        /\ gen' = [r \in Requests |-> IF r \in first THEN "woken" ELSE g[r]]
  BY DEF Hand
<1>2. /\ IsFiniteSet(asleep) /\ IsFiniteSet(first) /\ IsFiniteSet(T)
      /\ Cardinality(asleep) \in Nat /\ Cardinality(first) \in Nat /\ Cardinality(T) \in Nat
  BY FS_Subset, FS_CardinalityType, OrchestrationAssumption
<1>3. Taken' = T \cup first
  <2>1. \A r \in first : r \in Requests /\ gen'[r] = "woken"
    BY <1>1
  <2>2. \A r \in Requests \ first : gen'[r] = g[r]
    BY <1>1
  <2> QED
    BY <2>1, <2>2 DEF Taken, HasSlot
<1>4. T \cap first = {}
  BY DEF Agree, Over
<1>5. Cardinality(Taken') = Cardinality(T) + Cardinality(first)
  <2> HIDE DEF T
  <2>1. Cardinality(T \cup first) =
          Cardinality(T) + Cardinality(first) - Cardinality(T \cap first)
    BY <1>2, FS_Union
  <2>2. Cardinality({}) = 0
    BY FS_EmptySet
  <2>3. Cardinality(Taken') = Cardinality(T \cup first)
    BY <1>3
  <2>4. Cardinality(T \cap first) = 0
    BY <1>4, <2>2
  <2>5. Cardinality(T) \in Nat /\ Cardinality(first) \in Nat
    BY <1>2
  <2> QED
    BY <2>1, <2>3, <2>4, <2>5
<1>6. Cardinality(first) <= value
  BY <1>1, <1>2
<1>7. free' \in Nat /\ free' + Cardinality(Taken') = value + Cardinality(T)
  <2> HIDE DEF T, asleep
  <2> QED
    BY <1>1, <1>2, <1>5, <1>6
<1> QED
  BY <1>2, <1>5, <1>7

SlotInv ==
  /\ free + Cardinality(Taken) <= MaxAgents
  /\ ~overlapped /\ ~Lost => free + Cardinality(Taken) = MaxAgents
  /\ ~overlapped => \A r \in Requests : Holds(r) => AgentOf[r] \in active

LEMMA TakenIsFinite ==
  ASSUME TypeInv
  PROVE  IsFiniteSet(Taken) /\ Cardinality(Taken) \in Nat
BY FS_Subset, FS_CardinalityType, OrchestrationAssumption DEF Taken

LEMMA HoldersAreUnanswered ==
  ASSUME TypeInv, NEW r \in Requests, Holds(r)
  PROVE  Unanswered(r) /\ r \in Taken
BY DEF TypeInv, Holds, Unanswered, Agree, Over, Streams, Taken, HasSlot

(* The end of a request that holds a slot: its agent has no other one, so   *)
(* it was entered, and the slot comes back.                                 *)
LEMMA ReleaseKeepsSlots ==
  ASSUME TypeInv, Alone, SlotInv, NEW r \in Requests, Holds(r),
         NEW g \in [Requests -> Streams], Release(AgentOf[r], g),
         \A x \in Requests : Agree(x, g[x], work'[x]),
         \A x \in Requests \ {r} : g[x] = gen[x] /\ work'[x] = work[x],
         g[r] \notin {"waiting", "woken", "opening"}, work'[r] \in Over,
         overlapped' = overlapped, Lost => Lost'
  PROVE  SlotInv'
<1> DEFINE v == IF AgentOf[r] \in active THEN free + 1 ELSE free
           T == {x \in Requests : g[x] \in {"woken", "opening"} \/ work'[x] \notin Over}
<1>1. v \in Nat /\ Hand(v, waiters, g) /\ free \in Nat
  BY DEF Release, TypeInv
<1>2. /\ free' \in Nat /\ Cardinality(Taken') \in Nat
      /\ free' + Cardinality(Taken') = v + Cardinality(T)
  BY <1>1, HandCounts
<1>3. T = Taken \ {r} /\ r \in Taken
  BY HoldersAreUnanswered DEF Taken, HasSlot
<1>4. Cardinality(T) = Cardinality(Taken) - 1 /\ Cardinality(Taken) \in Nat
  BY <1>3, TakenIsFinite, FS_RemoveElement
<1>5. ~overlapped => AgentOf[r] \in active
  BY DEF SlotInv
<1>6. ASSUME ~overlapped', NEW x \in Requests, Holds(x)' PROVE AgentOf[x] \in active'
  <2>1. gen'[x] = g[x] \/ (g[x] = "waiting" /\ gen'[x] = "woken")
    BY <1>1, HandOver
  <2>2. x # r /\ Holds(x)
    BY <1>6, <2>1 DEF Holds
  <2>3. Unanswered(x) /\ Unanswered(r)
    BY <2>2, HoldersAreUnanswered
  <2>4. AgentOf[x] \in active /\ AgentOf[x] # AgentOf[r]
    BY <1>6, <2>2, <2>3 DEF Alone, SlotInv
  <2> QED
    BY <2>4 DEF Release
<1>7. /\ free' + Cardinality(Taken') <= MaxAgents
      /\ ~overlapped' /\ ~Lost' => free' + Cardinality(Taken') = MaxAgents
  <2> HIDE DEF T
  <2> QED
    BY <1>1, <1>2, <1>4, <1>5, OrchestrationAssumption DEF SlotInv
<1> QED
  BY <1>6, <1>7 DEF SlotInv

LEMMA SlotInvStep ==
  ASSUME TypeInv, Alone, SlotInv, [Next]_vars
  PROVE  SlotInv'
<1>t. /\ \A r \in Requests :
           gen[r] \in Streams /\ work[r] \in Works /\ Agree(r, gen[r], work[r])
      /\ gen \in [Requests -> Streams] /\ work \in [Requests -> Works]
      /\ free \in Nat /\ MaxAgents \in Nat
      /\ IsFiniteSet(Taken) /\ Cardinality(Taken) \in Nat
  BY TakenIsFinite, OrchestrationAssumption DEF TypeInv
<1>k. ASSUME Taken' = Taken, free' = free, active' = active, overlapped => overlapped',
             Lost => Lost', \A x \in Requests : Holds(x)' => Holds(x)
      PROVE  SlotInv'
  BY <1>k DEF SlotInv
<1>1. ASSUME NEW r \in Requests, Arrive(r) \/ Step(r) \/ Leave(r) PROVE SlotInv'
  <2>o. /\ \A x \in Requests \ {r} :
             /\ work'[x] = work[x]
             /\ gen'[x] = gen[x] \/ (gen[x] = "waiting" /\ gen'[x] = "woken")
             /\ Holds(x)' = Holds(x)
        /\ overlapped => overlapped'
        /\ Lost => Lost'
    BY <1>1, OthersStay DEF Holds, Lost
  <2>1. CASE Arrive(r)
    <3>1. gen[r] = "new" /\ work[r] = "none" /\ work' = work /\ r \notin Taken
      BY <1>t, <2>1 DEF Arrive, Agree, Taken, HasSlot, Over
    <3>2. CASE free > 0 /\ waiters = <<>>
      <4>1. /\ gen' = [gen EXCEPT ![r] = "opening"] /\ free' = free - 1
            /\ active' = active \cup {AgentOf[r]}
        BY <2>1, <3>2 DEF Arrive, Entered
      <4>2. Taken' = Taken \cup {r}
        BY <1>t, <3>1, <4>1 DEF Taken, HasSlot
      <4>3. Cardinality(Taken') = Cardinality(Taken) + 1
        BY <1>t, <3>1, <4>2, FS_AddElement
      <4>4. free' + Cardinality(Taken') = free + Cardinality(Taken)
        BY <1>t, <4>1, <4>3
      <4> QED
        BY <2>o, <4>1, <4>4 DEF SlotInv
    <3>3. CASE ~(free > 0 /\ waiters = <<>>)
      <4>1. gen' = [gen EXCEPT ![r] = "waiting"] /\ free' = free /\ active' = active
        BY <2>1, <3>3 DEF Arrive
      <4>2. Taken' = Taken /\ \A x \in Requests : Holds(x)' => Holds(x)
        BY <1>t, <3>1, <4>1 DEF Taken, HasSlot, Holds
      <4> QED
        BY <1>k, <2>o, <4>1, <4>2
    <3> QED
      BY <3>2, <3>3
  <2>2. CASE Resume(r)
    <3> DEFINE g == [gen EXCEPT ![r] = "opening"]
               T == {x \in Requests : g[x] \in {"woken", "opening"} \/ work'[x] \notin Over}
    <3>1. /\ g \in [Requests -> Streams] /\ Hand(free, Remove(waiters, r), g)
          /\ work' = work /\ gen[r] = "woken"
          /\ active' = active \cup {AgentOf[r]}
      BY <1>t, <2>2 DEF Resume, Streams, Entered
    <3>2. \A x \in Requests : Agree(x, g[x], work'[x])
      BY <1>t, <3>1 DEF Agree
    <3>3. /\ free' \in Nat /\ Cardinality(Taken') \in Nat
          /\ free' + Cardinality(Taken') = free + Cardinality(T)
      BY <1>t, <3>1, <3>2, HandCounts
    <3>4. T = Taken
      BY <1>t, <3>1 DEF Taken, HasSlot
    <3> HIDE DEF T
    <3> QED
      BY <2>o, <3>1, <3>3, <3>4 DEF SlotInv
  <2>3. CASE Open(r) \/ NextNode(r) \/ Answered(r) \/ EndStream(r) \/ LeaveStream(r)
    <3>1. /\ free' = free /\ active' = active
          /\ \A x \in Requests : HasSlot(x)' = HasSlot(x) /\ (Holds(x)' => Holds(x))
      BY <1>t, <2>3 DEF Open, NextNode, NodeAfter, Answered, EndStream, LeaveStream,
           Leaving, Left, slots, HasSlot, Holds, Over, Agree
    <3>2. Taken' = Taken
      BY <3>1 DEF Taken
    <3> QED
      BY <1>k, <2>o, <3>1, <3>2
  <2>4. CASE Finish(r)
    <3>1. /\ Holds(r) /\ Release(AgentOf[r], gen) /\ overlapped' = overlapped
          /\ gen[r] \notin {"waiting", "woken", "opening"} /\ work'[r] \in Over
          /\ \A x \in Requests : Agree(x, gen[x], work'[x])
      BY <1>t, <2>4 DEF Finish, Holds, Over, Agree
    <3> QED
      BY <1>t, <2>o, <3>1, ReleaseKeepsSlots
  <2>5. CASE LeaveQueue(r)
    <3> DEFINE v == IF gen[r] = "woken" THEN free + 1 ELSE free
               g == Left(r)
               T == {x \in Requests : g[x] \in {"woken", "opening"} \/ work'[x] \notin Over}
    <3>1. /\ v \in Nat /\ Hand(v, Remove(waiters, r), g) /\ g \in [Requests -> Streams]
          /\ work' = work /\ active' = active /\ gen[r] \in {"waiting", "woken"}
          /\ work[r] = "none" /\ g[r] = "left"
      BY <1>t, <2>5 DEF LeaveQueue, Left, Streams, Agree
    <3>2. \A x \in Requests : Agree(x, g[x], work'[x])
      BY <1>t, <3>1 DEF Agree, Left
    <3>3. /\ free' \in Nat /\ Cardinality(Taken') \in Nat
          /\ free' + Cardinality(Taken') = v + Cardinality(T)
      BY <1>t, <3>1, <3>2, HandCounts
    <3>4. T = Taken \ {r} /\ (r \in Taken <=> gen[r] = "woken")
      BY <1>t, <3>1 DEF Taken, HasSlot, Left, Over
    <3>5. /\ Cardinality(T) = IF r \in Taken THEN Cardinality(Taken) - 1
                              ELSE Cardinality(Taken)
          /\ Cardinality(T) \in Nat
      BY <1>t, <3>4, FS_RemoveElement, FS_CardinalityType
    <3>6. free' + Cardinality(Taken') = free + Cardinality(Taken)
      <4> HIDE DEF T
      <4> QED
        BY <1>t, <3>3, <3>4, <3>5
    <3>7. ~Holds(r)'
      BY <2>5, <3>1, OneMoves DEF Holds, Leave, Over
    <3> QED
      BY <2>o, <3>1, <3>6, <3>7 DEF SlotInv
  <2>6. ASSUME work' = [work EXCEPT ![r] = "cut"], gen' = Left(r), UNCHANGED slots
        PROVE  SlotInv'
    <3>1. Taken' = Taken \ {r} /\ free' = free /\ active' = active /\ ~Holds(r)'
      BY <1>t, <2>6 DEF Taken, HasSlot, Left, Over, slots, Holds
    <3>2. Lost'
      BY <1>t, <2>6 DEF Lost
    <3>3. Cardinality(Taken') <= Cardinality(Taken) /\ Cardinality(Taken') \in Nat
      <4>1. IsFiniteSet(Taken') /\ Cardinality(Taken') <= Cardinality(Taken)
        BY <1>t, <3>1, FS_Subset
      <4> QED
        BY <4>1, FS_CardinalityType
    <3>4. free' + Cardinality(Taken') <= MaxAgents
      BY <1>t, <3>1, <3>3 DEF SlotInv
    <3> QED
      BY <2>o, <3>1, <3>2, <3>4 DEF SlotInv
  <2>7. CASE LeaveOpening(r)
    BY <2>6, <2>7 DEF LeaveOpening
  <2>8. CASE LeaveTurn(r)
    <3>1. CASE work' = [work EXCEPT ![r] = "dropped"] /\ Release(AgentOf[r], Left(r))
      <4> DEFINE g == Left(r)
      <4>1. /\ Holds(r) /\ overlapped' = overlapped /\ work'[r] \in Over
            /\ g[r] = "left" /\ g \in [Requests -> Streams]
        BY <1>t, <2>8, <3>1 DEF LeaveTurn, Leaving, Left, Holds, Over, Agree, Streams
      <4>2. /\ \A x \in Requests : Agree(x, g[x], work'[x])
            /\ \A x \in Requests \ {r} : g[x] = gen[x] /\ work'[x] = work[x]
        BY <1>t, <2>8, <3>1 DEF LeaveTurn, Left, Agree
      <4> QED
        BY <2>o, <3>1, <4>1, <4>2, ReleaseKeepsSlots
    <3> QED
      BY <2>6, <2>8, <3>1 DEF LeaveTurn
  <2> QED
    BY <1>1, <2>1, <2>2, <2>3, <2>4, <2>5, <2>7, <2>8 DEF Step, Leave
<1>2. ASSUME NEW w \in Workers, WorkerStep(w) PROVE SlotInv'
  <2>1. UNCHANGED <<slots, gen, work, overlapped>>
    BY <1>2 DEF WorkerStep, WorkerBegins, RowStored, TurnEnds, RowDeleted
  <2> QED
    BY <1>k, <2>1 DEF slots, Taken, HasSlot, Holds, Lost
<1>3. CASE Crash
  <2>1. \A r \in Requests : ~HasSlot(r)' /\ ~Holds(r)'
    BY <1>3 DEF Crash, HasSlot, Holds, Over
  <2>2. Taken' = {} /\ free' = MaxAgents
    BY <1>3, <2>1 DEF Crash, Taken
  <2> QED
    BY <1>t, <2>1, <2>2, FS_EmptySet DEF SlotInv
<1>4. CASE UNCHANGED vars
  BY <1>k, <1>4 DEF vars, slots, Taken, HasSlot, Holds, Lost
<1> QED
  BY <1>1, <1>2, <1>3, <1>4 DEF Next

(* However requests come, queue, leave and fail, no slot is given back      *)
(* twice, and without overlapping requests of one agent only those whose    *)
(* clients left at a place no finally covers keep theirs.                   *)
THEOREM SlotsAreKept == Spec => []SlotsGoRound
<1>1. Init => Alone /\ SlotInv
  <2> SUFFICES ASSUME Init PROVE Alone /\ SlotInv
    OBVIOUS
  <2>1. \A r \in Requests : ~HasSlot(r) /\ ~Holds(r) /\ ~Unanswered(r)
    BY DEF Init, HasSlot, Holds, Unanswered, Over
  <2>2. Taken = {} /\ free = MaxAgents
    BY <2>1 DEF Init, Taken
  <2> QED
    BY <2>1, <2>2, FS_EmptySet, OrchestrationAssumption DEF Alone, SlotInv
<1>2. SlotInv => SlotsGoRound
  BY DEF SlotInv, Taken, SlotsGoRound
<1> QED
  BY <1>1, <1>2, TypeInvHolds, AloneStep, SlotInvStep, PTL DEF Spec
=============================================================================
