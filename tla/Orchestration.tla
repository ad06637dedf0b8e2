---------------------------- MODULE Orchestration ----------------------------
(***************************************************************************)
(* /v1/execute, /v1/execute_parallel and /v1/orchestrate: the agent slots   *)
(* of ConcurrencyController that all three take, the graph of parallel      *)
(* branches, fan-in and synthesis that the last two run in a task of its    *)
(* own, and the transient subagents of /v1/orchestrate, which are           *)
(* registered in _state.agents, in the session of the communication bus and *)
(* in the agents table.  Clients may close their connection, rows may fail  *)
(* to be written or deleted, the process may stop and start again.          *)
(*                                                                         *)
(* What the branches say, the SSE events before the last and the            *)
(* notifications broadcast to the session (nobody reads their queues) are   *)
(* left out.  A subagent is named by its request and its branch.            *)
(***************************************************************************)
EXTENDS Integers, Sequences, SequencesExt, FiniteSets

CONSTANTS Requests, Agents,
          Kind,          \* the endpoint of each request
          AgentOf,       \* the agent whose slot it takes
          Branches,      \* the branches of its graph, {} for "execute"
          MaxAgents,     \* the slots, ConcurrencyController(max_agents)
          MaxFaults      \* bound on closed connections, failing statements on the
                         \* agents table and stops of the process, all together

ASSUME OrchestrationAssumption ==
  /\ Kind \in [Requests -> {"execute", "parallel", "orchestrate"}]
  /\ AgentOf \in [Requests -> Agents]
  /\ MaxAgents \in Nat \ {0}
  /\ MaxFaults \in Nat
  /\ IsFiniteSet(Requests)

Spawns(r) == Kind[r] = "orchestrate"
Workers == UNION {{r} \X Branches[r] : r \in Requests}
Subagents == {w \in Workers : Spawns(w[1])}

VARIABLES
  free,      \* _agent_semaphore._value
  waiters,   \* _agent_semaphore._waiters: requests, the woken ones included
  active,    \* the keys of _active_agents
  status,    \* agent["status"]
  gen,       \* event_stream of each request
  work,      \* the node it runs (execute: in the stream, else in run_graph)
  worker,    \* the branches of each graph
  agents,    \* the subagents in _state.agents
  members,   \* the subagents in _session_members
  rows,      \* the subagents with a row in the agents table
  leaves, failures, crashes,
  overlapped \* history: a request came while one of its agent was not answered

slots == <<free, waiters, active>>
subs == <<worker, agents, members, rows>>
counts == <<leaves, failures, crashes>>
FaultLeft == leaves + failures + crashes < MaxFaults
vars == <<slots, status, gen, work, subs, counts, overlapped>>

Nodes == {"agent", "multi_agent", "fan_in", "synthesizer"}
Over == {"none", "over", "dropped", "cut"}

Init ==
  /\ free = MaxAgents /\ waiters = <<>> /\ active = {}
  /\ status = [a \in Agents |-> "idle"]
  /\ gen = [r \in Requests |-> "new"]
  /\ work = [r \in Requests |-> "none"]
  /\ worker = [w \in Workers |-> "none"]
  /\ agents = {} /\ members = {} /\ rows = {}
  /\ leaves = 0 /\ failures = 0 /\ crashes = 0
  /\ overlapped = FALSE
-----------------------------------------------------------------------------
Before(queue, p, q) ==
  \E i, j \in DOMAIN queue : i < j /\ queue[i] = p /\ queue[j] = q

(* asyncio.Semaphore hands a value above zero to the waiters in their order;*)
(* g is gen and queue is _waiters as the step leaves them.                  *)
Hand(value, queue, g) ==
  LET asleep == {r \in Requests : g[r] = "waiting"} IN
  \E first \in SUBSET asleep :
    /\ Cardinality(first) =
         IF value < Cardinality(asleep) THEN value ELSE Cardinality(asleep)
    /\ \A q \in first, p \in asleep : Before(queue, p, q) => p \in first
    /\ free' = value - Cardinality(first)
    /\ waiters' = queue
    /\ gen' = [r \in Requests |-> IF r \in first THEN "woken" ELSE g[r]]

(* The agent is entered in _active_agents and shown as running; the stream  *)
(* then stands at its first yield.                                          *)
Entered(r) ==
  /\ active' = active \cup {AgentOf[r]}
  /\ status' = IF Kind[r] = "parallel" THEN status
               ELSE [status EXCEPT ![AgentOf[r]] = "running"]

(* A client that waits for the end of one stream before it asks again, and  *)
(* for the work of a stream it left, does not overlap.                      *)
Unanswered(q) ==
  \/ gen[q] \in {"waiting", "woken", "opening", "open"}
  \/ gen[q] = "left" /\ work[q] \notin Over

(* A request: register_agent, the graph, then acquire_agent_slot.           *)
Arrive(r) ==
  /\ gen[r] = "new"
  /\ overlapped' = (overlapped \/ \E q \in Requests :
                      AgentOf[q] = AgentOf[r] /\ Unanswered(q))
  /\ IF free > 0 /\ waiters = <<>>
     THEN /\ free' = free - 1
          /\ gen' = [gen EXCEPT ![r] = "opening"]
          /\ Entered(r)
          /\ UNCHANGED waiters
     ELSE /\ waiters' = Append(waiters, r)
          /\ gen' = [gen EXCEPT ![r] = "waiting"]
          /\ UNCHANGED <<free, active, status>>
  /\ UNCHANGED <<work, subs, counts>>

(* A woken request returns from acquire().                                  *)
Resume(r) ==
  /\ gen[r] = "woken"
  /\ Hand(free, Remove(waiters, r), [gen EXCEPT ![r] = "opening"])
  /\ Entered(r)
  /\ UNCHANGED <<work, subs, counts, overlapped>>

ReleaseSilently(a, g) ==    \* mutated form of Release: nobody is woken
  /\ active' = active \ {a}
  /\ free' = IF a \in active THEN free + 1 ELSE free
  /\ gen' = g
  /\ UNCHANGED waiters

(* release_agent_slot gives back a slot if the agent is in _active_agents.  *)
Release(a, g) ==
  /\ active' = active \ {a}
  /\ Hand(IF a \in active THEN free + 1 ELSE free, waiters, g)

(* The stream goes on behind its first yield: /execute runs the agent in    *)
(* it, the others create run_graph.                                         *)
Open(r) ==
  /\ gen[r] = "opening"
  /\ gen' = [gen EXCEPT ![r] = "open"]
  /\ work' = [work EXCEPT ![r] = IF Kind[r] = "execute" THEN "agent" ELSE "multi_agent"]
  /\ UNCHANGED <<slots, status, subs, counts, overlapped>>
-----------------------------------------------------------------------------
(* create_subagent: in the registry and in the session, then store_agent    *)
(* is awaited.  A branch of /execute_parallel runs an agent that exists.    *)
WorkerBegins(w) ==
  /\ work[w[1]] = "multi_agent"
  /\ worker[w] = "none"
  /\ IF Spawns(w[1])
     THEN /\ worker' = [worker EXCEPT ![w] = "storing"]
          /\ agents' = agents \cup {w}
          /\ members' = members \cup {w}
     ELSE /\ worker' = [worker EXCEPT ![w] = "running"]
          /\ UNCHANGED <<agents, members>>
  /\ UNCHANGED <<slots, status, gen, work, rows, counts, overlapped>>

(* store_agent returns, or fails and is passed over.                        *)
RowStored(w) ==
  /\ worker[w] = "storing"
  /\ worker' = [worker EXCEPT ![w] = "running"]
  /\ \/ rows' = rows \cup {w} /\ UNCHANGED failures
     \/ FaultLeft /\ failures' = failures + 1 /\ UNCHANGED rows
  /\ UNCHANGED <<slots, status, gen, work, agents, members, leaves, crashes, overlapped>>

TurnEndsOnlyReturned(w) ==    \* mutated form of TurnEnds: a raise skips the teardown
  /\ worker[w] = "running"
  /\ \/ /\ worker' = [worker EXCEPT ![w] = IF Spawns(w[1]) THEN "deleting" ELSE "done"]
        /\ agents' = agents \ {w} /\ members' = members \ {w}
     \/ /\ worker' = [worker EXCEPT ![w] = "done"]
        /\ UNCHANGED <<agents, members>>
  /\ UNCHANGED <<slots, status, gen, work, rows, counts, overlapped>>

(* run_agent_turn returned or raised: in both cases teardown_subagent takes *)
(* the subagent out of the session and the registry and awaits delete_agent.*)
TurnEnds(w) ==
  /\ worker[w] = "running"
  /\ worker' = [worker EXCEPT ![w] = IF Spawns(w[1]) THEN "deleting" ELSE "done"]
  /\ agents' = agents \ {w} /\ members' = members \ {w}
  /\ UNCHANGED <<slots, status, gen, work, rows, counts, overlapped>>

RowDeleted(w) ==
  /\ worker[w] = "deleting"
  /\ worker' = [worker EXCEPT ![w] = "done"]
  /\ \/ rows' = rows \ {w} /\ UNCHANGED failures
     \/ FaultLeft /\ failures' = failures + 1 /\ UNCHANGED rows
  /\ UNCHANGED <<slots, status, gen, work, agents, members, leaves, crashes, overlapped>>

(* The walk of StateGraph.run over the graph the builders make; the node    *)
(* multi_agent ends when gather() has every branch.                         *)
Ready(r) ==
  work[r] = "multi_agent" => \A b \in Branches[r] : worker[<<r, b>>] = "done"

NodeAfter == [multi_agent |-> "fan_in", fan_in |-> "synthesizer"]

NextNode(r) ==
  /\ work[r] \in {"multi_agent", "fan_in"}
  /\ Ready(r)
  /\ work' = [work EXCEPT ![r] = NodeAfter[@]]
  /\ UNCHANGED <<slots, status, gen, subs, counts, overlapped>>

AnsweredWithResult(r) ==    \* mutated form of Answered: an error leaves the status
  /\ work[r] \in {"agent", "synthesizer"}
  /\ work' = [work EXCEPT ![r] = "told"]
  /\ \/ UNCHANGED status
     \/ status' = IF Kind[r] = "parallel" THEN status
                  ELSE [status EXCEPT ![AgentOf[r]] = "idle"]
  /\ UNCHANGED <<slots, gen, subs, counts, overlapped>>

(* The agent's turn or the synthesis is over, with a result or an error:    *)
(* the status is reset and the client told.                                 *)
Answered(r) ==
  /\ work[r] \in {"agent", "synthesizer"}
  /\ work' = [work EXCEPT ![r] = "told"]
  /\ status' = IF Kind[r] = "parallel" THEN status
               ELSE [status EXCEPT ![AgentOf[r]] = "idle"]
  /\ UNCHANGED <<slots, gen, subs, counts, overlapped>>

FinishEarly(r) ==    \* mutated form of Finish: the stream is ended before the release
  /\ work[r] = "told"
  /\ IF gen[r] = "open"
     THEN gen' = [gen EXCEPT ![r] = "ended"] /\ UNCHANGED <<slots, work>>
     ELSE work' = [work EXCEPT ![r] = "over"] /\ Release(AgentOf[r], gen)
  /\ UNCHANGED <<status, subs, counts, overlapped>>

(* finally: the slot is given back; in run_graph the end of the stream is   *)
(* queued behind it.                                                        *)
Finish(r) ==
  /\ work[r] = "told"
  /\ work' = [work EXCEPT ![r] = "over"]
  /\ Release(AgentOf[r], gen)
  /\ UNCHANGED <<status, subs, counts, overlapped>>

EndStream(r) ==
  /\ gen[r] = "open" /\ work[r] = "over"
  /\ gen' = [gen EXCEPT ![r] = "ended"]
  /\ UNCHANGED <<slots, status, work, subs, counts, overlapped>>
-----------------------------------------------------------------------------
Leaving(r) ==
  /\ FaultLeft /\ leaves' = leaves + 1
  /\ UNCHANGED <<subs, failures, crashes, overlapped>>
Left(r) == [gen EXCEPT ![r] = "left"]

(* The client closes the connection while its request waits in acquire().   *)
LeaveQueue(r) ==
  /\ gen[r] \in {"waiting", "woken"}
  /\ Leaving(r)
  /\ Hand(IF gen[r] = "woken" THEN free + 1 ELSE free, Remove(waiters, r), Left(r))
  /\ UNCHANGED <<active, status, work>>

(* ... while the stream stands at its first yield, which no finally covers. *)
LeaveOpening(r) ==
  /\ gen[r] = "opening"
  /\ Leaving(r)
  /\ gen' = Left(r)
  /\ work' = [work EXCEPT ![r] = "cut"]
  /\ UNCHANGED <<slots, status>>

(* ... while /execute runs the agent, which is cancelled, or has answered   *)
(* and is in its finally.  emitter.close() is cancelled (again) if it has a *)
(* connection to wait for, and then the release behind it does not happen.  *)
LeaveTurn(r) ==
  /\ gen[r] = "open" /\ Kind[r] = "execute" /\ work[r] # "over"
  /\ Leaving(r)
  /\ \/ work' = [work EXCEPT ![r] = "dropped"] /\ Release(AgentOf[r], Left(r))
     \/ /\ work' = [work EXCEPT ![r] = "cut"]
        /\ gen' = Left(r)
        /\ UNCHANGED slots
  /\ UNCHANGED status

(* ... otherwise: run_graph is a task of its own and goes on.               *)
LeaveStream(r) ==
  /\ gen[r] = "open" /\ (Kind[r] = "execute" => work[r] = "over")
  /\ Leaving(r)
  /\ gen' = Left(r)
  /\ UNCHANGED <<slots, status, work>>

(* The process stops; the next one loads the agents table, where a row does *)
(* not say that its agent was a subagent.                                   *)
Crash ==
  /\ FaultLeft /\ crashes' = crashes + 1
  /\ free' = MaxAgents /\ waiters' = <<>> /\ active' = {}
  /\ status' = [a \in Agents |-> "idle"]
  /\ gen' = [r \in Requests |-> IF gen[r] \in {"new", "ended"} THEN gen[r] ELSE "left"]
  /\ work' = [r \in Requests |-> IF gen[r] = "new" THEN "none" ELSE "over"]
  /\ worker' = [w \in Workers |-> IF worker[w] = "none" THEN "none" ELSE "done"]
  /\ agents' = rows /\ members' = {}
  /\ overlapped' = FALSE
  /\ UNCHANGED <<rows, leaves, failures>>
-----------------------------------------------------------------------------
Leave(r) == LeaveQueue(r) \/ LeaveOpening(r) \/ LeaveTurn(r) \/ LeaveStream(r)
Step(r) == Resume(r) \/ Open(r) \/ NextNode(r) \/ Answered(r) \/ Finish(r) \/ EndStream(r)
WorkerStep(w) == WorkerBegins(w) \/ RowStored(w) \/ TurnEnds(w) \/ RowDeleted(w)

Next ==
  \/ \E r \in Requests : Arrive(r) \/ Step(r) \/ Leave(r)
  \/ \E w \in Workers : WorkerStep(w)
  \/ Crash

(* The event loop runs what can run; model calls return or raise, and the   *)
(* statements of the agents table come back.                                *)
Fairness ==
  /\ \A r \in Requests : WF_vars(Step(r))
  /\ \A w \in Workers : WF_vars(WorkerStep(w))

Spec == Init /\ [][Next]_vars /\ Fairness
-----------------------------------------------------------------------------
Lost == \E r \in Requests : work[r] = "cut"
HasSlot(r) == gen[r] \in {"woken", "opening"} \/ work[r] \notin Over

(* A slot is never given back twice; and none is lost while nobody asks for *)
(* an agent whose last stream has not ended and nobody leaves a stream at   *)
(* its first yield or an /execute before its end.                           *)
SlotsGoRound ==
  LET taken == Cardinality({r \in Requests : HasSlot(r)}) IN
  /\ free + taken <= MaxAgents
  /\ ~overlapped /\ ~Lost => free + taken = MaxAgents

(* An agent shows as running exactly while a request of it holds a slot and *)
(* is not answered, but for overlapping requests and an /execute whose      *)
(* client left.                                                             *)
StatusTellsTheTruth ==
  \/ overlapped
  \/ \A a \in Agents :
       LET mine == {r \in Requests : AgentOf[r] = a /\ Kind[r] # "parallel"} IN
       \/ \E r \in mine : work[r] \in {"cut", "dropped"}
       \/ (status[a] = "running") <=> \E r \in mine : gen[r] = "opening" \/ work[r] \in Nodes

(* A subagent is in the registry, the session and the table only while its  *)
(* worker is between create_subagent and the end of teardown_subagent; a    *)
(* failed statement or a crash may leave a row and, behind a crash, an agent*)
(* of it, but never a member of the session.                                *)
SubagentsAreTransient ==
  LET spawned == {w \in Subagents : worker[w] \in {"storing", "running"}}
      deleting == {w \in Subagents : worker[w] = "deleting"}
  IN  /\ members = spawned
      /\ agents \subseteq spawned \cup rows
      /\ crashes = 0 => agents = spawned
      /\ crashes = 0 /\ failures = 0 => rows \subseteq spawned \cup deleting
      /\ \A r \in Requests : work[r] = "synthesizer" =>
           \A w \in members : w[1] # r

(* Every request is served to its end unless its client leaves or a slot    *)
(* was lost as above.                                                       *)
EveryRequestEnds ==
  \A r \in Requests :
    (gen[r] # "new") ~> (gen[r] \in {"ended", "left"} \/ overlapped \/ Lost)
=============================================================================
