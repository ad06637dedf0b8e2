---------------------------- MODULE WorkflowJournal ----------------------------
(***************************************************************************)
(* The SQLite journal of workflow runs, and the resume of a run after the  *)
(* process, or only the call, died.                                        *)
(*                                                                         *)
(* The engine is seen through what it writes: started when an agent is     *)
(* about to run, result when it ended, the run row at both ends.  Which    *)
(* node is admitted when is WorkflowRun's business, so here any pending    *)
(* node may start.  Every call has a connection of its own to the shared   *)
(* database file, and a failed write does not roll back: conn says what    *)
(* the transaction it leaves open still holds.  A usage is the agent runs   *)
(* it adds up: how often it counts the one of each node.                   *)
(***************************************************************************)
EXTENDS Integers, FiniteSets

CONSTANTS Runs,       \* workflow runs (run_id)
          Nodes,      \* the nodes of all runs
          RunOf,      \* the run of each node
          Key,        \* _cache_key of each node: prompt and model
          MaxDeaths   \* bound on crashes and cancellations

ASSUME WorkflowJournalAssumption ==
  /\ RunOf \in [Nodes -> Runs]
  /\ DOMAIN Key = Nodes
  /\ MaxDeaths \in Nat

VARIABLES
  row,       \* workflow_run.status of each run, absent before start_run
  rowUse,    \* workflow_run.total_usage
  events,    \* rows of workflow_event
  conn,      \* transaction state of each call's connection
  call,      \* the engine call of each run: new, live, dead or returned
  pc,        \* of each node within the live call of its run
  total,     \* ctx.total_usage of the live call
  bounded,   \* runs whose call has a budget, or an abort its caller may set
  skipped,   \* nodes that the live or last call of their run answers "skipped"
  deaths,    \* crashes and cancellations so far
  settled,   \* history: nodes whose agent ended, in any call
  raised,    \* history: nodes whose agent could not be built
  spent      \* history: usage of every agent run that succeeded, per run

stored == <<row, rowUse, events>>
history == <<settled, raised, spent>>
limits == <<bounded, skipped>>
vars == <<row, rowUse, events, conn, call, pc, total, bounded, skipped, deaths,
          settled, raised, spent>>

NoUse == [n \in Nodes |-> 0]
NodesOf(r) == {n \in Nodes : RunOf[n] = r}
Event == [run : Runs, key : {Key[n] : n \in Nodes}, type : {"started", "result"},
          node : Nodes, status : {"success", "error"}]

Init ==
  /\ row = [r \in Runs |-> "absent"]
  /\ rowUse = [r \in Runs |-> NoUse]
  /\ events = {}
  /\ conn = [r \in Runs |-> "clean"]
  /\ call = [r \in Runs |-> "new"]
  /\ pc = [n \in Nodes |-> "idle"]
  /\ total = [r \in Runs |-> NoUse]
  /\ bounded \in SUBSET Runs    \* the caller's choice
  /\ skipped = {}
  /\ deaths = 0
  /\ settled = {}
  /\ raised = {}
  /\ spent = [r \in Runs |-> NoUse]
-------------------------------------------------------------------------------
(* SQLite in WAL mode under Python's implicit transactions.  A connection  *)
(* is clean (no transaction), open (one that has read nothing), pinned     *)
(* (one that reads from an old snapshot), stale (pinned, and another       *)
(* connection has committed since: every write fails) or writer (a UNIQUE  *)
(* conflict left its transaction open, with the write lock).               *)
Blocked(r) ==
  \/ conn[r] = "stale"
  \/ \E q \in Runs \ {r} : conn[q] = "writer"

AfterCommit(r) ==
  [q \in Runs |-> IF q = r THEN "clean"
                  ELSE IF conn[q] = "pinned" THEN "stale" ELSE conn[q]]

(* A statement that waited out busy_timeout: nothing is written, and the   *)
(* transaction begun for it stays open.                                    *)
AfterBusy(r) == [conn EXCEPT ![r] = IF @ = "clean" THEN "open" ELSE @]

(* append_event reads MAX(seq) first, which pins an open transaction.      *)
AfterBusyAppend(r) ==
  [conn EXCEPT ![r] = CASE @ = "clean" -> "open"
                        [] @ = "open"  -> "pinned"
                        [] OTHER       -> @]

Duplicate(e) ==
  \E f \in events : f.run = e.run /\ f.key = e.key /\ f.type = e.type

(* _journal_append swallows the failure in both cases.                     *)
AppendEvent(r, e) ==
  \/ /\ Blocked(r)
     /\ conn' = AfterBusyAppend(r)
     /\ UNCHANGED events
  \/ /\ ~Blocked(r)
     /\ Duplicate(e)
     /\ conn' = [conn EXCEPT ![r] = "writer"]
     /\ UNCHANGED events
  \/ /\ ~Blocked(r)
     /\ ~Duplicate(e)
     /\ conn' = AfterCommit(r)
     /\ events' = events \cup {e}

EventOf(n, type, status) ==
  [run |-> RunOf[n], key |-> Key[n], type |-> type, node |-> n,
   status |-> status]
-------------------------------------------------------------------------------
(* engine.run of a fresh run: start_run, then the nodes become tasks.      *)
Start(r) ==
  /\ call[r] = "new"
  /\ call' = [call EXCEPT ![r] = "live"]
  /\ IF Blocked(r)
     THEN conn' = AfterBusy(r) /\ UNCHANGED row
     ELSE conn' = AfterCommit(r) /\ row' = [row EXCEPT ![r] = "running"]
  /\ pc' = [n \in Nodes |-> IF RunOf[n] = r THEN "pending" ELSE pc[n]]
  /\ UNCHANGED <<rowUse, events, total, limits, deaths, history>>

(* The agent is built, started is journaled and agent.run is awaited.      *)
NodeStart(n) ==
  /\ pc[n] = "pending"
  /\ AppendEvent(RunOf[n], EventOf(n, "started", "success"))
  /\ pc' = [pc EXCEPT ![n] = "running"]
  /\ UNCHANGED <<row, rowUse, call, total, limits, deaths, history>>

(* build_native_agent raises before anything is journaled.                 *)
NodeRaise(n) ==
  /\ pc[n] = "pending"
  /\ pc' = [pc EXCEPT ![n] = "idle"]
  /\ raised' = raised \cup {n}
  /\ UNCHANGED <<stored, conn, call, total, limits, deaths, settled, spent>>

(* The budget is used up, or the abort set: the node is answered "skipped"  *)
(* and the journal is not told.                                            *)
NodeSkip(n) ==
  /\ pc[n] = "pending"
  /\ RunOf[n] \in bounded
  /\ pc' = [pc EXCEPT ![n] = "idle"]
  /\ skipped' = skipped \cup {n}
  /\ UNCHANGED <<stored, conn, call, total, bounded, deaths, history>>

(* The result is journaled, then the usage committed to ctx.total_usage.   *)
NodeSucceed(n) ==
  /\ pc[n] = "running"
  /\ AppendEvent(RunOf[n], EventOf(n, "result", "success"))
  /\ pc' = [pc EXCEPT ![n] = "idle"]
  /\ total' = [total EXCEPT ![RunOf[n]][n] = @ + 1]
  /\ settled' = settled \cup {n}
  /\ spent' = [spent EXCEPT ![RunOf[n]][n] = @ + 1]
  /\ UNCHANGED <<row, rowUse, call, limits, deaths, raised>>

NodeFail(n) ==
  /\ pc[n] = "running"
  /\ AppendEvent(RunOf[n], EventOf(n, "result", "error"))
  /\ pc' = [pc EXCEPT ![n] = "idle"]
  /\ settled' = settled \cup {n}
  /\ UNCHANGED <<row, rowUse, call, total, limits, deaths, raised, spent>>

WaitsForResults(r) == \A n \in NodesOf(r) : pc[n] = "idle" /\ n \in settled    \* mutated form of Joined
Joined(r) == \A n \in NodesOf(r) : pc[n] = "idle"

(* Behind the barrier: mark_completed (an UPDATE, which writes nothing if  *)
(* the row is absent); the call returns and its connection is dropped.     *)
Finish(r) ==
  /\ call[r] = "live"
  /\ Joined(r)
  /\ call' = [call EXCEPT ![r] = "returned"]
  /\ IF Blocked(r) \/ row[r] = "absent"
     THEN /\ UNCHANGED <<row, rowUse>>
          /\ conn' = [conn EXCEPT ![r] = "clean"]
     ELSE /\ row' = [row EXCEPT ![r] = "completed"]
          /\ rowUse' = [rowUse EXCEPT ![r] = total[r]]
          /\ conn' = AfterCommit(r)
  /\ UNCHANGED <<events, pc, total, limits, deaths, history>>

ResultRows(r) == {e \in events : e.run = r /\ e.type = "result"}
CachedSuccesses(r) == {e.key : e \in {f \in ResultRows(r) : f.status = "success"}}    \* mutated form of CachedKeys
CachedStarted(r) == {e.key : e \in {f \in events : f.run = r}}                        \* mutated form of CachedKeys
CachedKeys(r) == {e.key : e \in ResultRows(r)}

SuccessRows(r, n) == {e \in ResultRows(r) : e.status = "success" /\ e.node = n}
RowUsage(r) == rowUse[r]                                               \* mutated form of MergedUsage
MergedUsage(r) == [n \in Nodes |-> Cardinality(SuccessRows(r, n))]

Pending(r) == {n \in NodesOf(r) : Key[n] \notin CachedKeys(r)}

(* resume: a row that is not final; cached keys are skipped, the rest runs *)
(* again in a fresh call.  Its start_run changes nothing, the row exists.  *)
(* Its context is made of the row, which knows of no budget and no abort.   *)
(* With nothing pending, Finish is the mark_completed resume ends with.    *)
Resume(r) ==
  /\ call[r] \in {"dead", "returned"}
  /\ row[r] = "running"
  /\ call' = [call EXCEPT ![r] = "live"]
  /\ conn' = IF Blocked(r) /\ Pending(r) # {} THEN AfterBusy(r) ELSE conn
  /\ pc' = [n \in Nodes |-> IF n \in Pending(r) THEN "pending" ELSE pc[n]]
  /\ total' = [total EXCEPT ![r] = MergedUsage(r)]
  /\ bounded' = bounded \ {r}
  /\ skipped' = skipped \ NodesOf(r)
  /\ UNCHANGED <<stored, deaths, history>>

(* The turn that awaits the call is cancelled: its tasks end without a     *)
(* result, CancelledError is no Exception, and the connection is dropped.  *)
Cancel(r) ==
  /\ deaths < MaxDeaths
  /\ call[r] = "live"
  /\ call' = [call EXCEPT ![r] = "dead"]
  /\ conn' = [conn EXCEPT ![r] = "clean"]
  /\ pc' = [n \in Nodes |-> IF RunOf[n] = r THEN "idle" ELSE pc[n]]
  /\ skipped' = skipped \ NodesOf(r)
  /\ deaths' = deaths + 1
  /\ UNCHANGED <<stored, total, bounded, history>>

(* The orchestrator process dies: every call and connection is gone, what  *)
(* was committed stays.                                                    *)
Crash ==
  /\ deaths < MaxDeaths
  /\ \E r \in Runs : call[r] = "live"
  /\ call' = [r \in Runs |-> IF call[r] = "live" THEN "dead" ELSE call[r]]
  /\ conn' = [r \in Runs |-> "clean"]
  /\ pc' = [n \in Nodes |-> "idle"]
  /\ skipped' = {n \in skipped : call[RunOf[n]] # "live"}
  /\ deaths' = deaths + 1
  /\ UNCHANGED <<stored, total, bounded, history>>

(* Nothing is left to do: resume skips a completed run and refuses one     *)
(* whose row was never written.                                            *)
Quiescent ==
  /\ \A r \in Runs : call[r] \in {"dead", "returned"} /\ row[r] # "running"
  /\ UNCHANGED vars

NodeStep(n) ==
  NodeStart(n) \/ NodeRaise(n) \/ NodeSkip(n) \/ NodeSucceed(n) \/ NodeFail(n)

Progress ==
  \/ \E r \in Runs : Finish(r) \/ Resume(r)
  \/ \E n \in Nodes : NodeStep(n)

Next ==
  \/ Progress
  \/ \E r \in Runs : Start(r) \/ Cancel(r)
  \/ Crash
  \/ Quiescent

Spec == Init /\ [][Next]_vars

(* Agents end, the loop runs ready tasks, and a run left unfinished is     *)
(* resumed by its operator.                                                *)
FairSpec == Spec /\ WF_vars(Progress)
-------------------------------------------------------------------------------
TypeOK ==
  /\ row \in [Runs -> {"absent", "running", "completed"}]
  /\ rowUse \in [Runs -> [Nodes -> Nat]]
  /\ total \in [Runs -> [Nodes -> Nat]]
  /\ events \subseteq Event
  /\ conn \in [Runs -> {"clean", "open", "pinned", "stale", "writer"}]
  /\ call \in [Runs -> {"new", "live", "dead", "returned"}]
  /\ pc \in [Nodes -> {"idle", "pending", "running"}]
  /\ bounded \subseteq Runs
  /\ skipped \subseteq Nodes
  /\ deaths \in 0..MaxDeaths

(* A node whose agent ended is never run again, whatever crashes and       *)
(* resumes follow: its result is in the journal and resume finds it.       *)
SettledNeverRerun ==
  [][\A n \in settled : pc[n] # "running" => pc'[n] # "running"]_vars

(* The usage a completed run reports is that of every agent run that       *)
(* succeeded, before and after crashes, each counted once.                 *)
UsageExact == \A r \in Runs : row[r] = "completed" => rowUse[r] = spent[r]

(* A run is only marked completed when every node of its spec was settled  *)
(* or could not be built: a half-done agent is never taken for done.  The   *)
(* call that completes a run may also have skipped nodes, for good, since a *)
(* completed run is not resumed; but only if no resume came before it, for  *)
(* what a crashed call had skipped, resume runs.                           *)
CompletedCoversAll ==
  \A r \in Runs : row[r] = "completed" =>
    \A n \in NodesOf(r) :
      n \in settled \cup raised \/ (r \in bounded /\ n \in skipped)

(* A run that started is eventually completed, through any crashes.        *)
Recovers == \A r \in Runs : call[r] = "live" ~> row[r] = "completed"
================================================================================
