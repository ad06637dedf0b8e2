----------------------------- MODULE NativeSession -----------------------------
(***************************************************************************)
(* Sessions of the native harness (harness type agent-os-v2): the registry  *)
(* _sessions of live records, the rows of OrchSessionStore, and the HTTP    *)
(* handlers that create, turn, cancel, fork, archive and delete them, which *)
(* interleave at their awaits.  The process may stop and rebuild the        *)
(* registry from the rows.                                                  *)
(*                                                                         *)
(* A request is used once, so it also names the messages of the turn it     *)
(* runs: a message history is the set of the turns in it.  A record is      *)
(* named by the request that built it and by its session: two requests may  *)
(* build a record each for one session.                                     *)
(***************************************************************************)
EXTENDS Integers, FiniteSets

CONSTANTS Sessions, Requests,
          MaxRestarts,         \* bound on the stops of the process
          MaxFaults,           \* bound on the faults of the store
          MaxBranches,         \* bound on the targets of one fork
          Boot,                \* "builder" of what restore_all_sessions builds
          NoRec, Client,       \* no registry entry; an entry that is no native record
          NoRow

Recs == (Requests \cup {Boot}) \X Sessions
History == SUBSET Requests

ASSUME NativeSessionAssumption ==
  /\ MaxRestarts \in Nat
  /\ MaxFaults \in Nat
  /\ MaxBranches \in Nat \ {0}
  /\ Boot \notin Requests
  /\ NoRec \notin Sessions \cup Recs
  /\ Client \notin Recs
  /\ \A h \in History : h # NoRow

VARIABLES
  reg,       \* _sessions: the record of each session
  hist,      \* rec["messages"] of each record
  row,       \* orch_sessions: the messages column of each session, or NoRow
  garbled,   \* sessions whose messages column does not decode
  req,       \* the handler of each request, with its locals
  tasks,     \* _async_turn_tasks: turns whose tick is registered
  restarts, faults,
  \* history variables:
  used,      \* session ids ever named
  stored,    \* turns whose result their record took
  given,     \* the messages a session had from its fork
  twins,     \* sessions with two live records at some moment
  stopped,   \* turns cancel_turn answered "cancelled" for
  unsaved    \* records whose last save failed

vars == <<reg, hist, row, garbled, req, tasks, restarts, faults,
          used, stored, given, twins, stopped, unsaved>>
ghosts == <<used, stored, given, twins, stopped, unsaved>>

NewRequest ==
  [op |-> "none", s |-> NoRec, pc |-> "idle", rec |-> NoRec, seen |-> {},
   insert |-> FALSE, left |-> 0, began |-> {}]

Over == {"done", "failed"}
Live(r) == req[r].pc \notin {"idle"} \cup Over
At(r, pc) == req[r].pc = pc
Goto(r, pc) == req' = [req EXCEPT ![r].pc = pc]
Messages(rec) == IF rec \in Recs THEN hist[rec] ELSE {}

(* _load_native_messages starts fresh on a column it cannot decode.         *)
Loaded(s) == IF row[s] = NoRow \/ s \in garbled THEN {} ELSE row[s]

Init ==
  /\ reg = [s \in Sessions |-> NoRec]
  /\ hist = [c \in Recs |-> {}]
  /\ row = [s \in Sessions |-> NoRow]
  /\ garbled = {}
  /\ req = [r \in Requests |-> NewRequest]
  /\ tasks = {}
  /\ restarts = 0
  /\ faults = 0
  /\ used = {} /\ stored = {} /\ twins = {} /\ stopped = {} /\ unsaved = {}
  /\ given = [s \in Sessions |-> {}]

(* Nobody has the id of a session whose creation has not been answered.     *)
Known(s) == \A q \in Requests : ~(req[q].op = "create" /\ req[q].s = s /\ Live(q))

(* A request arrives; began remembers which ones were over by then (and for *)
(* a turn, from its run's start on, the turns stored by then).              *)
Arrive(r, as) ==
  /\ At(r, "idle")
  /\ Known(as.s)
  /\ req' = [req EXCEPT ![r] =
               [as EXCEPT !.began = {q \in Requests : req[q].pc \in Over}]]
  /\ used' = used \cup {as.s}

-------------------------------------------------------------------------------
(* _build_native_session: the messages are read before it, its await is the *)
(* connection of the emitter, and it may raise.                            *)
MarkTwins(r, s) ==
  twins' = IF \/ reg[s] # NoRec
              \/ \E q \in Requests \ ({r} \cup req[r].began) :
                   req[q].rec \in Recs /\ req[q].rec[2] = s
           THEN twins \cup {s} ELSE twins

(* INSERT OR IGNORE: a row that exists is left as it is.                    *)
InsertRow(s) == row' = [row EXCEPT ![s] = IF @ = NoRow THEN {} ELSE @]

(* A statement of the store raises, or the messages in a row do not decode. *)
Fault ==
  /\ faults < MaxFaults
  /\ faults' = faults + 1

BuildRaises(r) ==
  /\ req[r].pc \in {"build", "source", "branch"}
  /\ Goto(r, "failed")
  /\ UNCHANGED <<reg, hist, row, garbled, tasks, restarts, faults, ghosts>>

(* What create_session and a turn without a record do next: register it.    *)
Built(r) ==
  LET s == req[r].s
      rec == <<r, s>> IN
  /\ At(r, "build")
  /\ hist' = [hist EXCEPT ![rec] = req[r].seen]
  /\ reg' = [reg EXCEPT ![s] = rec]
  /\ MarkTwins(r, s)
  /\ IF req[r].insert THEN InsertRow(s) ELSE UNCHANGED row
  /\ req' = [req EXCEPT ![r].rec = rec,
                        ![r].pc = IF req[r].op = "create" THEN "done" ELSE "fire"]
  /\ UNCHANGED <<garbled, tasks, restarts, faults,
                 used, stored, given, stopped, unsaved>>

(* create_session has registered the record when its INSERT raises.  A turn  *)
(* would register it after: to it, the INSERT fails as the build does.      *)
InsertRaises(r) ==
  LET s == req[r].s
      rec == <<r, s>> IN
  /\ At(r, "build")
  /\ req[r].op = "create"
  /\ hist' = [hist EXCEPT ![rec] = req[r].seen]
  /\ reg' = [reg EXCEPT ![s] = rec]
  /\ MarkTwins(r, s)
  /\ Goto(r, "failed")
  /\ Fault
  /\ UNCHANGED <<row, garbled, tasks, restarts, used, stored, given, stopped, unsaved>>

(* create_session: the id is a fresh uuid.                                  *)
Create(r, s) ==
  /\ s \notin used
  /\ Arrive(r, [NewRequest EXCEPT !.op = "create", !.s = s, !.pc = "build",
                                  !.insert = TRUE])
  /\ UNCHANGED <<reg, hist, row, garbled, tasks, restarts, faults,
                 stored, given, twins, stopped, unsaved>>

(* trigger_turn finds a record, rebuilds one from the row, or makes a       *)
(* session for an id it has never seen.                                    *)
TurnArrives(r, s) ==
  /\ Arrive(r,
       IF reg[s] # NoRec
       THEN [NewRequest EXCEPT !.op = "turn", !.s = s, !.pc = "fire", !.rec = reg[s]]
       ELSE [NewRequest EXCEPT !.op = "turn", !.s = s, !.pc = "build",
                               !.insert = (row[s] = NoRow),
                               !.seen = Loaded(s)])
  /\ UNCHANGED <<reg, hist, row, garbled, tasks, restarts, faults,
                 stored, given, twins, stopped, unsaved>>

(* TURN_SUBMIT and TURN_START are awaited.  Whether the turn is async, and a *)
(* task from here on, its caller chose; nothing before looks at it.         *)
AsyncAccepted(r) ==
  /\ At(r, "fire")
  /\ Goto(r, "task")
  /\ tasks' = tasks \cup {r}
  /\ UNCHANGED <<reg, hist, row, garbled, restarts, faults, ghosts>>

(* agent.run starts from the messages the record has now.  An entry that is *)
(* not a native record has no agent: KeyError.                             *)
RunStarts(r) ==
  /\ req[r].pc \in {"fire", "task"}
  /\ req' = [req EXCEPT ![r].pc = IF req[r].rec \in Recs THEN "run" ELSE "failed",
                        ![r].seen = Messages(req[r].rec),
                        ![r].began = stored]
  /\ UNCHANGED <<reg, hist, row, garbled, tasks, restarts, faults, ghosts>>

RunRaises(r) ==
  /\ At(r, "run")
  /\ Goto(r, "failed")
  /\ UNCHANGED <<reg, hist, row, garbled, tasks, restarts, faults, ghosts>>

TakeResult(r, all) ==
  /\ At(r, "run")
  /\ hist' = [hist EXCEPT ![req[r].rec] = all]
  /\ stored' = stored \cup {r}
  /\ UNCHANGED <<reg, tasks, restarts, used, given, twins, stopped>>

AppendHistory(r, all) ==    \* mutated form of WriteHistory: only the new messages are added
  /\ row' = [row EXCEPT ![req[r].s] = IF @ = NoRow THEN @ ELSE @ \cup {r}]
  /\ unsaved' = unsaved \ {req[r].rec}
  /\ UNCHANGED <<garbled, faults>>

(* save_messages is an UPDATE.  What it wrote may not decode again.         *)
WriteHistory(r, all) ==
  LET s == req[r].s IN
  /\ row' = [row EXCEPT ![s] = IF @ = NoRow THEN @ ELSE all]
  /\ \/ garbled' = garbled \ {s} /\ UNCHANGED faults
     \/ row[s] # NoRow /\ garbled' = garbled \cup {s} /\ Fault
  /\ unsaved' = unsaved \ {req[r].rec}

(* touch raises, which fails the turn, or the save does, which is swallowed *)
(* and only logged.                                                        *)
SaveFails(r) ==
  /\ Fault
  /\ \E pc \in {"failed", "usage"} : Goto(r, pc)
  /\ unsaved' = unsaved \cup {req[r].rec}
  /\ UNCHANGED <<row, garbled>>

RunEndsLastOnly(r) ==    \* mutated form of RunEnds: new_messages() for all_messages()
  /\ TakeResult(r, {r})
  /\ WriteHistory(r, {r})
  /\ Goto(r, "usage")

(* The run and its STOP event are over: the record takes its history, then  *)
(* the row, then the usage is emitted.                                     *)
RunEnds(r) ==
  LET all == req[r].seen \cup {r} IN
  /\ TakeResult(r, all)
  /\ \/ WriteHistory(r, all) /\ Goto(r, "usage")
     \/ SaveFails(r)

UsageEmitted(r) ==
  /\ At(r, "usage")
  /\ Goto(r, "done")
  /\ UNCHANGED <<reg, hist, row, garbled, tasks, restarts, faults, ghosts>>

(* The done callback of the task forgets its tick.                          *)
TaskForgotten(r) ==
  /\ r \in tasks
  /\ req[r].pc \in Over
  /\ tasks' = tasks \ {r}
  /\ UNCHANGED <<reg, hist, row, garbled, req, restarts, faults, ghosts>>

CancelForgets(r) ==    \* mutated form of CancelTurn: the task goes on
  /\ r \in tasks
  /\ tasks' = tasks \ {r}
  /\ stopped' = stopped \cup {r}
  /\ UNCHANGED <<reg, hist, row, garbled, req, restarts, faults,
                 used, stored, given, twins, unsaved>>

(* cancel_turn takes the tick out and cancels the task, wherever it is.     *)
CancelTurn(r) ==
  /\ r \in tasks
  /\ tasks' = tasks \ {r}
  /\ stopped' = stopped \cup {r}
  /\ IF Live(r) THEN Goto(r, "failed") ELSE UNCHANGED req
  /\ UNCHANGED <<reg, hist, row, garbled, restarts, faults,
                 used, stored, given, twins, unsaved>>
-------------------------------------------------------------------------------
(* fork_session: the source's record, rebuilt if only its row is there; its *)
(* messages are read once, and every target is a session of its own.       *)
ForkArrives(r, s, left) ==
  /\ reg[s] # NoRec \/ row[s] # NoRow
  /\ LET as == [NewRequest EXCEPT !.op = "fork", !.s = s, !.left = left] IN
     Arrive(r, IF reg[s] # NoRec
               THEN [as EXCEPT !.pc = "branch", !.rec = reg[s],
                               !.seen = Messages(reg[s])]
               ELSE [as EXCEPT !.pc = "source", !.seen = Loaded(s)])
  /\ UNCHANGED <<reg, hist, row, garbled, tasks, restarts, faults,
                 stored, given, twins, stopped, unsaved>>

SourceBuilt(r) ==
  LET s == req[r].s
      rec == <<r, s>> IN
  /\ At(r, "source")
  /\ hist' = [hist EXCEPT ![rec] = req[r].seen]
  /\ reg' = [reg EXCEPT ![s] = rec]
  /\ MarkTwins(r, s)
  /\ req' = [req EXCEPT ![r].pc = "branch", ![r].rec = rec]
  /\ UNCHANGED <<row, garbled, tasks, restarts, faults,
                 used, stored, given, stopped, unsaved>>

BranchShares(r, child) ==    \* mutated form of BranchBuilt: the record is shared
  /\ At(r, "branch")
  /\ child \notin used
  /\ used' = used \cup {child}
  /\ reg' = [reg EXCEPT ![child] = req[r].rec]
  /\ given' = [given EXCEPT ![child] = req[r].seen]
  /\ InsertRow(child)
  /\ req' = [req EXCEPT ![r].left = @ - 1, ![r].pc = IF req[r].left = 1 THEN "done" ELSE @]
  /\ UNCHANGED <<hist, garbled, tasks, restarts, faults,
                 stored, twins, stopped, unsaved>>

(* The branch has the source's messages in memory; its row has none yet, or *)
(* is missing when the INSERT raises and ends the fork.                    *)
BranchBuilt(r, child) ==
  LET rec == <<r, child>> IN
  /\ At(r, "branch")
  /\ child \notin used
  /\ used' = used \cup {child}
  /\ hist' = [hist EXCEPT ![rec] = req[r].seen]
  /\ reg' = [reg EXCEPT ![child] = rec]
  /\ given' = [given EXCEPT ![child] = req[r].seen]
  /\ \/ /\ InsertRow(child) /\ UNCHANGED faults
        /\ req' = [req EXCEPT ![r].left = @ - 1,
                              ![r].pc = IF req[r].left = 1 THEN "done" ELSE @]
     \/ Fault /\ UNCHANGED row /\ Goto(r, "failed")
  /\ UNCHANGED <<garbled, tasks, restarts, stored, twins, stopped, unsaved>>
-------------------------------------------------------------------------------
(* delete_session takes the record out, closes its emitter, tells observe,  *)
(* and deletes the row last.                                               *)
DeleteArrives(r, s) ==
  /\ Arrive(r, [NewRequest EXCEPT !.op = "delete", !.s = s, !.pc = "deleting"])
  /\ reg' = [reg EXCEPT ![s] = NoRec]
  /\ UNCHANGED <<hist, row, garbled, tasks, restarts, faults,
                 stored, given, twins, stopped, unsaved>>

RowStays(r) ==    \* mutated form of RowDeleted: the row is forgotten
  /\ At(r, "deleting")
  /\ Goto(r, "done")
  /\ UNCHANGED <<reg, hist, row, garbled, tasks, restarts, faults, ghosts>>

RowDeleted(r) ==
  /\ At(r, "deleting")
  /\ row' = [row EXCEPT ![req[r].s] = NoRow]
  /\ garbled' = garbled \ {req[r].s}
  /\ Goto(r, "done")
  /\ UNCHANGED <<reg, hist, tasks, restarts, faults, ghosts>>

DeleteRaises(r) ==
  /\ At(r, "deleting")
  /\ Fault
  /\ Goto(r, "failed")
  /\ UNCHANGED <<reg, hist, row, garbled, tasks, restarts, ghosts>>

(* archive_session asks _ensure_client, which takes every type but          *)
(* claude-code for claw: a row without a record gets an OpenClawClient      *)
(* under the native key, and the handler then fails.  With a record there   *)
(* is no "client" key to read, without a row it is a 404.                  *)
Archive(r, s) ==
  /\ Arrive(r, [NewRequest EXCEPT !.op = "archive", !.s = s, !.pc = "failed"])
  /\ reg' = [reg EXCEPT ![s] = IF @ = NoRec /\ row[s] # NoRow THEN Client ELSE @]
  /\ UNCHANGED <<hist, row, garbled, tasks, restarts, faults,
                 stored, given, twins, stopped, unsaved>>

(* The process stops, to be followed by another, maybe of another version,  *)
(* which reads the rows its own way.  restore_all_sessions then builds a    *)
(* record from each row, save those whose build raises.                    *)
Restart ==
  /\ restarts < MaxRestarts
  /\ restarts' = restarts + 1
  /\ req' = [r \in Requests |-> IF Live(r) THEN [req[r] EXCEPT !.pc = "failed"]
                                           ELSE req[r]]
  /\ tasks' = {}
  /\ UNCHANGED row
  /\ garbled' \in SUBSET {s \in Sessions : row[s] \notin {NoRow, {}}}
  /\ IF garbled' \subseteq garbled THEN UNCHANGED faults ELSE Fault
  /\ \E up \in SUBSET {s \in Sessions : row[s] # NoRow} :
       /\ reg' = [s \in Sessions |-> IF s \in up THEN <<Boot, s>> ELSE NoRec]
       /\ hist' = [c \in Recs |->
                     IF c[1] = Boot /\ c[2] \in up THEN Loaded(c[2])' ELSE {}]
  /\ twins' = {}
  /\ unsaved' = {}
  /\ UNCHANGED <<used, stored, given, stopped>>
-------------------------------------------------------------------------------
Arrival(r) ==
  \E s \in Sessions :
    \/ Create(r, s)
    \/ TurnArrives(r, s)
    \/ \E n \in 1..MaxBranches : ForkArrives(r, s, n)
    \/ DeleteArrives(r, s)
    \/ Archive(r, s)

Step(r) ==
  \/ Built(r) \/ BuildRaises(r) \/ InsertRaises(r) \/ SourceBuilt(r)
  \/ \E child \in Sessions : BranchBuilt(r, child)
  \/ AsyncAccepted(r) \/ RunStarts(r) \/ RunRaises(r) \/ RunEnds(r)
  \/ UsageEmitted(r) \/ TaskForgotten(r) \/ CancelTurn(r)
  \/ RowDeleted(r) \/ DeleteRaises(r)

Next == Restart \/ \E r \in Requests : Arrival(r) \/ Step(r)

Spec == Init /\ [][Next]_vars
-------------------------------------------------------------------------------
TypeOK ==
  /\ reg \in [Sessions -> Recs \cup {NoRec, Client}]
  /\ hist \in [Recs -> History]
  /\ row \in [Sessions -> History \cup {NoRow}]
  /\ req \in [Requests ->
       [op : {"none", "create", "turn", "fork", "delete", "archive"},
        s : Sessions \cup {NoRec},
        pc : {"idle", "build", "source", "branch", "fire", "task", "run", "usage",
              "deleting"} \cup Over,
        rec : Recs \cup {NoRec, Client}, seen : History, insert : BOOLEAN,
        left : 0..MaxBranches, began : History]]
  /\ garbled \subseteq Sessions
  /\ tasks \subseteq Requests
  /\ restarts \in 0..MaxRestarts
  /\ faults \in 0..MaxFaults
  /\ used \subseteq Sessions
  /\ stored \subseteq Requests
  /\ given \in [Sessions -> History]
  /\ twins \subseteq Sessions
  /\ stopped \subseteq Requests
  /\ unsaved \subseteq Recs

(* Two turns of one session read the same history and the later to end      *)
(* overwrites the other.  That is the only way a turn is lost: whatever row  *)
(* and record hold and the record lacks once a run has ended, was stored    *)
(* after a turn of the session began that has been stored, too.  Excepted   *)
(* are sessions with two records at once, and what is in a row that does    *)
(* not decode, which the next save overwrites: Loaded has it for nothing.   *)
TurnLostOnlyByOverlap ==
  [][\A s \in Sessions \ twins : \A r \in stored' \ stored :
       req[r].s = s =>
         \A t \in (Loaded(s) \cup hist[req[r].rec]) \ hist'[req[r].rec] :
           \E q \in stored' \ {t} : req[q].s = s /\ t \notin req[q].began]_vars

(* As long as a session has one record, what it would lose with the process *)
(* is nothing, but for a fork that has not turned yet, a row that does not  *)
(* decode, and a record whose last save failed: the next save makes up for  *)
(* all that the failed ones left out.                                      *)
RowHoldsHistory ==
  \A s \in Sessions \ (twins \cup garbled) :
    /\ reg[s] \in Recs \ unsaved
    /\ row[s] # NoRow
    /\ row[s] # hist[reg[s]]
    => row[s] = {} /\ hist[reg[s]] = given[s]

(* A fork and its source never see each other's later turns: a record holds *)
(* the turns of its own session and those its fork started from.           *)
HistoryIsOwn ==
  \A s \in Sessions :
    reg[s] \in Recs =>
      hist[reg[s]] \subseteq given[s] \cup {t \in Requests : req[t].s = s}

(* A deleted session comes back only by a request that was not over when    *)
(* the delete arrived.                                                     *)
DeleteIsFinal ==
  \A d \in Requests :
    /\ req[d].op = "delete" /\ req[d].pc = "done"
    /\ \A r \in Requests \ {d} : req[r].s = req[d].s => At(r, "idle") \/ r \in req[d].began
    => reg[req[d].s] = NoRec /\ row[req[d].s] = NoRow

(* A turn cancel_turn answered for never writes its history afterwards.     *)
CancelIsFinal ==
  [][\A t \in stopped : t \in stored' => t \in stored]_vars
================================================================================
