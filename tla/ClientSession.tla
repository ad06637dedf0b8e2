----------------------------- MODULE ClientSession -----------------------------
(***************************************************************************)
(* Sessions of the two harnesses driven through a client object: claude-code *)
(* (ClaudeClient, a process per turn) and claw (OpenClawClient, one long     *)
(* connection to the gateway), with the registry _sessions, the rows of      *)
(* OrchSessionStore and the HTTP handlers, interleaved at their awaits.      *)
(*                                                                         *)
(* A request is used once.  A client is named by the request that built it,  *)
(* a number (one request may build two) and its session; a native claude     *)
(* session by the turn whose process created it, or by the fork's new id.    *)
(***************************************************************************)
EXTENDS Integers, FiniteSets

CONSTANTS Claude, Claw,        \* session ids of each harness type
          Restored,            \* the claude sessions an earlier process left
          Requests,
          MaxRestarts,         \* bound on the stops of the process
          MaxLosses,           \* bound on the gateway connections that break
          Boot,                \* "builder" of what restore_all_sessions builds
          NoClient, NoRow, NoNative

Sessions == Claude \cup Claw
Clients == (Requests \cup {Boot}) \X (1..2) \X Sessions
Natives == Requests \cup Claude

ASSUME ClientSessionAssumption ==
  /\ MaxRestarts \in Nat
  /\ MaxLosses \in Nat
  /\ Boot \notin Requests
  /\ Requests \cap Sessions = {}
  /\ Claude \cap Claw = {}
  /\ Restored \subseteq Claude
  /\ NoClient \notin Clients \cup Sessions
  /\ NoNative \notin Natives
  /\ NoRow \notin Natives \cup {NoNative}

VARIABLES
  reg,       \* _sessions: the client of each session
  row,       \* orch_sessions: the native_sid column, or NoRow
  native,    \* client.native_sid
  link,      \* of a claw client: connecting, up, down (running is False), stopped
  stale,     \* claw clients marked stale
  req,       \* the handler of each request, with its locals
  restarts, losses,
  \* history variables:
  open,      \* claude turns whose tick was started and not completed
  accepted,  \* messages the gateway took
  twins,     \* sessions with two clients in use at some moment
  halted,    \* claude turns whose client was stopped under them
  unsaved    \* claude clients whose last on_native_sid failed

vars == <<reg, row, native, link, stale, req, restarts, losses, open, accepted,
          twins, halted, unsaved>>
claw == <<link, stale, losses, accepted>>
claude == <<native, open, halted, unsaved>>

NewRequest ==
  [op |-> "none", s |-> NoClient, pc |-> "idle", client |-> NoClient,
   insert |-> FALSE, resume |-> FALSE, sid |-> NoNative, before |-> {}]

Over == {"done", "sent", "failed", "dead", "cancelled"}
At(r, pc) == req[r].pc = pc
Live(r) == req[r].pc \notin {"idle"} \cup Over

(* A handler that is over keeps what names it.                              *)
Ended(as, pc) ==
  [NewRequest EXCEPT !.op = as.op, !.s = as.s, !.client = as.client, !.pc = pc]
Goto(r, pc) ==
  req' = [req EXCEPT ![r] = IF pc \in Over THEN Ended(@, pc) ELSE [@ EXCEPT !.pc = pc]]
ClientOf(c, s) == c \in Clients /\ c[3] = s
Up(c) == link[c] = "up"

(* INSERT OR IGNORE                                                         *)
InsertRow(s, sid) == row' = [row EXCEPT ![s] = IF @ = NoRow THEN sid ELSE @]

(* What restore_all_sessions has just made of the rows of an earlier        *)
(* process, those of claude sessions that have had a turn.                 *)
Init ==
  /\ reg = [s \in Sessions |-> IF s \in Restored THEN <<Boot, 1, s>> ELSE NoClient]
  /\ row = [s \in Sessions |-> IF s \in Restored THEN s ELSE NoRow]
  /\ native = [c \in Clients |-> IF c \in {<<Boot, 1, s>> : s \in Restored} THEN c[3]
                                 ELSE NoNative]
  /\ link = [c \in Clients |-> "none"]
  /\ req = [r \in Requests |-> NewRequest]
  /\ restarts = 0 /\ losses = 0
  /\ stale = {} /\ open = {} /\ accepted = {} /\ twins = {} /\ halted = {}
  /\ unsaved = {}

Asks(r, op, s) == [NewRequest EXCEPT !.op = op, !.s = s]
Arrive(r, as) ==
  /\ At(r, "idle")
  /\ req' = [req EXCEPT ![r] = IF as.pc \in Over THEN Ended(as, as.pc) ELSE as]

(* s has another client, in use or still being built, or the row of another *)
(* session of its name.                                                    *)
MarkTwins(r, s) ==
  twins' = IF \/ reg[s] # NoClient
              \/ \E q \in Requests \ {r} : req[q].s = s /\ req[q].pc \in {"build", "child"}
              \/ req[r].op = "fork" /\ req[r].pc = "child" /\ row[s] # NoRow
              \/ \E q \in Requests \ ({r} \cup req[r].before) :
                   ClientOf(req[q].client, s)
           THEN twins \cup {s} ELSE twins
-------------------------------------------------------------------------------
(* claude-code                                                              *)

(* What a request goes on with once it has a client: a turn decides here,   *)
(* before it waits for anything, whether it asks to resume.                *)
WithClient(as, c, sid, ask) ==
  [as EXCEPT !.client = c,
             !.resume = ask \/ sid # NoNative,
             !.before = IF as.op = "fork" THEN @ ELSE {},
             !.pc = CASE as.op = "turn" -> "tick"
                      [] as.op = "fork" -> "forking"
                      [] OTHER -> "done"]

(* Nobody has the id of a session whose creation has not been answered.     *)
Known(s) == \A q \in Requests : ~(req[q].op = "create" /\ req[q].s = s /\ Live(q))

(* create_session, for a fresh id.                                          *)
CreateClaude(r, s) ==
  /\ reg[s] = NoClient /\ row[s] = NoRow
  /\ \A q \in Requests : req[q].s # s    \* a fresh uuid
  /\ Arrive(r, [Asks(r, "create", s) EXCEPT !.pc = "build", !.insert = TRUE])
  /\ UNCHANGED <<reg, row, restarts, twins, claw, claude>>

(* trigger_turn, archive (a turn as well), fork and spawn ask               *)
(* _ensure_client: the registry, else a client rebuilt from the row.       *)
UseClaude(r, s, op, ask) ==
  /\ Known(s)
  /\ reg[s] # NoClient \/ row[s] # NoRow
  /\ LET as == [Asks(r, op, s) EXCEPT !.before = {q \in Requests : req[q].pc \in Over}] IN
     Arrive(r, IF reg[s] # NoClient
               THEN WithClient(as, reg[s], native[reg[s]], ask)
               ELSE [as EXCEPT !.pc = "build", !.sid = row[s], !.resume = ask])
  /\ UNCHANGED <<reg, row, restarts, twins, claw, claude>>

(* _create_claude waits for the observe connection, then it is registered.  *)
ClaudeBuilt(r) ==
  LET s == req[r].s
      c == <<r, 1, s>> IN
  /\ At(r, "build")
  /\ native' = [native EXCEPT ![c] = req[r].sid]
  /\ reg' = [reg EXCEPT ![s] = c]
  /\ MarkTwins(r, s)
  /\ IF req[r].insert THEN InsertRow(s, NoNative) ELSE UNCHANGED row
  /\ req' = [req EXCEPT ![r] = LET as == WithClient(@, c, @.sid, @.resume) IN
                               IF as.pc = "done" THEN Ended(as, "done") ELSE as]
  /\ UNCHANGED <<restarts, open, halted, unsaved, claw>>

(* turn() emits tick_started and leaves the rest to a task.                 *)
TickStarted(r) ==
  /\ At(r, "tick")
  /\ Goto(r, "queued")
  /\ open' = open \cup {r}
  /\ UNCHANGED <<reg, row, restarts, twins, native, halted, unsaved, claw>>

Spawn(r) ==
  LET c == req[r].client IN
  /\ At(r, "queued")
  /\ req' = [req EXCEPT ![r].pc = "running",
                        ![r].sid = IF req[r].resume /\ native[c] # NoNative
                                   THEN native[c] ELSE r]
  /\ UNCHANGED <<reg, row, restarts, twins, claw, claude>>

SpawnUnlocked(r) == Spawn(r)    \* mutated form of SpawnLocked: no _turn_lock

(* Under the client's _turn_lock: resume the native session, or, when none  *)
(* was asked for or known, create one.                                     *)
SpawnLocked(r) ==
  /\ \A q \in Requests : ~(At(q, "running") /\ req[q].client = req[r].client)
  /\ Spawn(r)

ResultNotSaved(r) ==    \* mutated form of ResultArrives: the callback is not wired
  /\ At(r, "running")
  /\ native' = [native EXCEPT ![req[r].client] = req[r].sid]
  /\ open' = open \ {r}
  /\ Goto(r, "done")
  /\ UNCHANGED <<reg, row, restarts, twins, halted, unsaved, claw>>

(* update_native_sid is an UPDATE.  When on_native_sid fails, the client has *)
(* taken the id already and goes on.                                       *)
RowTakes(s, sid, c) ==
  \/ /\ row' = [row EXCEPT ![s] = IF @ = NoRow THEN @ ELSE sid]
     /\ unsaved' = unsaved \ {c}
  \/ /\ unsaved' = unsaved \cup {c}
     /\ UNCHANGED row

(* The result event closes the tick and carries the native session, which   *)
(* the client keeps and on_native_sid writes to the row, if it is news.    *)
ResultArrives(r) ==
  LET c == req[r].client
      sid == req[r].sid IN
  /\ At(r, "running")
  /\ native' = [native EXCEPT ![c] = sid]
  /\ IF native[c] # sid THEN RowTakes(req[r].s, sid, c) ELSE UNCHANGED <<row, unsaved>>
  /\ open' = open \ {r}
  /\ Goto(r, "done")
  /\ UNCHANGED <<reg, restarts, twins, halted, claw>>

DiesSilently(r) ==    \* mutated form of ProcessDies: no tick_completed in finally
  /\ At(r, "running")
  /\ Goto(r, "failed")
  /\ UNCHANGED <<reg, row, restarts, twins, claw, claude>>

(* The process ends without a result, times out or cannot start: the        *)
(* finally block closes the tick.                                          *)
ProcessDies(r) ==
  /\ At(r, "running")
  /\ open' = open \ {r}
  /\ Goto(r, "failed")
  /\ UNCHANGED <<reg, row, restarts, twins, native, halted, unsaved, claw>>

(* fork() ran its own process; the new id is the one the caller named or    *)
(* the one captured, and is registered unless a client has it already.     *)
ForkEnds(r, child) ==
  /\ At(r, "forking")
  /\ Known(child)
  /\ IF reg[child] # NoClient THEN Goto(r, "failed")
     ELSE req' = [req EXCEPT ![r].pc = "child", ![r].s = child, ![r].client = NoClient]
  /\ UNCHANGED <<reg, row, restarts, twins, claw, claude>>

ForkFails(r) ==
  /\ At(r, "forking")
  /\ Goto(r, "failed")
  /\ UNCHANGED <<reg, row, restarts, twins, claw, claude>>

ChildBuilt(r) ==
  LET s == req[r].s
      c == <<r, 2, s>> IN
  /\ At(r, "child")
  /\ native' = [native EXCEPT ![c] = s]
  /\ reg' = [reg EXCEPT ![s] = c]
  /\ MarkTwins(r, s)
  /\ InsertRow(s, s)
  /\ Goto(r, "done")
  /\ UNCHANGED <<restarts, open, halted, unsaved, claw>>

(* delete() removes the transcript, then stop() cancels every turn task: a   *)
(* running one closes its tick on the way out, a queued one never began.   *)
(* A transcript that cannot be removed leaves the client as it is.         *)
DeleteClaude(r, s) ==
  LET mine(pc) == {q \in Requests : At(q, pc) /\ req[q].client = reg[s]} IN
  /\ reg[s] # NoClient
  /\ At(r, "idle")
  /\ reg' = [reg EXCEPT ![s] = NoClient]
  /\ \E stop \in {{}, mine("running") \cup mine("queued")} :
       /\ req' = [q \in Requests |->
                    IF q = r THEN [Asks(r, "delete", s) EXCEPT !.pc = "deleting"]
                    ELSE IF q \in stop THEN Ended(req[q], "cancelled") ELSE req[q]]
       /\ open' = open \ (stop \cap mine("running"))
       /\ halted' = halted \cup (stop \cap mine("queued"))
  /\ UNCHANGED <<row, native, restarts, twins, unsaved, claw>>
-------------------------------------------------------------------------------
(* claw                                                                     *)

(* start_background: the client is there, its connection is not yet.        *)
Connecting(c) == link' = [link EXCEPT ![c] = "connecting"]

(* create_session: the id is the gateway's key.  A registered client is     *)
(* kept unless its connection has ended.                                   *)
CreateClaw(r, s) ==
  LET c == <<r, 1, s>> IN
  /\ reg[s] # NoClient => link[reg[s]] = "down"
  /\ Arrive(r, [Asks(r, "create", s) EXCEPT !.pc = "done"])
  /\ Connecting(c)
  /\ reg' = [reg EXCEPT ![s] = c]
  /\ InsertRow(s, NoNative)
  /\ UNCHANGED <<restarts, twins, stale, losses, accepted, claude>>

(* _reconnect_claw takes the entry out, makes a client and waits for it;    *)
(* the client it replaces is not stopped.                                  *)
Reconnect(r, as, c, wait) ==
  /\ Arrive(r, [as EXCEPT !.pc = wait, !.client = c, !.insert = (row[as.s] = NoRow)])
  /\ reg' = [reg EXCEPT ![as.s] = NoClient]

(* send_message returns without a word when its client is not running.      *)
Sending(as, c) ==
  [as EXCEPT !.client = c,
             !.pc = CASE Up(c) -> "send"
                      [] ~Up(c) /\ c \in stale -> "failed"
                      [] OTHER -> "sent"]

TurnClawBlindly(r, s) ==    \* mutated form of TurnClaw: any registered client will do
  /\ reg[s] # NoClient
  /\ Arrive(r, Sending(Asks(r, "turn", s), reg[s]))
  /\ UNCHANGED <<reg, row, restarts, twins, claw, claude>>

TurnClaw(r, s) ==
  LET as == Asks(r, "turn", s) IN
  /\ IF reg[s] # NoClient /\ Up(reg[s]) /\ reg[s] \notin stale
     THEN /\ Arrive(r, Sending(as, reg[s]))
          /\ UNCHANGED <<reg, link>>
     ELSE IF reg[s] = NoClient /\ row[s] # NoRow
     THEN \* _ensure_client makes one, not connected yet: it is replaced at once
          /\ Reconnect(r, as, <<r, 2, s>>, "poll")
          /\ link' = [link EXCEPT ![<<r, 1, s>>] = "connecting",
                                  ![<<r, 2, s>>] = "connecting"]
     ELSE \* without a row, too, it is _ensure_client that reconnects
          /\ Reconnect(r, as, <<r, 1, s>>, IF reg[s] = NoClient THEN "ensure" ELSE "poll")
          /\ Connecting(<<r, 1, s>>)
  /\ UNCHANGED <<row, restarts, twins, stale, losses, accepted, claude>>

(* archive_session asks _ensure_client too, but never reconnects: a client  *)
(* that is not running is a 503.                                           *)
ArchiveClaw(r, s) ==
  LET as == Asks(r, "archive", s) IN
  /\ IF reg[s] # NoClient
     THEN /\ Arrive(r, IF Up(reg[s]) THEN Sending(as, reg[s])
                       ELSE [as EXCEPT !.pc = "failed"])
          /\ UNCHANGED <<reg, link>>
     ELSE IF row[s] # NoRow
     THEN /\ Arrive(r, [as EXCEPT !.pc = "failed"])
          /\ Connecting(<<r, 1, s>>)
          /\ reg' = [reg EXCEPT ![s] = <<r, 1, s>>]
     ELSE /\ Reconnect(r, as, <<r, 1, s>>, "poll")
          /\ Connecting(<<r, 1, s>>)
  /\ UNCHANGED <<row, restarts, twins, stale, losses, accepted, claude>>

ReconnectClaw(r, s) ==
  /\ Reconnect(r, Asks(r, "reconnect", s), <<r, 1, s>>, "poll")
  /\ Connecting(<<r, 1, s>>)
  /\ UNCHANGED <<row, restarts, twins, stale, losses, accepted, claude>>

(* The wait of a turn in _ensure_client ends.  A client that is not running  *)
(* by then is not used: the turn reconnects once more.                     *)
EnsureEnds(r) ==
  LET s == req[r].s
      c == req[r].client
      next == <<r, 2, s>> IN
  /\ At(r, "ensure")
  /\ IF req[r].insert THEN InsertRow(s, NoNative) ELSE UNCHANGED row
  /\ \/ /\ Up(c)
        /\ reg' = [reg EXCEPT ![s] = c]
        /\ Goto(r, "send")
        /\ UNCHANGED link
     \/ /\ ~Up(c)
        /\ reg' = [reg EXCEPT ![s] = NoClient]
        /\ Connecting(next)
        /\ req' = [req EXCEPT ![r].pc = "poll", ![r].client = next, ![r].insert = FALSE]
  /\ UNCHANGED <<restarts, twins, stale, losses, accepted, claude>>

(* The wait ends when the client is up, or after two seconds anyway; it is  *)
(* registered in both cases.  A turn (or an archive) that finds it not      *)
(* running fails with 503.                                                 *)
PollEnds(r) ==
  LET s == req[r].s
      c == req[r].client IN
  /\ At(r, "poll")
  /\ reg' = [reg EXCEPT ![s] = c]
  /\ IF req[r].insert THEN InsertRow(s, NoNative) ELSE UNCHANGED row
  /\ Goto(r, IF req[r].op = "reconnect" THEN "done" ELSE IF Up(c) THEN "send" ELSE "failed")
  /\ UNCHANGED <<restarts, twins, claw, claude>>

(* sessions.send is answered; a client marked stale meanwhile, by this turn *)
(* or another, makes it a 503.                                             *)
SendAccepted(r) ==
  /\ At(r, "send")
  /\ Up(req[r].client)
  /\ accepted' = accepted \cup {r}
  /\ Goto(r, IF req[r].client \in stale /\ req[r].op = "turn" THEN "failed" ELSE "sent")
  /\ UNCHANGED <<reg, row, restarts, twins, link, stale, losses, claude>>

(* Refused, or not answered for 15 seconds, in which case the gateway may   *)
(* have taken it: _fail_turn marks the client stale.  An archive does not   *)
(* look.                                                                   *)
SendFails(r) ==
  /\ At(r, "send")
  /\ stale' = stale \cup {req[r].client}
  /\ \E took \in {{}, {r}} : accepted' = accepted \cup took
  /\ Goto(r, IF req[r].op = "turn" THEN "failed" ELSE "sent")
  /\ UNCHANGED <<reg, row, restarts, twins, link, losses, claude>>

(* delete() of a client that is not running returns without stopping it;    *)
(* otherwise the gateway is asked first.                                   *)
DeleteClaw(r, s) ==
  /\ reg[s] # NoClient
  /\ Arrive(r, [Asks(r, "delete", s) EXCEPT
                  !.client = reg[s],
                  !.pc = IF Up(reg[s]) THEN "rpc" ELSE "deleting"])
  /\ reg' = [reg EXCEPT ![s] = NoClient]
  /\ UNCHANGED <<row, restarts, twins, claw, claude>>

DeleteAnswered(r) ==
  /\ At(r, "rpc")
  /\ Goto(r, "deleting")
  /\ \E ok \in BOOLEAN :
       link' = IF ok THEN [link EXCEPT ![req[r].client] = "stopped"] ELSE link
  /\ UNCHANGED <<reg, row, restarts, twins, stale, losses, accepted, claude>>

(* What becomes of the connection of a client that was replaced, nobody sees. *)
Referenced(c) ==
  \/ \E s \in Sessions : reg[s] = c
  \/ \E r \in Requests : Live(r) /\ req[r].client = c

Connected(c) ==
  /\ link[c] = "connecting"
  /\ Referenced(c)
  /\ link' = [link EXCEPT ![c] = "up"]
  /\ UNCHANGED <<reg, row, req, restarts, twins, stale, losses, accepted, claude>>

(* The handshake fails, or an open connection breaks: connect() is over and *)
(* nothing reconnects this client.                                         *)
LinkLost(c) ==
  /\ losses < MaxLosses
  /\ link[c] \in {"connecting", "up"}
  /\ Referenced(c)
  /\ losses' = losses + 1
  /\ link' = [link EXCEPT ![c] = "down"]
  /\ UNCHANGED <<reg, row, req, restarts, twins, stale, accepted, claude>>
-------------------------------------------------------------------------------
(* both                                                                     *)

(* A row without a client: the row goes, there is nothing to stop.          *)
DeleteOrphan(r, s) ==
  /\ reg[s] = NoClient
  /\ row[s] # NoRow
  /\ Arrive(r, [Asks(r, "delete", s) EXCEPT !.pc = "done"])
  /\ row' = [row EXCEPT ![s] = NoRow]
  /\ UNCHANGED <<reg, restarts, twins, claw, claude>>

(* observe has been told; the row goes last.                                *)
RowDeleted(r) ==
  /\ At(r, "deleting")
  /\ row' = [row EXCEPT ![req[r].s] = NoRow]
  /\ Goto(r, "done")
  /\ UNCHANGED <<reg, restarts, twins, claw, claude>>

(* The process stops and restore_all_sessions rebuilds a client per row,    *)
(* save those whose rebuilding raises.                                     *)
Restart ==
  /\ restarts < MaxRestarts
  /\ restarts' = restarts + 1
  /\ req' = [r \in Requests |->
               IF Live(r) THEN [NewRequest EXCEPT !.pc = "dead"]
               ELSE IF At(r, "sent") THEN [NewRequest EXCEPT !.pc = "sent", !.op = req[r].op]
               ELSE [NewRequest EXCEPT !.pc = IF At(r, "idle") THEN @ ELSE "done"]]
  /\ \E up \in SUBSET {s \in Sessions : row[s] # NoRow} :
       /\ reg' = [s \in Sessions |-> IF s \in up THEN <<Boot, 1, s>> ELSE NoClient]
       /\ native' = [c \in Clients |->
                       IF c[1] = Boot /\ c[2] = 1 /\ c[3] \in up THEN row[c[3]]
                       ELSE NoNative]
       /\ link' = [c \in Clients |->
                     IF c \in {<<Boot, 1, s>> : s \in up \cap Claw} THEN "connecting"
                     ELSE "none"]
  /\ stale' = {} /\ twins' = {} /\ open' = {} /\ halted' = {} /\ unsaved' = {}
  /\ UNCHANGED <<row, losses, accepted>>

Arrival(r) ==
  \/ \E s \in Claude :
       \/ CreateClaude(r, s) \/ DeleteClaude(r, s)
       \/ \E ask \in BOOLEAN : UseClaude(r, s, "turn", ask)
       \/ \E op \in {"fork", "spawn"} : UseClaude(r, s, op, FALSE)
  \/ \E s \in Claw :
       \/ CreateClaw(r, s) \/ TurnClaw(r, s) \/ ArchiveClaw(r, s)
       \/ ReconnectClaw(r, s) \/ DeleteClaw(r, s)
  \/ \E s \in Sessions : DeleteOrphan(r, s)

Step(r) ==
  \/ ClaudeBuilt(r) \/ TickStarted(r) \/ SpawnLocked(r) \/ ResultArrives(r)
  \/ ProcessDies(r) \/ ForkFails(r) \/ ChildBuilt(r)
  \/ \E child \in Claude : ForkEnds(r, child)
  \/ EnsureEnds(r) \/ PollEnds(r) \/ SendAccepted(r) \/ SendFails(r) \/ DeleteAnswered(r)
  \/ RowDeleted(r)

Next ==
  \/ \E r \in Requests : Arrival(r) \/ Step(r)
  \/ \E c \in Clients : Connected(c) \/ LinkLost(c)
  \/ Restart

Spec == Init /\ [][Next]_vars
-------------------------------------------------------------------------------
(* A turn answered "sent" was taken by the gateway, whatever became of its   *)
(* client and whoever reconnected it meanwhile.                            *)
SentMeansAccepted ==
  \A r \in Requests : At(r, "sent") /\ req[r].op = "turn" => r \in accepted

(* Two claude processes never work on one native session at a time, unless  *)
(* its orchestrator session had two clients.                               *)
OneTurnPerNative ==
  \A q, r \in Requests :
    /\ q # r
    /\ At(q, "running") /\ At(r, "running")
    /\ req[q].s \notin twins
    => req[q].sid # req[r].sid

(* As long as a session has one client, the row knows its native session:   *)
(* a restart resumes the conversation the client would have resumed.  The    *)
(* exception is a client whose on_native_sid failed, which nothing makes up  *)
(* for until the native session changes again.                             *)
NativeRecorded ==
  \A s \in Claude \ twins :
    /\ reg[s] \in Clients \ unsaved
    /\ row[s] # NoRow
    => row[s] = native[reg[s]]

(* Every tick that was started is completed, by the result or by the finally *)
(* block; one stays open only if its client was stopped while it waited.   *)
TickOpenOnlyIfHalted ==
  \A r \in open : ~Live(r) => r \in halted
================================================================================
