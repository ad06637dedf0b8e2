--------------------------- MODULE MemoryMaintenance ---------------------------
(***************************************************************************)
(* The maintenance of the memories table (memory/db_watcher.py with the      *)
(* loops of engine.py): a poll every interval that looks for writes past a    *)
(* watermark, the chain prune, forget, migrate, the idle tiers extract and   *)
(* consolidate behind a write-idle clock, POST /memory/notify, the daily      *)
(* sweep, and the other writers of the table, processes of their own.        *)
(*                                                                         *)
(* The store runs its SQL without giving up the event loop, so a coroutine   *)
(* is interleaved where it emits an event, waits for a thread or asks the     *)
(* LLM; another process may write at any moment.  updated_at is a counter:   *)
(* only its order matters.  Time is counted in poll intervals.              *)
(***************************************************************************)
EXTENDS Integers, FiniteSets

CONSTANTS Agents,         \* registered in _state.agents
          Orphans,        \* agent ids that only own memories
          Items,          \* memories of origin AGENT that other writers add
          Owner,          \* [Items -> Agents \cup Orphans]
          Requests,       \* POST /memory/notify
          IdleThreshold, Cadence,
          BatchLimit,     \* extract_batch_limit
          MaxOwn,         \* bound on the writes of maintenance that are optional
          MaxFailures,    \* bound on the extractions that fail
          MaxSweeps,      \* bound on the writes of the daily sweep
          Nobody

ASSUME MemoryMaintenanceAssumption ==
  /\ Owner \in [Items -> Agents \cup Orphans]
  /\ Agents \cap Orphans = {}
  /\ "watch" \notin Requests
  /\ IdleThreshold \in Nat /\ Cadence \in Nat
  /\ BatchLimit \in Nat \ {0}
  /\ MaxOwn \in Nat /\ MaxFailures \in Nat /\ MaxSweeps \in Nat

Processes == Requests \cup {"watch"}

VARIABLES
  max,        \* MAX(updated_at)
  watermark,  \* _last_watermark
  age,        \* poll intervals since last_write_ts, up to IdleThreshold
  since,      \* the same since last_extract_ts of each agent, up to Cadence
  locks,      \* the agents whose lock is held
  item,       \* absent, pending, extracted
  proc,       \* the coroutines: where they are, and their locals
  own, failures, sweeps,
  \* history variables:
  owed,       \* stamps of the writes the idle clock must count, and has not
  foreign     \* the last stamp that is not maintenance's own

vars == <<max, watermark, age, since, locks, item, proc, own, failures, sweeps,
          owed, foreign>>
idling == <<age, since, item, failures, owed>>
counts == <<own, failures, sweeps>>

Idle == [pc |-> "idle", todo |-> {}, agent |-> Nobody, seen |-> 0, batch |-> {},
         force |-> FALSE]

Init ==
  /\ max = 0 /\ watermark = 0 /\ age = 0
  /\ since = [a \in Agents \cup Orphans |-> Cadence]
  /\ locks = {}
  /\ item = [i \in Items |-> "absent"]
  /\ proc = [p \in Processes |-> Idle]
  /\ own = 0 /\ failures = 0 /\ sweeps = 0
  /\ owed = {} /\ foreign = 0

At(p, pc) == proc[p].pc = pc
Goto(p, pc) == proc' = [proc EXCEPT ![p].pc = pc]
Cap(n, limit) == IF n < limit THEN n ELSE limit
Pending(a) == {i \in Items : Owner[i] = a /\ item[i] = "pending"}
Changed == max > watermark      \* has_external_changes()

(* No /notify is being served and the poll sleeps.                          *)
Calm == At("watch", "idle") /\ \A r \in Requests : proc[r].pc \in {"idle", "done"}

(* Another process, or a turn of this one, writes a memory.                 *)
ExternalWrite(i) ==
  /\ item[i] = "absent"
  /\ item' = [item EXCEPT ![i] = "pending"]
  /\ max' = max + 1
  /\ foreign' = max'
  /\ owed' = IF Calm THEN owed \cup {max'} ELSE owed
  /\ UNCHANGED <<watermark, age, since, locks, proc, counts>>

(* A stage finds something to write, or nothing.                            *)
MayWrite ==
  \/ UNCHANGED <<max, own>>
  \/ own < MaxOwn /\ own' = own + 1 /\ max' = max + 1

NoAnchor == UNCHANGED watermark    \* mutated form of Anchor

(* The post-stage re-read of MAX(updated_at).                               *)
Anchor == watermark' = max
-------------------------------------------------------------------------------
(* The chain: run_maintenance, for the poll and for /notify                 *)

(* The lock is tested and taken without a pause; when it is held the agent   *)
(* is skipped.                                                             *)
ChainStart(p, a) ==
  IF a \in locks
  THEN /\ proc' = [proc EXCEPT ![p].pc = "each", ![p].todo = @ \ {a}]
       /\ UNCHANGED locks
  ELSE /\ proc' = [proc EXCEPT ![p].pc = "prune", ![p].todo = @ \ {a}, ![p].agent = a]
       /\ locks' = locks \cup {a}

(* Each stage does its work at once and then sends its event; one that       *)
(* raises is passed over.                                                  *)
Stage(p) ==
  /\ proc[p].pc \in {"prune", "forget", "migrate"}
  /\ MayWrite
  /\ Goto(p, CASE At(p, "prune") -> "forget"
               [] At(p, "forget") -> "migrate"
               [] OTHER -> "anchor")
  /\ UNCHANGED <<watermark, locks, sweeps, idling, foreign>>

(* A stage of the chain of a /notify or of the poll is over; what the others *)
(* wrote meanwhile is behind the watermark too.                            *)
ChainEnd(p) ==
  /\ At(p, "anchor")
  /\ Anchor
  /\ locks' = locks \ {proc[p].agent}
  /\ owed' = IF p = "watch" THEN owed ELSE {}
  /\ proc' = [proc EXCEPT ![p].pc = "each", ![p].agent = Nobody]
  /\ UNCHANGED <<max, age, since, item, counts, foreign>>

(* run_once_all of the poll.                                                *)
PollAgent(a) ==
  /\ At("watch", "each")
  /\ a \in proc["watch"].todo
  /\ ChainStart("watch", a)
  /\ UNCHANGED <<max, watermark, idling, own, sweeps, foreign>>

NotifyArrives(r, todo, force) ==
  /\ At(r, "idle")
  /\ proc' = [proc EXCEPT ![r].pc = "each", ![r].todo = todo, ![r].force = force]
  /\ UNCHANGED <<max, watermark, locks, idling, own, sweeps, foreign>>

(* has_external_changes is asked in a thread, unless force is set.          *)
NotifyAsks(r, a) ==
  /\ At(r, "each")
  /\ a \in proc[r].todo
  /\ proc' = IF proc[r].force \/ Changed
             THEN [proc EXCEPT ![r].pc = "go", ![r].agent = a]
             ELSE [proc EXCEPT ![r].todo = @ \ {a}]
  /\ UNCHANGED <<max, watermark, locks, idling, own, sweeps, foreign>>

NotifyGoes(r) ==
  /\ At(r, "go")
  /\ ChainStart(r, proc[r].agent)
  /\ UNCHANGED <<max, watermark, idling, own, sweeps, foreign>>

NotifyDone(r) ==
  /\ At(r, "each") /\ proc[r].todo = {}
  /\ proc' = [proc EXCEPT ![r] = [Idle EXCEPT !.pc = "done"]]
  /\ UNCHANGED <<max, watermark, locks, idling, own, sweeps, foreign>>

(* _sweep_loop runs the same stages for every agent once a day.  It takes no *)
(* lock and sets no watermark: what it writes is all that is seen of it.    *)
SweepWrites ==
  /\ sweeps < MaxSweeps
  /\ sweeps' = sweeps + 1
  /\ max' = max + 1
  /\ foreign' = max'
  /\ UNCHANGED <<watermark, locks, proc, idling, own>>
-------------------------------------------------------------------------------
(* The poll: _watch_loop and run_idle_maintenance                           *)

(* A poll interval has passed.                                              *)
Wake ==
  /\ At("watch", "idle")
  /\ Goto("watch", "read")
  /\ age' = Cap(age + 1, IdleThreshold)
  /\ since' = [a \in DOMAIN since |-> Cap(since[a] + 1, Cadence)]
  /\ UNCHANGED <<max, watermark, locks, item, counts, owed, foreign>>

(* has_external_changes, in a thread: the loop learns of it later.          *)
ReadMax ==
  /\ At("watch", "read")
  /\ proc' = [proc EXCEPT !["watch"].pc = "bump", !["watch"].seen = IF Changed THEN max ELSE 0]
  /\ UNCHANGED <<max, watermark, locks, idling, own, sweeps, foreign>>

(* last_write_ts: the idle time starts again, at a write that may be as old   *)
(* as the last poll.                                                       *)
RestartIdle(stamp) ==
  /\ \E g \in {0, 1} : age' = Cap(g, IdleThreshold)
  /\ owed' = {w \in owed : w > stamp}

BumpWithoutClock(stamp) ==    \* mutated form of BumpClock: the watermark alone
  watermark' = stamp /\ UNCHANGED <<age, owed>>

(* bump_write_clock(), and the same two lines of run_idle_maintenance.      *)
BumpClock(stamp) == watermark' = stamp /\ RestartIdle(stamp)

BumpWriteClock ==
  /\ At("watch", "bump")
  /\ IF proc["watch"].seen = 0
     THEN Goto("watch", "all") /\ UNCHANGED <<age, watermark, owed>>
     ELSE /\ BumpClock(proc["watch"].seen)
          /\ proc' = [proc EXCEPT !["watch"].pc = "each", !["watch"].todo = Agents,
                                  !["watch"].seen = 0]
  /\ UNCHANGED <<max, since, locks, item, counts, foreign>>

(* run_idle_once_all: the registered agents and the owners of a backlog.    *)
IdleAgents ==
  /\ proc["watch"].pc \in {"all", "each"} /\ proc["watch"].todo = {}
  /\ proc' = [proc EXCEPT !["watch"].pc = "tiers",
                          !["watch"].todo = Agents \cup {a \in Orphans : Pending(a) # {}}]
  /\ UNCHANGED <<max, watermark, locks, idling, own, sweeps, foreign>>

IdleSkips(a) ==
  /\ At("watch", "tiers") /\ a \in proc["watch"].todo
  /\ a \in locks
  /\ proc' = [proc EXCEPT !["watch"].todo = @ \ {a}]
  /\ UNCHANGED <<max, watermark, locks, idling, own, sweeps, foreign>>

(* A write landed since: the clock starts again.                            *)
IdleDefers(a) ==
  /\ At("watch", "tiers") /\ a \in proc["watch"].todo
  /\ a \notin locks /\ Changed
  /\ BumpClock(max)
  /\ proc' = [proc EXCEPT !["watch"].todo = @ \ {a}]
  /\ UNCHANGED <<max, since, locks, item, counts, foreign>>

(* The batch is the first BatchLimit pending memories of the agent.         *)
Batches(a) ==
  {b \in SUBSET Pending(a) : Cardinality(b) = Cap(Cardinality(Pending(a)), BatchLimit)}

Extracts(a) == age >= IdleThreshold /\ since[a] >= Cadence

TierStarts(a) ==
  /\ At("watch", "tiers") /\ a \in proc["watch"].todo
  /\ a \notin locks /\ ~Changed
  /\ locks' = locks \cup {a}
  /\ \E b \in IF Extracts(a) THEN Batches(a) ELSE {{}} :
       proc' = [proc EXCEPT !["watch"].pc = IF Extracts(a) THEN "extract" ELSE "consolidate",
                            !["watch"].todo = @ \ {a}, !["watch"].agent = a,
                            !["watch"].batch = b]
  /\ UNCHANGED <<max, watermark, idling, own, sweeps, foreign>>

(* ingest() has answered; the memory is read again and marked, unless        *)
(* either of them raised.                                                  *)
Ingested(i) ==
  /\ At("watch", "extract") /\ i \in proc["watch"].batch
  /\ proc' = [proc EXCEPT !["watch"].batch = @ \ {i}]
  /\ \/ /\ item' = [item EXCEPT ![i] = "extracted"]
        /\ max' = max + 1
        /\ UNCHANGED failures
     \/ /\ failures < MaxFailures
        /\ failures' = failures + 1
        /\ UNCHANGED <<item, max>>
  /\ UNCHANGED <<watermark, age, since, locks, own, sweeps, owed, foreign>>

CadenceOfAll(a) == [b \in DOMAIN since |-> 0]    \* mutated form of CadenceOf

CadenceOf(a) == [since EXCEPT ![a] = 0]

ExtractEnds ==
  /\ At("watch", "extract") /\ proc["watch"].batch = {}
  /\ since' = CadenceOf(proc["watch"].agent)
  /\ Goto("watch", "consolidate")
  /\ UNCHANGED <<max, watermark, age, locks, item, counts, owed, foreign>>

(* The consolidate tier, whose own cadence is left free, then the re-anchor. *)
Consolidate ==
  /\ At("watch", "consolidate")
  /\ MayWrite
  /\ Goto("watch", "tierEnd")
  /\ UNCHANGED <<watermark, locks, sweeps, idling, foreign>>

TierEnds ==
  /\ At("watch", "tierEnd")
  /\ Anchor
  /\ locks' = locks \ {proc["watch"].agent}
  /\ proc' = [proc EXCEPT !["watch"].pc = "tiers", !["watch"].agent = Nobody]
  /\ UNCHANGED <<max, idling, own, sweeps, foreign>>

PollEnds ==
  /\ At("watch", "tiers") /\ proc["watch"].todo = {}
  /\ proc' = [proc EXCEPT !["watch"] = Idle]
  /\ UNCHANGED <<max, watermark, locks, idling, own, sweeps, foreign>>
-------------------------------------------------------------------------------
Watch ==
  \/ Wake \/ ReadMax \/ BumpWriteClock \/ IdleAgents \/ PollEnds
  \/ Stage("watch") \/ ChainEnd("watch")
  \/ \E a \in Agents \cup Orphans :
       PollAgent(a) \/ IdleSkips(a) \/ IdleDefers(a) \/ TierStarts(a)
  \/ \E i \in Items : Ingested(i)
  \/ ExtractEnds \/ Consolidate \/ TierEnds

Serve(r) ==
  \/ \E a \in Agents \cup Orphans : NotifyAsks(r, a)
  \/ NotifyGoes(r) \/ Stage(r) \/ ChainEnd(r) \/ NotifyDone(r)

Next ==
  \/ Watch \/ SweepWrites
  \/ \E r \in Requests :
       \/ Serve(r)
       \/ \E force \in BOOLEAN :
            \E todo \in {Agents} \cup {{a} : a \in Agents \cup Orphans} :
              NotifyArrives(r, todo, force)
  \/ \E i \in Items : ExternalWrite(i)

(* The event loop runs the poll and the handlers; nobody has to write.      *)
Spec == Init /\ [][Next]_vars /\ WF_vars(Watch) /\ \A r \in Requests : WF_vars(Serve(r))
-------------------------------------------------------------------------------
(* The watermark contract, "avoids a perpetual maintenance loop": between     *)
(* two polls, with no /notify being served, a change the next poll will find *)
(* was made by somebody else since the watermark was set.                  *)
OwnWritesQuiet == Calm /\ Changed => foreign > watermark

(* The debounce: when memories of an agent are taken for extraction, the      *)
(* idle clock counts from every external write that was made while nothing   *)
(* ran, unless a /notify has taken its change for itself.                  *)
DebounceHolds ==
  [][proc'["watch"].batch \ proc["watch"].batch # {}
     => owed = {}]_vars

(* Every memory of an agent, registered or not, is extracted in the end,     *)
(* whatever the other agents have to extract.                              *)
AllDigested ==
  \A i \in Items : item[i] = "pending" ~> item[i] = "extracted"
================================================================================
