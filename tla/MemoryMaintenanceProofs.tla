------------------------- MODULE MemoryMaintenanceProofs -------------------------
(***************************************************************************)
(* Theorems about MemoryMaintenance for any agents, memories, requests and  *)
(* writers, any thresholds and any number of failures.                     *)
(***************************************************************************)
EXTENDS MemoryMaintenance, TLAPS

Chain == {"prune", "forget", "migrate", "anchor"}
Tier == {"extract", "consolidate", "tierEnd"}
Points == {"idle", "each", "go", "done", "read", "bump", "all", "tiers"} \cup Chain \cup Tier
Known == Agents \cup Orphans
Process ==
  [pc : Points, todo : SUBSET Known, agent : Known \cup {Nobody}, seen : Nat,
   batch : SUBSET Items, force : BOOLEAN]

(* The poll never stands where a handler stands, nor a handler where it does. *)
TypeInv ==
  /\ max \in Nat /\ watermark \in Nat /\ foreign \in Nat
  /\ watermark <= max
  /\ proc \in [Processes -> Process]
  /\ proc["watch"].seen <= max
  /\ \A r \in Requests : proc[r].pc \in {"idle", "each", "go", "done"} \cup Chain

(* Who holds a lock, and will read MAX(updated_at) again before it is released. *)
Locked(p) == proc[p].pc \in Chain \cup Tier
LockInv == \A a \in locks : \E p \in Processes : proc[p].agent = a /\ Locked(p)

(* The poll has agents left to look at, each of which it locks, defers or    *)
(* passes over because another holds its lock.                             *)
WillLook ==
  \/ proc["watch"].pc \in {"all", "each"}
  \/ At("watch", "tiers") /\ proc["watch"].todo # {}

(* A change that is maintenance's own is still behind somebody's next anchor. *)
(* A poll that has no agent to look at anchors nothing.                     *)
QuietInv ==
  Agents # {} /\ Changed /\ foreign <= watermark => WillLook \/ \E p \in Processes : Locked(p)

(* The writes the clock owes are found by the next read of the poll.        *)
OwedInv ==
  \A w \in owed :
    /\ w \in Nat \ {0} /\ w <= max
    /\ \/ proc["watch"].pc \in {"idle", "read"} /\ w > watermark
       \/ At("watch", "bump") /\ w <= proc["watch"].seen

(* One coroutine moves, from what it was to q.                              *)
Moves(p, q) ==
  /\ p \in Processes /\ q \in Process
  /\ proc' = [proc EXCEPT ![p] = q]
  /\ p = "watch" \/ q.pc \in {"idle", "each", "go", "done"} \cup Chain

LEMMA Watching ==
  /\ "watch" \in Processes /\ "watch" \notin Requests
  /\ \A r \in Requests : r \in Processes /\ r # "watch"
  /\ \A p \in Processes : p \in Requests \/ p = "watch"
BY MemoryMaintenanceAssumption DEF Processes

LEMMA Moved ==
  ASSUME TypeInv, NEW p, NEW q, Moves(p, q)
  PROVE  /\ proc'[p] = q /\ \A x \in Processes \ {p} : proc'[x] = proc[x]
         /\ proc' \in [Processes -> Process]
         /\ \A r \in Requests : proc'[r].pc \in {"idle", "each", "go", "done"} \cup Chain
<1>1. /\ proc'[p] = q /\ \A x \in Processes \ {p} : proc'[x] = proc[x]
      /\ proc' \in [Processes -> Process]
  BY DEF Moves, TypeInv
<1>2. ASSUME NEW r \in Requests
      PROVE  proc'[r].pc \in {"idle", "each", "go", "done"} \cup Chain
  <2>1. CASE r = p
    BY <1>1, <2>1, Watching DEF Moves
  <2>2. CASE r # p
    BY <1>1, <2>2, Watching DEF TypeInv
  <2> QED
    BY <2>1, <2>2
<1> QED
  BY <1>1, <1>2

(* A lock is given up by its holder only, and taken by one that runs.       *)
LEMMA LockKept ==
  ASSUME TypeInv, LockInv, NEW p, NEW q, Moves(p, q),
         \A a \in locks' : \/ q.pc \in Chain \cup Tier /\ q.agent = a
                           \/ a \in locks /\ (Locked(p) => proc[p].agent # a)
  PROVE  LockInv'
<1>1. /\ proc'[p] = q /\ \A x \in Processes \ {p} : proc'[x] = proc[x]
      /\ p \in Processes
  BY Moved DEF Moves
<1>2. ASSUME NEW a \in locks'
      PROVE  \E x \in Processes : proc'[x].agent = a /\ proc'[x].pc \in Chain \cup Tier
  <2>1. CASE q.pc \in Chain \cup Tier /\ q.agent = a
    BY <1>1, <2>1
  <2>2. CASE a \in locks /\ (Locked(p) => proc[p].agent # a)
    <3>1. PICK x \in Processes : proc[x].agent = a /\ Locked(x)
      BY <2>2 DEF LockInv
    <3>2. x # p
      BY <2>2, <3>1
    <3> QED
      BY <1>1, <3>1, <3>2 DEF Locked
  <2> QED
    BY <2>1, <2>2
<1> QED
  BY <1>2 DEF LockInv, Locked

(* A step after which nothing is changed behind the watermark, or after     *)
(* which somebody has still to look, or which leaves those who have to.     *)
LEMMA QuietKept ==
  ASSUME TypeInv, QuietInv, NEW p, NEW q, Moves(p, q),
         \/ Changed' /\ foreign' <= watermark' => q.pc \in Chain \cup Tier \/ WillLook'
         \/ /\ UNCHANGED <<max, watermark, foreign>>
            /\ ~Locked(p)
            /\ Agents # {} /\ WillLook => WillLook' \/ \E x \in Processes \ {p} : Locked(x)
  PROVE  QuietInv'
<1>1. /\ proc'[p] = q /\ \A x \in Processes \ {p} : proc'[x] = proc[x]
      /\ p \in Processes
  BY Moved DEF Moves
<1>2. CASE Changed' /\ foreign' <= watermark' => q.pc \in Chain \cup Tier \/ WillLook'
  BY <1>1, <1>2 DEF QuietInv, Locked
<1>3. CASE /\ UNCHANGED <<max, watermark, foreign>>
           /\ ~Locked(p)
           /\ Agents # {} /\ WillLook => WillLook' \/ \E x \in Processes \ {p} : Locked(x)
  <2> SUFFICES ASSUME Agents # {}, Changed', foreign' <= watermark'
               PROVE  WillLook' \/ \E x \in Processes : Locked(x)'
    BY DEF QuietInv
  <2>1. Changed /\ foreign <= watermark
    BY <1>3 DEF Changed
  <2>2. WillLook' \/ \E x \in Processes \ {p} : Locked(x)
    BY <1>3, <2>1 DEF QuietInv
  <2>3. \A x \in Processes \ {p} : Locked(x) => Locked(x)'
    BY <1>1 DEF Locked
  <2> QED
    BY <2>2, <2>3
<1> QED
  BY <1>2, <1>3

(* Nobody owes the clock anything while the poll is past its read.          *)
LEMMA OwedKept ==
  ASSUME TypeInv, OwedInv, owed' \subseteq owed, max <= max', max' \in Nat,
         \/ proc'["watch"] = proc["watch"] /\ (watermark' = watermark \/ owed' = {})
         \/ owed = {}
         \/ /\ proc["watch"].pc \in {"idle", "read"} /\ proc'["watch"].pc = "read"
            /\ watermark' = watermark
  PROVE  OwedInv'
<1> SUFFICES ASSUME NEW w \in owed'
             PROVE  /\ w \in Nat \ {0} /\ w <= max'
                    /\ \/ proc'["watch"].pc \in {"idle", "read"} /\ w > watermark'
                       \/ proc'["watch"].pc = "bump" /\ w <= proc'["watch"].seen
  BY DEF OwedInv, At
<1>1. /\ w \in owed /\ w \in Nat \ {0} /\ w <= max
      /\ \/ proc["watch"].pc \in {"idle", "read"} /\ w > watermark
         \/ proc["watch"].pc = "bump" /\ w <= proc["watch"].seen
  BY DEF OwedInv, At
<1>2. w <= max'
  BY <1>1 DEF TypeInv
<1> QED
  BY <1>1, <1>2

LEMMA NothingOwed ==
  ASSUME OwedInv, proc["watch"].pc \notin {"idle", "read", "bump"}
  PROVE  owed = {}
BY DEF OwedInv, At

Inv == TypeInv /\ LockInv /\ QuietInv /\ OwedInv

LEMMA TypeKept ==
  ASSUME TypeInv, NEW p, NEW q, Moves(p, q), max' \in Nat, max <= max',
         watermark' \in Nat, watermark' <= max', foreign' \in Nat,
         p = "watch" => q.seen <= max'
  PROVE  TypeInv'
<1>1. proc'["watch"].seen <= max'
  <2>1. CASE p = "watch"
    BY <2>1, Moved
  <2>2. CASE p # "watch"
    <3>1. proc'["watch"].seen = proc["watch"].seen
      BY <2>2, Moved, Watching
    <3>2. proc["watch"].seen \in Nat /\ proc["watch"].seen <= max /\ max \in Nat
      BY Watching DEF TypeInv, Process
    <3> QED
      BY <3>1, <3>2
  <2> QED
    BY <2>1, <2>2
<1> QED
  BY <1>1, Moved DEF TypeInv

(* A step between two awaits that writes nothing and holds no lock.         *)
LEMMA PlainMove ==
  ASSUME Inv, NEW p, NEW q, Moves(p, q),
         UNCHANGED <<max, watermark, foreign, locks, owed>>,
         ~Locked(p),
         Agents # {} /\ WillLook => WillLook' \/ \E x \in Processes \ {p} : Locked(x),
         p = "watch" => q.seen <= max /\ (owed = {} \/ (At(p, "idle") /\ q.pc = "read"))
  PROVE  Inv'
<1> USE DEF Inv
<1>1. TypeInv'
  BY TypeKept DEF TypeInv
<1>2. LockInv'
  BY LockKept
<1>3. QuietInv'
  BY QuietKept
<1>4. OwedInv'
  <2>1. proc'["watch"] = IF p = "watch" THEN q ELSE proc["watch"]
    BY Moved, Watching
  <2>2. max \in Nat /\ max <= max' /\ max' \in Nat
    BY DEF TypeInv
  <2> QED
    BY <2>1, <2>2, OwedKept DEF At
<1> QED
  BY <1>1, <1>2, <1>3, <1>4

(* The same for a handler, which the poll's place does not depend on.       *)
LEMMA HandlerMove ==
  ASSUME Inv, NEW r \in Requests, NEW q \in Process,
         proc' = [proc EXCEPT ![r] = q], q.pc \in {"idle", "each", "go", "done"},
         UNCHANGED <<max, watermark, foreign, locks, owed>>,
         proc[r].pc \notin Chain
  PROVE  Inv'
<1>1. Moves(r, q) /\ r # "watch"
  BY Watching DEF Moves
<1>2. proc'["watch"] = proc["watch"]
  BY <1>1, Moved, Watching DEF Inv
<1>3. WillLook' = WillLook
  BY <1>2 DEF WillLook, At
<1>4. ~Locked(r)
  BY DEF Inv, TypeInv, Locked, Chain, Tier
<1> QED
  BY <1>1, <1>3, <1>4, PlainMove
-----------------------------------------------------------------------------
(* The chain                                                                *)

LEMMA StageStep ==
  ASSUME Inv, NEW p \in Processes, Stage(p)
  PROVE  Inv'
<1> DEFINE next == CASE At(p, "prune") -> "forget"
                     [] At(p, "forget") -> "migrate"
                     [] OTHER -> "anchor"
           q == [proc[p] EXCEPT !.pc = next]
<1>1. proc[p].pc \in Chain /\ proc[p] \in Process
  BY DEF Stage, Chain, Inv, TypeInv
<1>2. /\ q \in Process /\ q.pc \in Chain /\ q.agent = proc[p].agent
      /\ q.seen = proc[p].seen
  <2>1. next \in Chain
    BY DEF Chain
  <2> HIDE DEF next
  <2> QED
    BY <1>1, <2>1 DEF Process, Points
<1>3. proc' = [proc EXCEPT ![p] = q]
  BY DEF Stage, Goto
<1>4. UNCHANGED <<watermark, foreign, locks, owed>>
  BY DEF Stage, idling
<1> HIDE DEF q
<1>5. Moves(p, q)
  BY <1>2, <1>3 DEF Moves
<1>6. max' \in Nat /\ max <= max' /\ watermark <= max'
  BY DEF Stage, MayWrite, Inv, TypeInv
<1>7. TypeInv'
  <2>1. p = "watch" => q.seen <= max'
    BY <1>1, <1>2, <1>6 DEF Inv, TypeInv, Process
  <2> QED
    BY <1>4, <1>5, <1>6, <2>1, TypeKept DEF Inv, TypeInv
<1>8. LockInv'
  BY <1>2, <1>4, <1>5, LockKept DEF Inv
<1>9. QuietInv'
  BY <1>2, <1>5, QuietKept DEF Inv
<1>10. OwedInv'
  <2>1. p # "watch" => proc'["watch"] = proc["watch"]
    BY <1>5, Moved, Watching DEF Inv
  <2>2. p = "watch" => owed = {}
    BY <1>1, NothingOwed DEF Inv, Chain
  <2> QED
    BY <1>4, <1>6, <2>1, <2>2, OwedKept DEF Inv
<1> QED
  BY <1>7, <1>8, <1>9, <1>10 DEF Inv

LEMMA ChainEndStep ==
  ASSUME Inv, NEW p \in Processes, ChainEnd(p)
  PROVE  Inv'
<1> DEFINE q == [proc[p] EXCEPT !.pc = "each", !.agent = Nobody]
<1>1. proc[p].pc \in Chain /\ proc[p] \in Process
  BY DEF ChainEnd, At, Chain, Inv, TypeInv
<1>2. q \in Process /\ q.pc = "each" /\ q.seen = proc[p].seen
  BY <1>1 DEF Process, Points
<1>3. proc' = [proc EXCEPT ![p] = q]
  BY DEF ChainEnd
<1>4. /\ UNCHANGED <<max, foreign>> /\ watermark' = max
      /\ locks' = locks \ {proc[p].agent}
      /\ owed' = IF p = "watch" THEN owed ELSE {}
  BY DEF ChainEnd, Anchor
<1> HIDE DEF q
<1>5. Moves(p, q)
  BY <1>2, <1>3 DEF Moves
<1>6. TypeInv'
  <2>1. p = "watch" => q.seen <= max
    BY <1>2 DEF Inv, TypeInv
  <2> QED
    BY <1>4, <1>5, <2>1, TypeKept DEF Inv, TypeInv
<1>7. LockInv'
  BY <1>4, <1>5, LockKept DEF Inv
<1>8. QuietInv'
  BY <1>4 DEF QuietInv, Changed, Inv, TypeInv
<1>9. OwedInv'
  <2>1. p = "watch" => owed = {}
    BY <1>1, NothingOwed DEF Inv, Chain
  <2> QED
    BY <1>4, <2>1 DEF OwedInv
<1> QED
  BY <1>6, <1>7, <1>8, <1>9 DEF Inv

(* An agent is skipped if its lock is held, by one that will read again.    *)
LEMMA ChainStartStep ==
  ASSUME Inv, NEW p \in Processes, NEW a \in Known \cup {Nobody}, ChainStart(p, a),
         proc[p].pc \in {"each", "go"},
         UNCHANGED <<max, watermark, foreign, owed>>
  PROVE  Inv'
<1>1. proc[p] \in Process /\ ~Locked(p)
  BY DEF Inv, TypeInv, Locked, Chain, Tier
<1>2. p = "watch" => owed = {} /\ proc[p].seen <= max
  BY NothingOwed DEF Inv, TypeInv
<1>3. CASE a \in locks
  <2> DEFINE q == [proc[p] EXCEPT !.pc = "each", !.todo = @ \ {a}]
  <2>1. q \in Process /\ q.pc = "each" /\ q.seen = proc[p].seen
    BY <1>1 DEF Process, Points
  <2>2. proc' = [proc EXCEPT ![p] = q] /\ UNCHANGED locks
    BY <1>3 DEF ChainStart
  <2> HIDE DEF q
  <2>3. Moves(p, q)
    BY <2>1, <2>2 DEF Moves
  <2>4. \E x \in Processes \ {p} : Locked(x)
    BY <1>1, <1>3 DEF Inv, LockInv
  <2> QED
    BY <1>1, <1>2, <2>1, <2>2, <2>3, <2>4, PlainMove
<1>4. CASE a \notin locks
  <2> DEFINE q == [proc[p] EXCEPT !.pc = "prune", !.todo = @ \ {a}, !.agent = a]
  <2>1. q \in Process /\ q.pc \in Chain /\ q.seen = proc[p].seen /\ q.agent = a
    BY <1>1 DEF Process, Points, Chain
  <2>2. proc' = [proc EXCEPT ![p] = q] /\ locks' = locks \cup {a}
    BY <1>4 DEF ChainStart
  <2> HIDE DEF q
  <2>3. Moves(p, q)
    BY <2>1, <2>2 DEF Moves
  <2>4. TypeInv'
    BY <1>2, <2>1, <2>3, TypeKept DEF Inv, TypeInv
  <2>5. LockInv'
    BY <1>1, <2>1, <2>2, <2>3, LockKept DEF Inv
  <2>6. QuietInv'
    BY <2>1, <2>3, QuietKept DEF Inv
  <2>7. OwedInv'
    <3>1. p # "watch" => proc'["watch"] = proc["watch"]
      BY <2>3, Moved, Watching DEF Inv
    <3> QED
      BY <1>2, <3>1, OwedKept DEF Inv, TypeInv
  <2> QED
    BY <2>4, <2>5, <2>6, <2>7 DEF Inv
<1> QED
  BY <1>3, <1>4
-----------------------------------------------------------------------------
(* /notify                                                                  *)

LEMMA NotifyStep ==
  ASSUME Inv, NEW r \in Requests,
         \/ Serve(r)
         \/ \E force \in BOOLEAN, todo \in SUBSET Known : NotifyArrives(r, todo, force)
  PROVE  Inv'
<1>1. r \in Processes /\ proc[r] \in Process /\ r # "watch"
  BY Watching DEF Inv, TypeInv
<1>2. ASSUME NEW force \in BOOLEAN, NEW todo \in SUBSET Known,
             NotifyArrives(r, todo, force)
      PROVE  Inv'
  <2> DEFINE q == [proc[r] EXCEPT !.pc = "each", !.todo = todo, !.force = force]
  <2>1. q \in Process /\ q.pc = "each"
    BY <1>1 DEF Process, Points
  <2>2. /\ proc' = [proc EXCEPT ![r] = q] /\ proc[r].pc = "idle"
        /\ UNCHANGED <<max, watermark, foreign, locks, owed>>
    BY <1>2 DEF NotifyArrives, At, idling
  <2> QED
    BY <2>1, <2>2, HandlerMove DEF Chain
<1>3. ASSUME NEW a \in Known, NotifyAsks(r, a) PROVE Inv'
  <2> DEFINE q == IF proc[r].force \/ Changed
                  THEN [proc[r] EXCEPT !.pc = "go", !.agent = a]
                  ELSE [proc[r] EXCEPT !.todo = @ \ {a}]
  <2>1. /\ proc' = [proc EXCEPT ![r] = q] /\ proc[r].pc = "each"
        /\ UNCHANGED <<max, watermark, foreign, locks, owed>>
    BY <1>3 DEF NotifyAsks, At, idling
  <2>2. q \in Process /\ q.pc \in {"each", "go"}
    BY <1>1, <2>1 DEF Process, Points
  <2> QED
    BY <2>1, <2>2, HandlerMove DEF Chain
<1>4. CASE NotifyGoes(r)
  <2>1. proc[r].agent \in Known \cup {Nobody}
    BY <1>1 DEF Process
  <2> QED
    BY <1>1, <1>4, <2>1, ChainStartStep DEF NotifyGoes, At, idling
<1>5. CASE NotifyDone(r)
  <2> DEFINE q == [Idle EXCEPT !.pc = "done"]
  <2>1. q \in Process /\ q.pc = "done"
    BY DEF Process, Points, Idle
  <2>2. /\ proc' = [proc EXCEPT ![r] = q] /\ proc[r].pc = "each"
        /\ UNCHANGED <<max, watermark, foreign, locks, owed>>
    BY <1>5 DEF NotifyDone, At, idling
  <2> QED
    BY <2>1, <2>2, HandlerMove DEF Chain
<1> QED
  BY <1>1, <1>2, <1>3, <1>4, <1>5, StageStep, ChainEndStep DEF Serve, Known
-----------------------------------------------------------------------------
(* The poll                                                                 *)

LEMMA PollAgentStep ==
  ASSUME Inv, NEW a \in Known, PollAgent(a)
  PROVE  Inv'
BY ChainStartStep, Watching DEF PollAgent, At, idling

LEMMA WatchMove ==
  ASSUME Inv, NEW q \in Process, proc' = [proc EXCEPT !["watch"] = q]
  PROVE  Moves("watch", q) /\ proc'["watch"] = q
  BY Watching, Moved DEF Moves, Inv

LEMMA PollMoves ==
  ASSUME Inv,
         \/ Wake \/ IdleAgents \/ PollEnds \/ \E a \in Known : IdleSkips(a)
  PROVE  Inv'
<1> DEFINE w == proc["watch"]
<1>1. w \in Process /\ w.seen <= max
  BY Watching DEF Inv, TypeInv
<1>2. CASE Wake
  <2> DEFINE q == [w EXCEPT !.pc = "read"]
  <2>1. q \in Process /\ q.pc = "read" /\ q.seen = w.seen
    BY <1>1 DEF Process, Points
  <2>2. /\ proc' = [proc EXCEPT !["watch"] = q] /\ w.pc = "idle"
        /\ UNCHANGED <<max, watermark, foreign, locks, owed>>
    BY <1>2 DEF Wake, At, Goto
  <2>3. ~Locked("watch") /\ ~WillLook
    BY <2>2 DEF Locked, WillLook, Chain, Tier, At
  <2> QED
    BY <1>1, <2>1, <2>2, <2>3, WatchMove, PlainMove DEF At
<1>3. CASE IdleAgents
  <2> DEFINE q == [w EXCEPT !.pc = "tiers",
                      !.todo = Agents \cup {a \in Orphans : Pending(a) # {}}]
  <2>1. /\ q \in Process /\ q.pc = "tiers" /\ q.seen = w.seen
        /\ (Agents # {} => q.todo # {})
    BY <1>1 DEF Process, Points, Known
  <2>2. /\ proc' = [proc EXCEPT !["watch"] = q] /\ w.pc \in {"all", "each"}
        /\ UNCHANGED <<max, watermark, foreign, locks, owed>>
    BY <1>3 DEF IdleAgents, idling
  <2> HIDE DEF q
  <2>3. ~Locked("watch") /\ owed = {}
    BY <2>2, NothingOwed DEF Locked, Chain, Tier, Inv
  <2>4. Agents # {} => WillLook'
    BY <2>1, <2>2, WatchMove DEF WillLook, At
  <2> QED
    BY <1>1, <2>1, <2>2, <2>3, <2>4, WatchMove, PlainMove
<1>4. CASE PollEnds
  <2>1. Idle \in Process /\ Idle.seen = 0
    BY DEF Process, Points, Idle
  <2>2. /\ proc' = [proc EXCEPT !["watch"] = Idle] /\ w.pc = "tiers" /\ w.todo = {}
        /\ UNCHANGED <<max, watermark, foreign, locks, owed>>
    BY <1>4 DEF PollEnds, idling, At
  <2>3. ~Locked("watch") /\ owed = {} /\ ~WillLook
    BY <2>2, NothingOwed DEF Locked, Chain, Tier, Inv, WillLook, At
  <2>4. 0 <= max
    BY DEF Inv, TypeInv
  <2> QED
    BY <2>1, <2>2, <2>3, <2>4, WatchMove, PlainMove
<1>5. ASSUME NEW a \in Known, IdleSkips(a) PROVE Inv'
  <2> DEFINE q == [w EXCEPT !.todo = @ \ {a}]
  <2>1. /\ proc' = [proc EXCEPT !["watch"] = q] /\ w.pc = "tiers" /\ a \in locks
        /\ UNCHANGED <<max, watermark, foreign, locks, owed>>
    BY <1>5 DEF IdleSkips, idling, At
  <2>2. q \in Process /\ q.seen = w.seen
    BY <1>1 DEF Process
  <2> HIDE DEF q
  <2>3. ~Locked("watch") /\ owed = {}
    BY <2>1, NothingOwed DEF Locked, Chain, Tier, Inv
  <2>4. \E x \in Processes \ {"watch"} : Locked(x)
    BY <2>1, <2>3 DEF Inv, LockInv
  <2> QED
    BY <1>1, <2>1, <2>2, <2>3, <2>4, WatchMove, PlainMove
<1> QED
  BY <1>2, <1>3, <1>4, <1>5

(* What the read found is behind the clock when it is started again.        *)
LEMMA ReadMoves ==
  ASSUME Inv, ReadMax \/ BumpWriteClock
  PROVE  Inv'
<1> DEFINE w == proc["watch"]
<1>1. w \in Process /\ w.seen <= max /\ max \in Nat /\ "watch" \in Processes
  BY Watching DEF Inv, TypeInv
<1>2. CASE ReadMax
  <2> DEFINE n == IF Changed THEN max ELSE 0
             q == [w EXCEPT !.pc = "bump", !.seen = n]
  <2>1. n \in Nat /\ n <= max
    BY <1>1
  <2>2. q \in Process /\ q.pc = "bump" /\ q.seen = n
    BY <1>1, <2>1 DEF Process, Points
  <2>3. /\ proc' = [proc EXCEPT !["watch"] = q] /\ w.pc = "read"
        /\ UNCHANGED <<max, watermark, foreign, locks, owed>>
    BY <1>2 DEF ReadMax, At, idling
  <2> HIDE DEF q
  <2>4. Moves("watch", q) /\ proc'["watch"] = q
    BY <2>2, <2>3, WatchMove
  <2>5. ~Locked("watch") /\ ~WillLook
    BY <2>3 DEF Locked, WillLook, Chain, Tier, At
  <2>6. TypeInv'
    BY <2>1, <2>2, <2>3, <2>4, TypeKept DEF Inv, TypeInv
  <2>7. LockInv'
    BY <2>3, <2>4, <2>5, LockKept DEF Inv
  <2>8. QuietInv'
    BY <2>3, <2>4, <2>5, QuietKept DEF Inv
  <2>9. OwedInv'
    <3>1. \A u \in owed : u \in Nat \ {0} /\ u <= max /\ u > watermark
      BY <2>3 DEF Inv, OwedInv, At
    <3>2. \A u \in owed : u <= n
      BY <3>1 DEF Changed, Inv, TypeInv
    <3> QED
      BY <2>2, <2>3, <2>4, <3>1, <3>2 DEF OwedInv, At
  <2> QED
    BY <2>6, <2>7, <2>8, <2>9 DEF Inv
<1>3. CASE BumpWriteClock /\ w.seen = 0
  <2> DEFINE q == [w EXCEPT !.pc = "all"]
  <2>1. q \in Process /\ q.pc = "all" /\ q.seen = w.seen
    BY <1>1 DEF Process, Points
  <2>2. /\ proc' = [proc EXCEPT !["watch"] = q] /\ w.pc = "bump"
        /\ UNCHANGED <<max, watermark, foreign, locks, owed>>
    BY <1>3 DEF BumpWriteClock, At, Goto
  <2>3. ~Locked("watch") /\ ~WillLook
    BY <2>2 DEF Locked, WillLook, Chain, Tier, At
  <2>4. owed = {}
    <3>1. \A u \in owed : u \in Nat \ {0} /\ u <= 0
      BY <1>3, <2>2 DEF Inv, OwedInv, At
    <3> QED
      BY <3>1
  <2> QED
    BY <1>1, <2>1, <2>2, <2>3, <2>4, WatchMove, PlainMove
<1>4. CASE BumpWriteClock /\ w.seen # 0
  <2> DEFINE q == [w EXCEPT !.pc = "each", !.todo = Agents, !.seen = 0]
  <2>1. q \in Process /\ q.pc = "each" /\ q.seen = 0
    BY <1>1 DEF Process, Points, Known
  <2>2. /\ proc' = [proc EXCEPT !["watch"] = q] /\ w.pc = "bump"
        /\ watermark' = w.seen /\ owed' = {x \in owed : x > w.seen}
        /\ UNCHANGED <<max, foreign, locks>>
    BY <1>4 DEF BumpWriteClock, BumpClock, RestartIdle, At
  <2> HIDE DEF q
  <2>3. Moves("watch", q) /\ proc'["watch"] = q
    BY <2>1, <2>2, WatchMove
  <2>4. ~Locked("watch") /\ WillLook'
    BY <2>1, <2>2, <2>3 DEF Locked, WillLook, Chain, Tier, At
  <2>5. TypeInv'
    BY <1>1, <2>1, <2>2, <2>3, TypeKept DEF Inv, TypeInv, Process
  <2>6. LockInv'
    BY <2>2, <2>3, <2>4, LockKept DEF Inv
  <2>7. QuietInv'
    BY <2>3, <2>4, QuietKept DEF Inv
  <2>8. OwedInv'
    <3>1. \A u \in owed : u \in Nat /\ u <= w.seen
      BY <2>2 DEF Inv, OwedInv, At
    <3>2. w.seen \in Nat
      BY <1>1 DEF Process
    <3>3. owed' = {}
      BY <2>2, <3>1, <3>2
    <3> QED
      BY <3>3 DEF OwedInv
  <2> QED
    BY <2>5, <2>6, <2>7, <2>8 DEF Inv
<1> QED
  BY <1>2, <1>3, <1>4

(* An agent whose memories would change is put off, the others are worked on. *)
LEMMA TierMoves ==
  ASSUME Inv, NEW a \in Known, IdleDefers(a) \/ TierStarts(a)
  PROVE  Inv'
<1> DEFINE w == proc["watch"]
<1>1. w \in Process /\ w.seen <= max /\ max \in Nat /\ w.pc = "tiers"
  BY Watching DEF Inv, TypeInv, IdleDefers, TierStarts, At
<1>2. owed = {} /\ ~Locked("watch")
  BY <1>1, NothingOwed DEF Inv, Locked, Chain, Tier
<1>3. CASE IdleDefers(a)
  <2> DEFINE q == [w EXCEPT !.todo = @ \ {a}]
  <2>1. q \in Process /\ q.seen = w.seen
    BY <1>1 DEF Process
  <2>2. /\ proc' = [proc EXCEPT !["watch"] = q]
        /\ watermark' = max /\ owed' = {} /\ UNCHANGED <<max, foreign, locks>>
    BY <1>2, <1>3 DEF IdleDefers, BumpClock, RestartIdle
  <2> HIDE DEF q
  <2>3. Moves("watch", q)
    BY <2>1, <2>2, WatchMove
  <2>4. TypeInv'
    BY <1>1, <2>1, <2>2, <2>3, TypeKept DEF Inv, TypeInv
  <2>5. LockInv'
    BY <1>2, <2>2, <2>3, LockKept DEF Inv
  <2>6. QuietInv' /\ OwedInv'
    BY <1>1, <2>2 DEF QuietInv, Changed, OwedInv
  <2> QED
    BY <2>4, <2>5, <2>6 DEF Inv
<1>4. CASE TierStarts(a)
  <2>1. PICK b \in SUBSET Items :
          proc' = [proc EXCEPT
            !["watch"].pc = IF Extracts(a) THEN "extract" ELSE "consolidate",
            !["watch"].todo = @ \ {a}, !["watch"].agent = a, !["watch"].batch = b]
    BY <1>4 DEF TierStarts, Batches, Pending
  <2> DEFINE q == [w EXCEPT !.pc = IF Extracts(a) THEN "extract" ELSE "consolidate",
                            !.todo = @ \ {a}, !.agent = a, !.batch = b]
  <2>2. q \in Process /\ q.pc \in Tier /\ q.agent = a /\ q.seen = w.seen
    BY <1>1 DEF Process, Points, Tier
  <2>3. proc' = [proc EXCEPT !["watch"] = q]
    BY <2>1
  <2>4. locks' = locks \cup {a} /\ UNCHANGED <<max, watermark, foreign, owed>>
    BY <1>4 DEF TierStarts, idling
  <2> HIDE DEF q
  <2>5. Moves("watch", q)
    BY <2>2, <2>3, WatchMove
  <2>6. TypeInv'
    BY <1>1, <2>2, <2>4, <2>5, TypeKept DEF Inv, TypeInv
  <2>7. LockInv'
    BY <1>2, <2>2, <2>4, <2>5, LockKept DEF Inv
  <2>8. QuietInv'
    BY <2>2, <2>5, QuietKept DEF Inv
  <2>9. OwedInv'
    BY <1>2, <2>4 DEF OwedInv
  <2> QED
    BY <2>6, <2>7, <2>8, <2>9 DEF Inv
<1> QED
  BY <1>3, <1>4

(* While it holds the lock of an agent, the poll may write.                 *)
LEMMA AgentMoves ==
  ASSUME Inv, (\E i \in Items : Ingested(i)) \/ ExtractEnds \/ Consolidate
  PROVE  Inv'
<1> DEFINE w == proc["watch"]
<1>1. w \in Process /\ w.seen <= max /\ max \in Nat
  BY Watching DEF Inv, TypeInv
<1>2. w.pc \in Tier
  BY DEF Ingested, ExtractEnds, Consolidate, At, Tier
<1>3. owed = {}
  BY <1>2, NothingOwed DEF Inv, Tier
<1>4. /\ max' \in {max, max + 1}
      /\ UNCHANGED <<watermark, foreign, locks, owed>>
  BY DEF Ingested, ExtractEnds, Consolidate, MayWrite, idling
<1>5. \E q \in Process : /\ proc' = [proc EXCEPT !["watch"] = q]
                         /\ q.pc \in Tier /\ q.agent = w.agent /\ q.seen = w.seen
  <2>1. ASSUME NEW i \in Items, Ingested(i)
        PROVE  \E q \in Process : /\ proc' = [proc EXCEPT !["watch"] = q]
                                  /\ q.pc \in Tier /\ q.agent = w.agent /\ q.seen = w.seen
    <3> DEFINE q == [w EXCEPT !.batch = @ \ {i}]
    <3>1. q \in Process /\ q.pc = w.pc /\ q.agent = w.agent /\ q.seen = w.seen
      BY <1>1 DEF Process
    <3>2. proc' = [proc EXCEPT !["watch"] = q]
      BY <2>1 DEF Ingested
    <3> QED
      BY <1>2, <3>1, <3>2
  <2>2. ASSUME NEW pc \in Tier, Goto("watch", pc)
        PROVE  \E q \in Process : /\ proc' = [proc EXCEPT !["watch"] = q]
                                  /\ q.pc \in Tier /\ q.agent = w.agent /\ q.seen = w.seen
    <3> DEFINE q == [w EXCEPT !.pc = pc]
    <3>1. q \in Process /\ q.pc = pc /\ q.agent = w.agent /\ q.seen = w.seen
      BY <1>1 DEF Process, Points
    <3>2. proc' = [proc EXCEPT !["watch"] = q]
      BY <2>2 DEF Goto
    <3> QED
      BY <3>1, <3>2
  <2> QED
    BY <2>1, <2>2 DEF ExtractEnds, Consolidate, Tier
<1>6. PICK q \in Process : /\ proc' = [proc EXCEPT !["watch"] = q]
                           /\ q.pc \in Tier /\ q.agent = w.agent /\ q.seen = w.seen
  BY <1>5
<1>7. Moves("watch", q)
  BY <1>6, WatchMove
<1>8. TypeInv'
  <2>1. q.seen <= max' /\ max' \in Nat /\ max <= max' /\ watermark <= max'
    BY <1>1, <1>4, <1>6 DEF Inv, TypeInv, Process
  <2> QED
    BY <1>4, <1>7, <2>1, TypeKept DEF Inv, TypeInv
<1>9. LockInv'
  BY <1>4, <1>6, <1>7, LockKept DEF Inv
<1>10. QuietInv'
  BY <1>6, <1>7, QuietKept DEF Inv
<1>11. OwedInv'
  BY <1>3, <1>4 DEF OwedInv
<1> QED
  BY <1>8, <1>9, <1>10, <1>11 DEF Inv

LEMMA TierEndsStep ==
  ASSUME Inv, TierEnds
  PROVE  Inv'
<1> DEFINE w == proc["watch"]
           q == [w EXCEPT !.pc = "tiers", !.agent = Nobody]
<1>1. w \in Process /\ w.seen <= max /\ max \in Nat /\ w.pc = "tierEnd"
  BY Watching DEF Inv, TypeInv, TierEnds, At
<1>2. q \in Process /\ q.seen = w.seen
  BY <1>1 DEF Process, Points
<1>3. /\ proc' = [proc EXCEPT !["watch"] = q]
      /\ locks' = locks \ {w.agent} /\ watermark' = max
      /\ UNCHANGED <<max, foreign, owed>>
  BY DEF TierEnds, Anchor, idling
<1> HIDE DEF q
<1>4. Moves("watch", q)
  BY <1>2, <1>3, WatchMove
<1>5. TypeInv'
  BY <1>1, <1>2, <1>3, <1>4, TypeKept DEF Inv, TypeInv
<1>6. LockInv'
  BY <1>3, <1>4, LockKept DEF Inv
<1>7. QuietInv'
  BY <1>1, <1>3 DEF QuietInv, Changed
<1>8. OwedInv'
  BY <1>1, <1>3, NothingOwed DEF OwedInv, Inv
<1> QED
  BY <1>5, <1>6, <1>7, <1>8 DEF Inv

(* Other writers: what they write is foreign, and the clock owes it if      *)
(* nobody ran who might see it.                                            *)
LEMMA OtherWrites ==
  ASSUME Inv, SweepWrites \/ \E i \in Items : ExternalWrite(i)
  PROVE  Inv'
<1>1. /\ max' = max + 1 /\ foreign' = max + 1
      /\ UNCHANGED <<watermark, locks, proc>>
      /\ owed' = owed \/ (Calm /\ owed' = owed \cup {max + 1})
  BY DEF SweepWrites, ExternalWrite, idling
<1>2. max \in Nat /\ watermark \in Nat /\ watermark <= max
  BY DEF Inv, TypeInv
<1>3. TypeInv'
  <2>1. proc["watch"].seen \in Nat /\ proc["watch"].seen <= max
    BY Watching DEF Inv, TypeInv, Process
  <2> QED
    BY <1>1, <1>2, <2>1 DEF Inv, TypeInv
<1>4. LockInv'
  BY <1>1 DEF Inv, LockInv, Locked
<1>5. QuietInv'
  BY <1>1, <1>2 DEF QuietInv
<1>6. OwedInv'
  <2>1. \A u \in owed : u \in Nat \ {0} /\ u <= max + 1
    BY <1>2 DEF Inv, OwedInv
  <2>2. CASE owed' = owed
    BY <1>1, <2>1, <2>2 DEF Inv, OwedInv, At
  <2>3. CASE Calm /\ owed' = owed \cup {max + 1}
    <3>1. proc["watch"].pc = "idle" /\ max + 1 \in Nat \ {0} /\ max + 1 > watermark
      BY <1>2, <2>3 DEF Calm, At
    <3> QED
      BY <1>1, <2>1, <2>3, <3>1 DEF Inv, OwedInv, At
  <2> QED
    BY <1>1, <2>2, <2>3
<1> QED
  BY <1>3, <1>4, <1>5, <1>6 DEF Inv
-----------------------------------------------------------------------------
LEMMA InvStarts ==
  ASSUME Init
  PROVE  Inv
<1>1. \A p \in Processes : proc[p] = Idle
  BY DEF Init
<1>2. Idle \in Process /\ Idle.pc = "idle" /\ Idle.seen = 0
  BY DEF Idle, Process, Points
<1>3. proc = [p \in Processes |-> Idle]
  BY DEF Init
<1>4. TypeInv
  BY <1>1, <1>2, <1>3, Watching DEF Init, TypeInv
<1>5. LockInv /\ QuietInv /\ OwedInv
  BY DEF Init, LockInv, QuietInv, Changed, OwedInv
<1> QED
  BY <1>4, <1>5 DEF Inv

LEMMA InvStep ==
  ASSUME Inv, [Next]_vars
  PROVE  Inv'
<1>1. CASE UNCHANGED vars
  BY <1>1 DEF vars, Inv, TypeInv, LockInv, Locked, QuietInv, WillLook, Changed, OwedInv, At
<1>2. CASE Watch
  BY <1>2, PollMoves, ReadMoves, TierMoves, AgentMoves, TierEndsStep, PollAgentStep,
     StageStep, ChainEndStep, Watching DEF Watch, Known
<1>3. ASSUME NEW r \in Requests, Serve(r) PROVE Inv'
  BY <1>3, NotifyStep
<1>4. ASSUME NEW r \in Requests, NEW force \in BOOLEAN,
             NEW todo \in {Agents} \cup {{a} : a \in Known}, NotifyArrives(r, todo, force)
      PROVE  Inv'
  <2>1. todo \in SUBSET Known
    BY DEF Known
  <2> QED
    BY <1>4, <2>1, NotifyStep
<1> QED
  BY <1>1, <1>2, <1>3, <1>4, OtherWrites DEF Next, Known

(* Maintenance never wakes itself: when nothing runs, a change the next poll *)
(* will find is somebody else's. An agent must be registered: a poll that   *)
(* has nobody to look at leaves what a /notify wrote while it read.         *)
THEOREM OwnWritesAreQuiet ==
  ASSUME Agents # {}
  PROVE  Spec => []OwnWritesQuiet
<1>1. Inv => OwnWritesQuiet
  <2> SUFFICES ASSUME Inv, Calm, Changed PROVE foreign > watermark
    BY DEF OwnWritesQuiet
  <2>1. ~WillLook
    BY DEF Calm, At, WillLook
  <2>2. \A p \in Processes : ~Locked(p)
    BY Watching DEF Calm, At, Locked, Chain, Tier
  <2> QED
    BY <2>1, <2>2 DEF Inv, QuietInv, TypeInv
<1> QED
  BY <1>1, InvStarts, InvStep, PTL DEF Spec

(* An extraction starts only when the clock has counted every write that was *)
(* made while nothing ran, whatever a /notify or a sweep did meanwhile.     *)
THEOREM ExtractionIsDebounced == Spec => DebounceHolds
<1>1. Inv /\ [Next]_vars
      => [proc'["watch"].batch \ proc["watch"].batch # {} => owed = {}]_vars
  <2> SUFFICES ASSUME Inv, Next, owed # {}
               PROVE  proc'["watch"].batch \subseteq proc["watch"].batch
    OBVIOUS
  <2>1. proc["watch"].pc \in {"idle", "read", "bump"}
    BY NothingOwed DEF Inv
  <2>2. proc \in [Processes -> Process] /\ proc["watch"] \in Process
    BY Watching DEF Inv, TypeInv
  <2>3. CASE Watch
    <3>1. Wake \/ ReadMax \/ BumpWriteClock
      BY <2>1, <2>3 DEF Watch, IdleAgents, PollEnds, Stage, ChainEnd, PollAgent, IdleSkips,
         IdleDefers, TierStarts, Ingested, ExtractEnds, Consolidate, TierEnds, At
    <3>2. CASE Wake \/ ReadMax
      BY <2>2, <3>2 DEF Wake, ReadMax, Goto, Process
    <3>3. CASE BumpWriteClock
      BY <2>2, <3>3 DEF BumpWriteClock, Goto, Process
    <3> QED
      BY <3>1, <3>2, <3>3
  <2>4. ASSUME NEW r \in Requests, Serve(r) PROVE proc'["watch"] = proc["watch"]
    BY <2>2, <2>4, Watching
       DEF Serve, NotifyAsks, NotifyGoes, ChainStart, Stage, Goto, ChainEnd, NotifyDone
  <2>5. ASSUME NEW r \in Requests, NEW todo, NEW force, NotifyArrives(r, todo, force)
        PROVE  proc'["watch"] = proc["watch"]
    BY <2>2, <2>5, Watching DEF NotifyArrives
  <2>6. ASSUME SweepWrites \/ \E i \in Items : ExternalWrite(i)
        PROVE  proc' = proc
    BY <2>6 DEF SweepWrites, ExternalWrite
  <2> QED
    BY <2>3, <2>4, <2>5, <2>6 DEF Next
<1> QED
  BY <1>1, InvStarts, InvStep, PTL DEF Spec, DebounceHolds
=============================================================================
