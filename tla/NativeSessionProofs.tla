------------------------- MODULE NativeSessionProofs -------------------------
(***************************************************************************)
(* Theorems about NativeSession for any sessions, any requests, any number *)
(* of branches, restarts and faults of the store.                          *)
(***************************************************************************)
EXTENDS NativeSession, TLAPS

Ops == {"none", "create", "turn", "fork", "delete", "archive"}
Points == {"idle", "build", "source", "branch", "fire", "task", "run", "usage",
           "deleting"} \cup Over
Requested ==
  [op : Ops, s : Sessions \cup {NoRec}, pc : Points,
   rec : Recs \cup {NoRec, Client}, seen : History, insert : BOOLEAN,
   left : 0..MaxBranches, began : History]

(* What the code after an await relies on: a request that arrived names a   *)
(* session, the record it holds is one of that session, a run has a record  *)
(* and a fork at work has a target left.                                    *)
Handler(q) ==
  /\ q \in Requested
  /\ q.pc = "idle" => q = NewRequest
  /\ q.pc # "idle" => q.s \in Sessions
  /\ q.rec \in Recs => q.rec[2] = q.s
  /\ q.pc = "run" => q.rec \in Recs
  /\ q.pc \in {"source", "branch"} => q.left \in 1..MaxBranches

TypeInv ==
  /\ TypeOK
  /\ \A r \in Requests : Handler(req[r])
  /\ \A s \in Sessions : reg[s] \in Recs => reg[s][2] = s

LEMMA NewRequestHandled == Handler(NewRequest)
BY NativeSessionAssumption DEF Handler, NewRequest, Requested, Ops, Points, History

LEMMA TypeInvInit == Init => TypeInv
<1> SUFFICES ASSUME Init PROVE TypeInv
  OBVIOUS
<1>1. \A r \in Requests : req[r] = NewRequest
  BY DEF Init
<1>2. req \in [Requests -> Requested]
  BY <1>1, NewRequestHandled DEF Init, Handler
<1> QED
  BY <1>1, <1>2, NewRequestHandled, NativeSessionAssumption
     DEF Init, TypeInv, TypeOK, Requested, Ops, Points, History

(* A step of one request: the other handlers keep their locals.             *)
LEMMA HandlersKept ==
  ASSUME TypeInv, NEW r \in Requests, NEW q, Handler(q),
         req' = [req EXCEPT ![r] = q]
  PROVE  /\ req' \in [Requests -> Requested]
         /\ \A x \in Requests : Handler(req'[x])
BY DEF TypeInv, TypeOK, Handler, Requested, Ops, Points

LEMMA GotoHandled ==
  ASSUME TypeInv, NEW r \in Requests, Live(r),
         NEW pc \in Over \cup {"task", "usage"}, Goto(r, pc)
  PROVE  /\ req' \in [Requests -> Requested]
         /\ \A x \in Requests : Handler(req'[x])
<1> DEFINE q == [req[r] EXCEPT !.pc = pc]
<1>1. Handler(req[r])
  BY DEF TypeInv
<1>2. Handler(q)
  BY <1>1 DEF Handler, Requested, Points, Over, Live
<1>3. req' = [req EXCEPT ![r] = q]
  BY DEF Goto, TypeInv, TypeOK
<1> QED
  BY <1>2, <1>3, HandlersKept

(* What an arrival reads of its session s before its first await: the       *)
(* record, the row's messages for a record to build, or nothing.            *)
Reads(s, q) ==
  /\ q.rec \in Recs => q.rec = reg[s]
  /\ \/ q.seen = {}
     \/ q.seen = Loaded(s)
     \/ reg[s] \in Recs /\ q.seen = hist[reg[s]]
  /\ q.pc = "build" /\ q.insert => q.seen = {}
  /\ q.pc \in {"build", "source"} =>
       s \notin used \/ s \in garbled \/ row[s] \in {NoRow, q.seen}
  /\ q.op = "delete" => q.pc = "deleting"

LEMMA ArrivalReads ==
  ASSUME TypeInv, NEW r \in Requests, Arrival(r)
  PROVE  \E s \in Sessions, q \in Requested :
           /\ req' = [req EXCEPT ![r] = q] /\ Handler(q) /\ q.s = s /\ Reads(s, q)
           /\ q.began = {x \in Requests : req[x].pc \in Over} /\ q.pc # "run"
           /\ req[r] = NewRequest
           /\ q.op = "delete" => reg'[s] = NoRec
           /\ used' = used \cup {s}
           /\ reg' \in {reg, [reg EXCEPT ![s] = NoRec], [reg EXCEPT ![s] = Client]}
           /\ UNCHANGED <<hist, row, garbled, tasks, restarts, faults,
                          stored, given, twins, stopped, unsaved>>
<1> USE NewRequestHandled, NativeSessionAssumption DEF Handler
<1> DEFINE reads(s, q) ==
             /\ q \in Requested /\ q.s = s /\ q.pc \notin {"idle", "run"}
             /\ q.pc \in {"source", "branch"} => q.left \in 1..MaxBranches
             /\ q.op = "delete" => reg'[s] = NoRec
             /\ Reads(s, q)
<1>1. PICK s \in Sessions :
        \/ Create(r, s)
        \/ TurnArrives(r, s)
        \/ \E n \in 1..MaxBranches : ForkArrives(r, s, n)
        \/ DeleteArrives(r, s)
        \/ Archive(r, s)
  BY DEF Arrival
<1>2. /\ Loaded(s) \in History
      /\ row[s] = NoRow => Loaded(s) = {}
      /\ s \in garbled \/ row[s] \in {NoRow, Loaded(s)}
      /\ reg[s] \in Recs \cup {NoRec, Client}
      /\ reg[s] \in Recs => hist[reg[s]] \in History /\ reg[s][2] = s
  BY DEF TypeInv, TypeOK, Loaded, History
<1>3. PICK q : reads(s, q) /\ Arrive(r, q)
  <2>1. CASE Create(r, s)
    <3> DEFINE q == [NewRequest EXCEPT !.op = "create", !.s = s, !.pc = "build",
                                       !.insert = TRUE]
    <3>1. reads(s, q)
      BY <1>2, <2>1 DEF Create, Reads, NewRequest, Requested, Ops, Points
    <3> QED
      BY <2>1, <3>1 DEF Create
  <2>2. CASE TurnArrives(r, s)
    <3>1. CASE reg[s] # NoRec
      <4> DEFINE q == [NewRequest EXCEPT !.op = "turn", !.s = s, !.pc = "fire",
                                         !.rec = reg[s]]
      <4>1. reads(s, q)
        BY <1>2 DEF Reads, NewRequest, Requested, Ops, Points
      <4> QED
        BY <2>2, <3>1, <4>1 DEF TurnArrives
    <3>2. CASE reg[s] = NoRec
      <4> DEFINE q == [NewRequest EXCEPT !.op = "turn", !.s = s, !.pc = "build",
                         !.insert = (row[s] = NoRow),
                         !.seen = Loaded(s)]
      <4>1. reads(s, q)
        BY <1>2 DEF Reads, NewRequest, Requested, Ops, Points
      <4> QED
        BY <2>2, <3>2, <4>1 DEF TurnArrives
    <3> QED
      BY <3>1, <3>2
  <2>3. ASSUME NEW n \in 1..MaxBranches, ForkArrives(r, s, n)
        PROVE  \E q : reads(s, q) /\ Arrive(r, q)
    <3> DEFINE f == [NewRequest EXCEPT !.op = "fork", !.s = s, !.left = n]
    <3>0. n \in 0..MaxBranches
      OBVIOUS
    <3>f. /\ f \in Requested /\ f.s = s /\ f.left = n /\ f.rec \notin Recs
           /\ f.op = "fork" /\ f.seen = {}
      BY <3>0 DEF NewRequest, Requested, Ops, Points
    <3>1. CASE reg[s] # NoRec
      <4> DEFINE q == [f EXCEPT !.pc = "branch", !.rec = reg[s],
                                !.seen = Messages(reg[s])]
      <4>1. \/ Messages(reg[s]) = {}
            \/ reg[s] \in Recs /\ Messages(reg[s]) = hist[reg[s]]
        BY DEF Messages
      <4>2. Messages(reg[s]) \in History
        BY <1>2, <4>1 DEF History
      <4>3. reads(s, q)
        BY <1>2, <3>f, <4>1, <4>2 DEF Reads, Requested, Points
      <4> QED
        BY <2>3, <3>1, <4>3 DEF ForkArrives
    <3>2. CASE reg[s] = NoRec
      <4> DEFINE q == [f EXCEPT !.pc = "source", !.seen = Loaded(s)]
      <4>1. row[s] # NoRow
        BY <2>3, <3>2 DEF ForkArrives
      <4>2. reads(s, q)
        BY <1>2, <3>f, <4>1 DEF Reads, Requested, Points
      <4> QED
        BY <2>3, <3>2, <4>2 DEF ForkArrives
    <3> QED
      BY <3>1, <3>2
  <2>4. CASE DeleteArrives(r, s)
    <3> DEFINE q == [NewRequest EXCEPT !.op = "delete", !.s = s, !.pc = "deleting"]
    <3>1. reads(s, q)
      BY <1>2, <2>4 DEF DeleteArrives, Reads, NewRequest, Requested, Ops, Points, TypeInv, TypeOK
    <3> QED
      BY <2>4, <3>1 DEF DeleteArrives
  <2>5. CASE Archive(r, s)
    <3> DEFINE q == [NewRequest EXCEPT !.op = "archive", !.s = s, !.pc = "failed"]
    <3>1. reads(s, q)
      BY <1>2 DEF Reads, NewRequest, Requested, Ops, Points, Over
    <3> QED
      BY <2>5, <3>1 DEF Archive
  <2> QED
    BY <1>1, <2>1, <2>2, <2>3, <2>4, <2>5
<1>4. reg' \in {reg, [reg EXCEPT ![s] = NoRec], [reg EXCEPT ![s] = Client]}
  <2>1. reg = [reg EXCEPT ![s] = reg[s]]
    BY DEF TypeInv, TypeOK
  <2>2. CASE Archive(r, s)
    BY <2>1, <2>2 DEF Archive
  <2> QED
    BY <1>1, <2>2 DEF Create, TurnArrives, ForkArrives, DeleteArrives
<1>9. UNCHANGED <<hist, row, garbled, tasks, restarts, faults,
                  stored, given, twins, stopped, unsaved>>
  BY <1>1 DEF Create, TurnArrives, ForkArrives, DeleteArrives, Archive
<1>5. req[r] = NewRequest
  BY <1>3 DEF Arrive, At, TypeInv, Handler
<1> DEFINE b == {x \in Requests : req[x].pc \in Over}
           a == [q EXCEPT !.began = b]
<1>6. /\ a \in Requested /\ a.began = b
      /\ a.s = q.s /\ a.seen = q.seen /\ a.rec = q.rec /\ a.pc = q.pc
      /\ a.insert = q.insert /\ a.op = q.op /\ a.left = q.left
  BY <1>3 DEF Requested, History
<1>8. Handler(a) /\ Reads(s, a)
  BY <1>2, <1>3, <1>6 DEF Reads
<1>7. req' = [req EXCEPT ![r] = a] /\ used' = used \cup {s}
  BY <1>3 DEF Arrive
<1> QED
  BY <1>3, <1>4, <1>5, <1>6, <1>7, <1>8, <1>9

(* The record a session gets is one of its own.                             *)
LEMMA RegisterOwn ==
  ASSUME TypeInv, NEW s \in Sessions, NEW rec \in Recs, rec[2] = s,
         reg' = [reg EXCEPT ![s] = rec]
  PROVE  /\ reg' \in [Sessions -> Recs \cup {NoRec, Client}]
         /\ \A x \in Sessions : reg'[x] \in Recs => reg'[x][2] = x
BY DEF TypeInv, TypeOK

(* The end of a run takes its history into the record, and the row takes it  *)
(* too, is missing, or keeps what it had.                                  *)
LEMMA RunEndsWrites ==
  ASSUME NEW r \in Requests, RunEnds(r)
  PROVE  LET s   == req[r].s
             rec == req[r].rec
             all == req[r].seen \cup {r} IN
         /\ req[r].pc = "run"
         /\ \E pc \in {"usage", "failed"} : Goto(r, pc)
         /\ hist' = [hist EXCEPT ![rec] = all]
         /\ \/ /\ row' = row /\ garbled' = garbled /\ unsaved' = unsaved \cup {rec}
            \/ /\ row' = [row EXCEPT ![s] = IF row[s] = NoRow THEN NoRow ELSE all]
               /\ garbled' \in {garbled \ {s}, garbled \cup {s}}
               /\ unsaved' = unsaved \ {rec}
         /\ stored' = stored \cup {r}
         /\ UNCHANGED faults \/ Fault
         /\ UNCHANGED <<reg, tasks, restarts, used, given, twins, stopped>>
BY DEF RunEnds, TakeResult, WriteHistory, SaveFails, At

LEMMA TypeInvStep ==
  ASSUME TypeInv, [Next]_vars
  PROVE  TypeInv'
<1> USE NativeSessionAssumption
<1>0. /\ \A r \in Requests : Handler(req[r]) /\ req[r] \in Requested
      /\ req \in [Requests -> Requested]
      /\ \A s \in Sessions : row[s] # NoRow => row[s] \in History
      /\ \A c \in Recs : hist[c] \in History /\ c[2] \in Sessions
      /\ \A s \in Sessions : reg[s] \in Recs \cup {NoRec, Client}
  BY DEF TypeInv, TypeOK, Handler, Requested, Ops, Points, Recs
<1>typed. ASSUME /\ req' \in [Requests -> Requested]
                 /\ \A x \in Requests : Handler(req'[x])
                 /\ reg' \in [Sessions -> Recs \cup {NoRec, Client}]
                 /\ \A x \in Sessions : reg'[x] \in Recs => reg'[x][2] = x
                 /\ hist' \in [Recs -> History]
                 /\ row' \in [Sessions -> History \cup {NoRow}]
                 /\ garbled' \subseteq Sessions /\ unsaved' \subseteq Recs
                 /\ tasks' \subseteq Requests
                 /\ restarts' \in 0..MaxRestarts /\ faults' \in 0..MaxFaults
                 /\ used' \subseteq Sessions /\ stored' \subseteq Requests
                 /\ given' \in [Sessions -> History]
                 /\ twins' \subseteq Sessions /\ stopped' \subseteq Requests
          PROVE  TypeInv'
  BY <1>typed DEF TypeInv, TypeOK, Handler, Requested, Ops, Points
<1>fault. Fault => faults' \in 0..MaxFaults
  BY DEF Fault, TypeInv, TypeOK
<1> USE DEF ghosts
<1>1. ASSUME NEW r \in Requests, Built(r) PROVE TypeInv'
  <2> DEFINE rec == <<r, req[r].s>>
             q == [req[r] EXCEPT !.rec = rec,
                     !.pc = IF req[r].op = "create" THEN "done" ELSE "fire"]
  <2>1. /\ rec \in Recs /\ rec[2] = req[r].s /\ req[r].s \in Sessions
        /\ req' = [req EXCEPT ![r] = q]
    <3>1. Handler(req[r]) /\ req[r].pc = "build"
      BY <1>0, <1>1 DEF Built, At
    <3>2. req[r].s \in Sessions
      BY <3>1 DEF Handler
    <3>3. req' = [req EXCEPT ![r] = q]
      BY <1>0, <1>1 DEF Built
    <3> QED
      BY <3>2, <3>3 DEF Recs
  <2>2. Handler(q)
    BY <1>0, <1>1, <2>1 DEF Built, Handler, Requested, Ops, Points, Over, NewRequest
  <2>3. reg' = [reg EXCEPT ![req[r].s] = rec]
    BY <1>1 DEF Built
  <2>4. hist' \in [Recs -> History] /\ row' \in [Sessions -> History \cup {NoRow}]
    <3>1. req[r].seen \in History /\ {} \in History
      BY <1>0, <1>1 DEF Handler, Requested, History
    <3>2. /\ hist' = [hist EXCEPT ![rec] = req[r].seen]
          /\ InsertRow(req[r].s) \/ row' = row
      BY <1>1 DEF Built
    <3>3. hist \in [Recs -> History] /\ row \in [Sessions -> History \cup {NoRow}]
      BY DEF TypeInv, TypeOK
    <3>4. hist' \in [Recs -> History]
      BY <2>1, <3>1, <3>2, <3>3
    <3>5. row' \in [Sessions -> History \cup {NoRow}]
      BY <2>1, <3>1, <3>2, <3>3 DEF InsertRow
    <3> QED
      BY <3>4, <3>5
  <2>5. twins' \subseteq Sessions
    BY <1>1, <2>1 DEF Built, MarkTwins, TypeInv, TypeOK
  <2>6. UNCHANGED <<garbled, tasks, restarts, faults,
                   used, stored, given, stopped, unsaved>>
    BY <1>1 DEF Built
  <2> QED
    BY <1>typed, <2>1, <2>2, <2>3, <2>4, <2>5, <2>6, HandlersKept, RegisterOwn
       DEF TypeInv, TypeOK
<1>2. ASSUME NEW r \in Requests, BuildRaises(r) \/ RunRaises(r) \/ UsageEmitted(r)
      PROVE  TypeInv'
  <2>1. PICK pc \in Over : Goto(r, pc) /\ Live(r)
    BY <1>2 DEF BuildRaises, RunRaises, UsageEmitted, Over, Live, At
  <2> QED
    BY <1>2, <1>typed, <2>1, GotoHandled
       DEF BuildRaises, RunRaises, UsageEmitted, TypeInv, TypeOK
<1>3. ASSUME NEW r \in Requests, Arrival(r) PROVE TypeInv'
  <2>1. PICK s \in Sessions, q \in Requested :
          /\ req' = [req EXCEPT ![r] = q] /\ Handler(q) /\ q.s = s
          /\ used' = used \cup {s}
          /\ reg' \in {reg, [reg EXCEPT ![s] = NoRec], [reg EXCEPT ![s] = Client]}
          /\ UNCHANGED <<hist, row, garbled, tasks, restarts, faults,
                         stored, given, twins, stopped, unsaved>>
    BY <1>3, ArrivalReads
  <2>2. /\ reg' \in [Sessions -> Recs \cup {NoRec, Client}]
        /\ \A x \in Sessions : reg'[x] \in Recs => reg'[x][2] = x
    BY <1>0, <2>1 DEF TypeInv, TypeOK
  <2> QED
    BY <1>typed, <2>1, <2>2, HandlersKept DEF TypeInv, TypeOK
<1>4. ASSUME NEW r \in Requests, AsyncAccepted(r) PROVE TypeInv'
  BY <1>4, <1>typed, GotoHandled
     DEF AsyncAccepted, Live, At, Over, TypeInv, TypeOK
<1>5. ASSUME NEW r \in Requests, RunStarts(r) PROVE TypeInv'
  <2> DEFINE q == [req[r] EXCEPT
                     !.pc = IF req[r].rec \in Recs THEN "run" ELSE "failed",
                     !.seen = Messages(req[r].rec), !.began = stored]
  <2>1. req' = [req EXCEPT ![r] = q]
    BY <1>0, <1>5 DEF RunStarts
  <2>2. Messages(req[r].rec) \in History /\ stored \in History
    BY <1>0 DEF Messages, History, TypeInv, TypeOK
  <2>3. Handler(q)
    <3>1. Handler(req[r]) /\ req[r].pc \in {"fire", "task"}
      BY <1>0, <1>5 DEF RunStarts, At
    <3>2. q \in Requested
      BY <2>2, <3>1 DEF Handler, Requested, Points, Over
    <3>3. /\ q.s = req[r].s /\ q.rec = req[r].rec
          /\ q.pc = IF req[r].rec \in Recs THEN "run" ELSE "failed"
      BY <3>1 DEF Handler, Requested
    <3> QED
      BY <3>1, <3>2, <3>3 DEF Handler
  <2> QED
    BY <1>5, <1>typed, <2>1, <2>3, HandlersKept DEF RunStarts, TypeInv, TypeOK
<1>6. ASSUME NEW r \in Requests, RunEnds(r) PROVE TypeInv'
  <2>1. /\ Live(r) /\ \E pc \in {"usage", "failed"} : Goto(r, pc)
        /\ req[r].seen \cup {r} \in History
        /\ req[r].rec \in Recs /\ req[r].s \in Sessions
    <3>1. /\ req[r].pc = "run" /\ Handler(req[r])
          /\ \E pc \in {"usage", "failed"} : Goto(r, pc)
      BY <1>0, <1>6, RunEndsWrites
    <3> QED
      BY <3>1 DEF Handler, Live, Over, History, Requested
  <2>2. hist' \in [Recs -> History] /\ row' \in [Sessions -> History \cup {NoRow}]
    <3>1. /\ hist' = [hist EXCEPT ![req[r].rec] = req[r].seen \cup {r}]
          /\ \/ row' = row
             \/ row' = [row EXCEPT ![req[r].s] =
                          IF row[req[r].s] = NoRow THEN NoRow ELSE req[r].seen \cup {r}]
      BY <1>6, RunEndsWrites
    <3>2. hist \in [Recs -> History] /\ row \in [Sessions -> History \cup {NoRow}]
      BY DEF TypeInv, TypeOK
    <3> QED
      BY <2>1, <3>1, <3>2
  <2>3. /\ garbled' \subseteq Sessions /\ unsaved' \subseteq Recs
        /\ stored' \subseteq Requests /\ faults' \in 0..MaxFaults
        /\ UNCHANGED <<reg, tasks, restarts, used, given, twins, stopped>>
    <3>1. /\ unsaved' \in {unsaved \cup {req[r].rec}, unsaved \ {req[r].rec}}
          /\ garbled' \in {garbled, garbled \ {req[r].s}, garbled \cup {req[r].s}}
          /\ stored' = stored \cup {r}
          /\ UNCHANGED faults \/ Fault
          /\ UNCHANGED <<reg, tasks, restarts, used, given, twins, stopped>>
      BY <1>6, RunEndsWrites
    <3>2. faults' \in 0..MaxFaults
      BY <1>fault, <3>1 DEF TypeInv, TypeOK
    <3> QED
      BY <2>1, <3>1, <3>2 DEF TypeInv, TypeOK
  <2>4. /\ req' \in [Requests -> Requested]
        /\ \A x \in Requests : Handler(req'[x])
    BY <2>1, GotoHandled DEF Over
  <2> QED
    BY <1>typed, <2>2, <2>3, <2>4 DEF TypeInv, TypeOK
<1>7. ASSUME NEW r \in Requests, TaskForgotten(r) PROVE TypeInv'
  BY <1>0, <1>7, <1>typed DEF TaskForgotten, TypeInv, TypeOK
<1>8. ASSUME NEW r \in Requests, CancelTurn(r) PROVE TypeInv'
  <2>1. /\ req' \in [Requests -> Requested]
        /\ \A x \in Requests : Handler(req'[x])
    <3>1. CASE Live(r)
      BY <1>8, <3>1, GotoHandled DEF CancelTurn, Over
    <3>2. CASE ~Live(r)
      BY <1>0, <1>8, <3>2 DEF CancelTurn
    <3> QED
      BY <3>1, <3>2
  <2> QED
    BY <1>8, <1>typed, <2>1 DEF CancelTurn, TypeInv, TypeOK
<1>9. ASSUME NEW r \in Requests, SourceBuilt(r) PROVE TypeInv'
  <2> DEFINE rec == <<r, req[r].s>>
             q == [req[r] EXCEPT !.pc = "branch", !.rec = rec]
  <2>1. Handler(req[r]) /\ req[r].pc = "source"
    BY <1>0, <1>9 DEF SourceBuilt, At
  <2>2. rec \in Recs /\ rec[2] = req[r].s /\ req[r].s \in Sessions
    BY <2>1 DEF Handler, Recs
  <2>3. req' = [req EXCEPT ![r] = q]
    BY <1>0, <1>9 DEF SourceBuilt
  <2>4. Handler(q)
    BY <2>1, <2>2 DEF Handler, Requested, Points
  <2>5. reg' = [reg EXCEPT ![req[r].s] = rec]
    BY <1>9 DEF SourceBuilt
  <2>6. hist' \in [Recs -> History] /\ twins' \subseteq Sessions
    BY <1>0, <1>9, <2>2 DEF SourceBuilt, MarkTwins, TypeInv, TypeOK, Requested
  <2>7. UNCHANGED <<row, garbled, tasks, restarts, faults,
                   used, stored, given, stopped, unsaved>>
    BY <1>9 DEF SourceBuilt
  <2> QED
    BY <1>typed, <2>2, <2>3, <2>4, <2>5, <2>6, <2>7, HandlersKept, RegisterOwn
       DEF TypeInv, TypeOK
<1>10. ASSUME NEW r \in Requests, NEW child \in Sessions, BranchBuilt(r, child)
       PROVE  TypeInv'
  <2> DEFINE rec == <<r, child>>
             q == [req[r] EXCEPT !.left = req[r].left - 1,
                     !.pc = IF req[r].left = 1 THEN "done" ELSE req[r].pc]
  <2>1. Handler(req[r]) /\ req[r].pc = "branch" /\ req[r].left \in 1..MaxBranches
    BY <1>0, <1>10 DEF BranchBuilt, At, Handler
  <2>2. rec \in Recs /\ rec[2] = child
    BY DEF Recs
  <2>3. req' = [req EXCEPT ![r] = q] \/ Goto(r, "failed")
    BY <1>0, <1>10 DEF BranchBuilt
  <2>4. Handler(q)
    <3>1. q \in Requested
      <4>1. req[r].left - 1 \in 0..MaxBranches
        BY <2>1
      <4> QED
        BY <2>1, <4>1 DEF Handler, Requested, Points, Over
    <3>2. /\ q.s = req[r].s /\ q.rec = req[r].rec /\ q.left = req[r].left - 1
          /\ q.pc = IF req[r].left = 1 THEN "done" ELSE "branch"
      BY <2>1 DEF Handler, Requested
    <3> QED
      BY <2>1, <3>1, <3>2 DEF Handler
  <2>5. reg' = [reg EXCEPT ![child] = rec]
    BY <1>10 DEF BranchBuilt
  <2>6. /\ hist' \in [Recs -> History] /\ given' \in [Sessions -> History]
        /\ row' \in [Sessions -> History \cup {NoRow}]
        /\ used' \subseteq Sessions
    BY <1>0, <1>10, <2>2
       DEF BranchBuilt, InsertRow, TypeInv, TypeOK, Requested, History
  <2>7. /\ UNCHANGED <<garbled, tasks, restarts, stored, twins, stopped, unsaved>>
        /\ faults' \in 0..MaxFaults
    BY <1>10, <1>fault DEF BranchBuilt, TypeInv, TypeOK
  <2>8. /\ req' \in [Requests -> Requested]
        /\ \A x \in Requests : Handler(req'[x])
    BY <2>1, <2>3, <2>4, HandlersKept, GotoHandled DEF Live, Over
  <2> QED
    BY <1>typed, <2>2, <2>5, <2>6, <2>7, <2>8, RegisterOwn
       DEF TypeInv, TypeOK
<1>11. ASSUME NEW r \in Requests, RowDeleted(r) \/ DeleteRaises(r) PROVE TypeInv'
  <2>1. Live(r) /\ \E pc \in {"done", "failed"} : Goto(r, pc)
    BY <1>11 DEF RowDeleted, DeleteRaises, Live, At, Over
  <2>2. /\ req' \in [Requests -> Requested]
        /\ \A x \in Requests : Handler(req'[x])
    BY <2>1, GotoHandled DEF Over
  <2>3. /\ row' \in [Sessions -> History \cup {NoRow}]
        /\ garbled' \subseteq Sessions /\ faults' \in 0..MaxFaults
    BY <1>11, <1>fault DEF RowDeleted, DeleteRaises, TypeInv, TypeOK
  <2> QED
    BY <1>11, <1>typed, <2>2, <2>3 DEF RowDeleted, DeleteRaises, TypeInv, TypeOK
<1>12. ASSUME NEW r \in Requests, InsertRaises(r) PROVE TypeInv'
  <2> DEFINE rec == <<r, req[r].s>>
  <2>1. Handler(req[r]) /\ req[r].pc = "build" /\ Goto(r, "failed") /\ Live(r)
    BY <1>0, <1>12 DEF InsertRaises, At, Live, Over
  <2>2. rec \in Recs /\ rec[2] = req[r].s /\ req[r].s \in Sessions
    BY <2>1 DEF Handler, Recs
  <2>3. /\ req' \in [Requests -> Requested]
        /\ \A x \in Requests : Handler(req'[x])
    BY <2>1, GotoHandled DEF Over
  <2>4. reg' = [reg EXCEPT ![req[r].s] = rec]
    BY <1>12 DEF InsertRaises
  <2>5. hist' \in [Recs -> History] /\ twins' \subseteq Sessions
    BY <1>0, <1>12, <2>2 DEF InsertRaises, MarkTwins, TypeInv, TypeOK, Requested
  <2>6. /\ UNCHANGED <<row, garbled, tasks, restarts,
                       used, stored, given, stopped, unsaved>>
        /\ faults' \in 0..MaxFaults
    BY <1>12, <1>fault DEF InsertRaises
  <2> QED
    BY <1>typed, <2>2, <2>3, <2>4, <2>5, <2>6, RegisterOwn DEF TypeInv, TypeOK
<1>13. CASE Restart
  <2>1. PICK up \in SUBSET {s \in Sessions : row[s] # NoRow} :
          /\ reg' = [s \in Sessions |-> IF s \in up THEN <<Boot, s>> ELSE NoRec]
          /\ hist' = [c \in Recs |-> IF c[1] = Boot /\ c[2] \in up
                                     THEN Loaded(c[2])' ELSE {}]
          /\ \A c \in Recs : Loaded(c[2])' \in History
    <3>1. /\ row' = row
          /\ \E up \in SUBSET {s \in Sessions : row[s] # NoRow} :
               /\ reg' = [s \in Sessions |-> IF s \in up THEN <<Boot, s>> ELSE NoRec]
               /\ hist' = [c \in Recs |-> IF c[1] = Boot /\ c[2] \in up
                                          THEN Loaded(c[2])' ELSE {}]
      BY <1>13 DEF Restart
    <3>2. \A c \in Recs : Loaded(c[2])' \in History
      BY <1>0, <3>1 DEF Loaded, History
    <3> QED
      BY <3>1, <3>2
  <2>2. \A s \in Sessions : <<Boot, s>> \in Recs
    BY DEF Recs
  <2>3. /\ hist' \in [Recs -> History]
        /\ reg' \in [Sessions -> Recs \cup {NoRec, Client}]
        /\ \A x \in Sessions : reg'[x] \in Recs => reg'[x][2] = x
    BY <1>0, <2>1, <2>2 DEF History
  <2>4. \A x \in Requests : req'[x] \in Requested /\ Handler(req'[x])
    <3> SUFFICES ASSUME NEW x \in Requests
                 PROVE  req'[x] \in Requested /\ Handler(req'[x])
      OBVIOUS
    <3>1. req'[x] = IF Live(x) THEN [req[x] EXCEPT !.pc = "failed"] ELSE req[x]
      BY <1>13 DEF Restart
    <3>2. Live(x) => Handler([req[x] EXCEPT !.pc = "failed"])
      BY <1>0 DEF Handler, Requested, Points, Over, Live
    <3> QED
      BY <1>0, <3>1, <3>2 DEF Handler
  <2>5. req' \in [Requests -> Requested]
    BY <1>13, <2>4 DEF Restart
  <2>6. /\ UNCHANGED <<row, used, stored, given, stopped>> /\ twins' = {}
        /\ tasks' = {} /\ restarts' \in 0..MaxRestarts
        /\ garbled' \subseteq Sessions /\ unsaved' = {} /\ faults' \in 0..MaxFaults
    BY <1>13, <1>fault DEF Restart, TypeInv, TypeOK
  <2> QED
    BY <1>typed, <2>3, <2>4, <2>5, <2>6 DEF TypeInv, TypeOK
<1>14. CASE UNCHANGED vars
  BY <1>14, <1>typed, <1>0 DEF vars, TypeInv, TypeOK
<1> QED
  BY <1>1, <1>2, <1>3, <1>4, <1>5, <1>6, <1>7, <1>8, <1>9, <1>10, <1>11, <1>12, <1>13,
     <1>14
  DEF Next, Step

LEMMA TypeInvHolds == Spec => []TypeInv
BY TypeInvInit, TypeInvStep, PTL DEF Spec

(* Type correctness of the registry, the rows, and the locals of handlers.  *)
THEOREM SessionTypeOK == Spec => []TypeOK
<1>1. TypeInv => TypeOK
  BY DEF TypeInv
<1> QED
  BY <1>1, TypeInvHolds, PTL
-------------------------------------------------------------------------------
(* Whatever a handler read before an await is still a history the session   *)
(* may have when it is written, because what a session may have only grows. *)
Own(s) == given[s] \cup {t \in Requests : req[t].s = s}

OwnInv ==
  /\ \A c \in Recs : hist[c] \subseteq Own(c[2])
  /\ \A s \in Sessions : row[s] # NoRow => row[s] \subseteq Own(s)
  /\ \A r \in Requests, s \in Sessions : req[r].s = s => req[r].seen \subseteq Own(s)
  /\ \A s \in Sessions \ used : Own(s) = {}

LEMMA HandlersKeepSession ==
  ASSUME TypeInv, Next
  PROVE  \/ \A t \in Requests : req'[t].s = req[t].s
         \/ \E r \in Requests : Arrival(r)
<1>0. \A t \in Requests : req[t] \in Requested
  BY DEF TypeInv, Handler
<1>1. ASSUME NEW r \in Requests, Step(r)
      PROVE  \A t \in Requests : req'[t].s = req[t].s
  <2>1. ASSUME NEW child \in Sessions, BranchBuilt(r, child)
        PROVE  \A t \in Requests : req'[t].s = req[t].s
    BY <1>0, <2>1 DEF BranchBuilt, Goto, Requested, TypeInv, TypeOK
  <2>2. CASE Built(r) \/ SourceBuilt(r) \/ RunStarts(r)
    <3>1. CASE Built(r)
      BY <1>0, <3>1 DEF Built, Requested, TypeInv, TypeOK
    <3>2. CASE SourceBuilt(r)
      BY <1>0, <3>2 DEF SourceBuilt, Requested, TypeInv, TypeOK
    <3>3. CASE RunStarts(r)
      BY <1>0, <3>3 DEF RunStarts, Requested, TypeInv, TypeOK
    <3> QED
      BY <2>2, <3>1, <3>2, <3>3
  <2>3. CASE \/ BuildRaises(r) \/ AsyncAccepted(r) \/ RunRaises(r) \/ InsertRaises(r)
             \/ UsageEmitted(r) \/ TaskForgotten(r) \/ CancelTurn(r) \/ RowDeleted(r)
             \/ DeleteRaises(r)
    BY <1>0, <2>3
       DEF BuildRaises, AsyncAccepted, RunRaises, InsertRaises, UsageEmitted,
           TaskForgotten, CancelTurn, RowDeleted, DeleteRaises, Goto, Requested,
           TypeInv, TypeOK
  <2>4. CASE RunEnds(r)
    <3>1. \E pc \in {"usage", "failed"} : Goto(r, pc)
      BY <2>4, RunEndsWrites
    <3> QED
      BY <1>0, <3>1 DEF Goto, Requested, TypeInv, TypeOK
  <2> QED
    BY <1>1, <2>1, <2>2, <2>3, <2>4 DEF Step
<1>2. CASE Restart
  BY <1>0, <1>2 DEF Restart, Requested, TypeInv, TypeOK
<1> QED
  BY <1>1, <1>2 DEF Next


(* A fork is the only step that gives a session messages, and it gives them *)
(* to a session whose id is new.                                            *)
LEMMA OwnGrows ==
  ASSUME TypeInv, OwnInv, Next, NEW s \in Sessions
  PROVE  Own(s) \subseteq Own(s)'
<1>1. \A t \in Requests : req[t].s = s => req'[t].s = s
  <2>1. CASE \A t \in Requests : req'[t].s = req[t].s
    BY <2>1
  <2>2. CASE \E r \in Requests : Arrival(r)
    <3>1. PICK r \in Requests : Arrival(r)
      BY <2>2
    <3>2. PICK q \in Requested : req' = [req EXCEPT ![r] = q] /\ req[r] = NewRequest
      BY <3>1, ArrivalReads
    <3> QED
      BY <3>2, NativeSessionAssumption DEF NewRequest, TypeInv, TypeOK
  <2> QED
    BY <2>1, <2>2, HandlersKeepSession
<1>2. given[s] \subseteq given'[s]
  <2>1. ASSUME NEW r \in Requests, NEW child \in Sessions, BranchBuilt(r, child)
        PROVE  given[s] \subseteq given'[s]
    BY <2>1 DEF BranchBuilt, OwnInv, Own, TypeInv, TypeOK
  <2>2. ASSUME NEW r \in Requests, Arrival(r) PROVE given' = given
    BY <2>2, ArrivalReads
  <2>3. ASSUME NEW r \in Requests, Step(r),
               ~ \E child \in Sessions : BranchBuilt(r, child)
        PROVE  given' = given
    BY <2>3, RunEndsWrites
       DEF Step, Built, BuildRaises, InsertRaises, SourceBuilt, AsyncAccepted,
           RunStarts, RunRaises, UsageEmitted, TaskForgotten, CancelTurn, RowDeleted,
           DeleteRaises, ghosts
  <2>4. CASE Restart
    BY <2>4 DEF Restart
  <2> QED
    BY <2>1, <2>2, <2>3, <2>4 DEF Next
<1> QED
  BY <1>1, <1>2 DEF Own

LEMMA OwnInvStep ==
  ASSUME TypeInv, TypeInv', OwnInv, [Next]_vars
  PROVE  OwnInv'
<1>0. CASE UNCHANGED vars
  BY <1>0 DEF vars, OwnInv, Own
<1> SUFFICES ASSUME Next PROVE OwnInv'
  BY <1>0
<1> USE NativeSessionAssumption
<1>g. \A s \in Sessions : Own(s) \subseteq Own(s)'
  BY OwnGrows
<1>h. /\ \A r \in Requests : req[r] \in Requested /\ req'[r] \in Requested
      /\ \A c \in Recs : c[2] \in Sessions
      /\ req \in [Requests -> Requested]
  BY DEF TypeInv, TypeOK, Handler, Recs, Requested, Ops, Points
<1>o. \A r \in Requests, s \in Sessions : req[r].s = s => req[r].seen \subseteq Own(s)'
  BY <1>g DEF OwnInv
<1>1. ASSUME NEW r \in Requests, Built(r) \/ SourceBuilt(r) \/ InsertRaises(r)
      PROVE  OwnInv'
  <2> DEFINE rec == <<r, req[r].s>>
  <2>1. rec \in Recs /\ req[r].s \in Sessions
    BY <1>1 DEF Built, SourceBuilt, InsertRaises, At, TypeInv, Handler, Recs
  <2>2. \A x \in Requests : req'[x].seen = req[x].seen /\ req'[x].s = req[x].s
    BY <1>1, <1>h DEF Built, SourceBuilt, InsertRaises, Goto, Requested
  <2>3. \A c \in Recs : hist'[c] = IF c = rec THEN req[r].seen ELSE hist[c]
    BY <1>1, <2>1 DEF Built, SourceBuilt, InsertRaises, TypeInv, TypeOK
  <2>4. \A s \in Sessions : row'[s] = row[s] \/ row'[s] = {}
    BY <1>1, <2>1 DEF Built, SourceBuilt, InsertRaises, InsertRow, TypeInv, TypeOK
  <2>5. UNCHANGED <<used, given>>
    BY <1>1 DEF Built, SourceBuilt, InsertRaises
  <2>6. \A c \in Recs : hist'[c] \subseteq Own(c[2])'
    BY <1>g, <1>h, <1>o, <2>1, <2>3 DEF OwnInv
  <2>7. \A s \in Sessions : row'[s] # NoRow => row'[s] \subseteq Own(s)'
    BY <1>g, <2>4 DEF OwnInv
  <2> QED
    BY <1>o, <2>2, <2>5, <2>6, <2>7 DEF OwnInv, Own
<1>2. ASSUME NEW r \in Requests,
             \/ BuildRaises(r) \/ RunRaises(r) \/ UsageEmitted(r) \/ AsyncAccepted(r)
             \/ TaskForgotten(r) \/ CancelTurn(r) \/ RowDeleted(r) \/ DeleteRaises(r)
      PROVE  OwnInv'
  <2>1. \A x \in Requests : req'[x].seen = req[x].seen /\ req'[x].s = req[x].s
    BY <1>2, <1>h
       DEF BuildRaises, RunRaises, UsageEmitted, AsyncAccepted, TaskForgotten,
           CancelTurn, RowDeleted, DeleteRaises, Goto, Requested
  <2>2. /\ UNCHANGED <<used, given, hist>>
        /\ \A s \in Sessions : row'[s] \in {row[s], NoRow}
    BY <1>2
       DEF BuildRaises, RunRaises, UsageEmitted, AsyncAccepted, TaskForgotten,
           CancelTurn, RowDeleted, DeleteRaises, ghosts, TypeInv, TypeOK
  <2> QED
    BY <1>o, <1>g, <1>h, <2>1, <2>2 DEF OwnInv, Own
<1>3. ASSUME NEW r \in Requests, Arrival(r) PROVE OwnInv'
  <2>1. PICK s \in Sessions, q \in Requested :
          /\ req' = [req EXCEPT ![r] = q] /\ q.s = s /\ Reads(s, q)
          /\ req[r] = NewRequest
          /\ used' = used \cup {s}
          /\ UNCHANGED <<hist, row, given>>
    BY <1>3, ArrivalReads
  <2>2. q.seen \subseteq Own(s)
    BY <2>1 DEF Reads, Loaded, OwnInv, TypeInv
  <2>3. \A x \in Requests : req'[x] = IF x = r THEN q ELSE req[x]
    BY <1>h, <2>1
  <2>4. \A x \in Requests, y \in Sessions :
          req'[x].s = y => req'[x].seen \subseteq Own(y)'
    BY <1>g, <1>o, <2>1, <2>2, <2>3
  <2>5. \A x \in Sessions \ used' : Own(x)' = {}
    BY <2>1, <2>3 DEF OwnInv, Own
  <2> QED
    BY <1>g, <1>h, <2>1, <2>4, <2>5 DEF OwnInv
<1>4. ASSUME NEW r \in Requests, RunStarts(r) PROVE OwnInv'
  <2>1. \A x \in Requests :
          /\ req'[x].s = req[x].s
          /\ req'[x].seen = IF x = r THEN Messages(req[r].rec) ELSE req[x].seen
    <3>1. \A x \in Requests : x # r => req'[x] = req[x]
      BY <1>4, <1>h DEF RunStarts
    <3>2. req'[r].s = req[r].s /\ req'[r].seen = Messages(req[r].rec)
      BY <1>4, <1>h DEF RunStarts, Requested
    <3> QED
      BY <3>1, <3>2
  <2>2. \A s \in Sessions : req[r].s = s => Messages(req[r].rec) \subseteq Own(s)'
    <3>1. req[r].rec \in Recs => req[r].rec[2] = req[r].s
      BY DEF TypeInv, Handler
    <3> QED
      BY <1>g, <1>h, <3>1 DEF Messages, OwnInv
  <2>3. UNCHANGED <<hist, row, used, given>>
    BY <1>4 DEF RunStarts, ghosts
  <2> QED
    BY <1>g, <1>h, <1>o, <2>1, <2>2, <2>3 DEF OwnInv, Own
<1>5. ASSUME NEW r \in Requests, RunEnds(r) PROVE OwnInv'
  <2>0. Handler(req[r]) /\ req[r].pc = "run"
    BY <1>5, RunEndsWrites DEF TypeInv
  <2>1. PICK s \in Sessions, rec \in Recs :
          s = req[r].s /\ rec = req[r].rec /\ rec[2] = s
    BY <2>0 DEF Handler
  <2>2. \A x \in Requests : req'[x].seen = req[x].seen /\ req'[x].s = req[x].s
    <3>1. \E pc \in {"usage", "failed"} : Goto(r, pc)
      BY <1>5, RunEndsWrites
    <3> QED
      BY <1>h, <3>1 DEF Goto, Requested
  <2> DEFINE all == req[r].seen \cup {r}
  <2>3. req[r].seen \cup {r} \subseteq Own(s)'
    BY <1>o, <2>1, <2>2 DEF Own
  <2>4. \A c \in Recs : hist'[c] = IF c = rec THEN all ELSE hist[c]
    <3>1. hist' = [hist EXCEPT ![rec] = all]
      BY <1>5, <2>1, RunEndsWrites
    <3> HIDE DEF all
    <3> QED
      BY <3>1 DEF TypeInv, TypeOK
  <2>5. \A x \in Sessions : row'[x] = row[x] \/ (x = s /\ row'[x] = all)
    <3>1. \/ row' = row
          \/ row' = [row EXCEPT ![s] = IF row[s] = NoRow THEN NoRow ELSE all]
      BY <1>5, <2>1, RunEndsWrites
    <3> HIDE DEF all
    <3> QED
      BY <3>1 DEF TypeInv, TypeOK
  <2>6. \A c \in Recs : hist'[c] \subseteq Own(c[2])'
    BY <1>g, <1>h, <2>1, <2>3, <2>4 DEF OwnInv
  <2>7. \A x \in Sessions : row'[x] # NoRow => row'[x] \subseteq Own(x)'
    BY <1>g, <2>3, <2>5 DEF OwnInv
  <2>8. UNCHANGED <<used, given>>
    BY <1>5, RunEndsWrites
  <2> QED
    BY <1>o, <2>2, <2>6, <2>7, <2>8 DEF OwnInv, Own
<1>6. ASSUME NEW r \in Requests, NEW child \in Sessions, BranchBuilt(r, child)
      PROVE  OwnInv'
  <2> DEFINE rec == <<r, child>>
  <2>1. \A x \in Requests : req'[x].seen = req[x].seen /\ req'[x].s = req[x].s
    BY <1>6, <1>h DEF BranchBuilt, Goto, Requested
  <2>2. /\ \A c \in Recs : hist'[c] = IF c = rec THEN req[r].seen ELSE hist[c]
        /\ \A x \in Sessions : row'[x] \in {row[x], {}}
        /\ \A x \in Sessions : given'[x] = IF x = child THEN req[r].seen ELSE given[x]
        /\ used' = used \cup {child}
    <3>1. /\ hist' = [hist EXCEPT ![rec] = req[r].seen] /\ rec \in Recs
          /\ given' = [given EXCEPT ![child] = req[r].seen]
          /\ used' = used \cup {child}
      BY <1>6 DEF BranchBuilt, Recs
    <3>2. \A x \in Sessions : row'[x] \in {row[x], {}}
      BY <1>6 DEF BranchBuilt, InsertRow, TypeInv, TypeOK
    <3>3. hist \in [Recs -> History] /\ given \in [Sessions -> History]
      BY DEF TypeInv, TypeOK
    <3> HIDE DEF rec
    <3> QED
      BY <3>1, <3>2, <3>3
  <2>3. req[r].seen \subseteq Own(child)'
    BY <2>2 DEF Own
  <2>4. \A c \in Recs : hist'[c] \subseteq Own(c[2])'
    BY <1>g, <1>h, <2>2, <2>3 DEF OwnInv
  <2>5. \A x \in Sessions : row'[x] # NoRow => row'[x] \subseteq Own(x)'
    BY <1>g, <2>2 DEF OwnInv
  <2> QED
    BY <1>o, <2>1, <2>2, <2>4, <2>5 DEF OwnInv, Own
<1>7. CASE Restart
  <2>1. \A x \in Requests : req'[x].seen = req[x].seen /\ req'[x].s = req[x].s
    BY <1>7, <1>h DEF Restart, Requested
  <2>2. UNCHANGED <<row, used, given>>
    BY <1>7 DEF Restart
  <2>3. \A c \in Recs : hist'[c] = {} \/ (row[c[2]] # NoRow /\ hist'[c] = row[c[2]])
    <3>1. PICK up : up \subseteq {x \in Sessions : row[x] # NoRow} /\
            hist' = [c \in Recs |-> IF c[1] = Boot /\ c[2] \in up
                                    THEN Loaded(c[2])' ELSE {}]
      BY <1>7 DEF Restart
    <3> QED
      BY <2>2, <3>1 DEF Loaded
  <2> QED
    BY <1>g, <1>h, <1>o, <2>1, <2>2, <2>3 DEF OwnInv, Own
<1> QED
  BY <1>1, <1>2, <1>3, <1>4, <1>5, <1>6, <1>7 DEF Next, Step

(* A fork and its source never see each other's later turns, whatever the   *)
(* requests that build, fork and turn the two sessions interleave.          *)
THEOREM ForksStayApart == Spec => []HistoryIsOwn
<1>1. Init => OwnInv
  BY NativeSessionAssumption DEF Init, OwnInv, Own, NewRequest, Recs
<1>2. TypeInv /\ OwnInv => HistoryIsOwn
  BY DEF TypeInv, OwnInv, Own, HistoryIsOwn
<1> QED
  BY <1>1, <1>2, TypeInvHolds, OwnInvStep, PTL DEF Spec
-------------------------------------------------------------------------------
(* A tick is registered by a handler that is at work or over, and cancel_turn *)
(* leaves the handler over, where nothing resumes it.                       *)
StoppedInv ==
  /\ \A t \in tasks : req[t].pc # "idle"
  /\ \A t \in stopped : req[t].pc \in Over

LEMMA OverStaysOver ==
  ASSUME TypeInv, Next, NEW t \in Requests
  PROVE  /\ req[t].pc \in Over => req'[t].pc \in Over
         /\ req[t].pc # "idle" => req'[t].pc # "idle"
<1>0. \A x \in Requests : req[x] \in Requested
  BY DEF TypeInv, Handler
<1>t. req \in [Requests -> Requested]
  BY DEF TypeInv, TypeOK, Requested, Ops, Points
<1> USE <1>0, <1>t DEF At, Over, Goto
<1>1. ASSUME NEW r \in Requests, Arrival(r) PROVE req[r].pc = "idle" /\ req' = [req EXCEPT ![r] = req'[r]]
  BY <1>1, ArrivalReads DEF NewRequest
<1>2. ASSUME NEW r \in Requests, NEW child \in Sessions, BranchBuilt(r, child)
      PROVE  /\ req[r].pc = "branch" /\ req'[r].pc # "idle"
             /\ req' = [req EXCEPT ![r] = req'[r]]
  BY <1>2 DEF BranchBuilt, Requested
<1>3. ASSUME NEW r \in Requests, Built(r) \/ SourceBuilt(r) \/ RunStarts(r)
      PROVE  /\ req[r].pc \in {"build", "source", "fire", "task"} /\ req'[r].pc # "idle"
             /\ req' = [req EXCEPT ![r] = req'[r]]
  BY <1>3 DEF Built, SourceBuilt, RunStarts, Requested
<1>4. ASSUME NEW r \in Requests,
             \/ BuildRaises(r) \/ AsyncAccepted(r) \/ RunRaises(r) \/ UsageEmitted(r)
             \/ RowDeleted(r) \/ InsertRaises(r) \/ DeleteRaises(r)
      PROVE  /\ req[r].pc \notin Over /\ req'[r].pc # "idle"
             /\ req' = [req EXCEPT ![r] = req'[r]]
  BY <1>4
     DEF BuildRaises, AsyncAccepted, RunRaises, UsageEmitted, RowDeleted,
         InsertRaises, DeleteRaises, Requested
<1>5. ASSUME NEW r \in Requests, TaskForgotten(r) \/ CancelTurn(r)
      PROVE  req' = req \/ req' = [req EXCEPT ![r].pc = "failed"]
  BY <1>5 DEF TaskForgotten, CancelTurn
<1>6. ASSUME NEW r \in Requests, RunEnds(r)
      PROVE  /\ req[r].pc = "run" /\ req'[r].pc # "idle"
             /\ req' = [req EXCEPT ![r] = req'[r]]
  <2>1. req[r].pc = "run" /\ \E pc \in {"usage", "failed"} : Goto(r, pc)
    BY <1>6, RunEndsWrites
  <2> QED
    BY <2>1 DEF Requested
<1>7. CASE Restart
  BY <1>7 DEF Restart, Live, Requested
<1> QED
  BY <1>1, <1>2, <1>3, <1>4, <1>5, <1>6, <1>7 DEF Next, Step, Requested

LEMMA StoppedInvStep ==
  ASSUME TypeInv, StoppedInv, [Next]_vars
  PROVE  StoppedInv'
<1>0. CASE UNCHANGED vars
  BY <1>0 DEF vars, StoppedInv
<1> SUFFICES ASSUME Next PROVE StoppedInv'
  BY <1>0
<1>1. ASSUME NEW r \in Requests, AsyncAccepted(r) PROVE StoppedInv'
  <2>1. req[r].pc = "fire" /\ tasks' = tasks \cup {r} /\ stopped' = stopped
    BY <1>1 DEF AsyncAccepted, At, ghosts
  <2> QED
    BY <2>1, OverStaysOver DEF StoppedInv, TypeInv, TypeOK
<1>2. ASSUME NEW r \in Requests, CancelTurn(r) PROVE StoppedInv'
  <2>1. req[r].pc # "idle" /\ tasks' = tasks \ {r} /\ stopped' = stopped \cup {r}
    BY <1>2 DEF CancelTurn, StoppedInv
  <2>2. req'[r].pc \in Over
    <3>1. CASE Live(r)
      BY <1>2, <3>1 DEF CancelTurn, Goto, Over, TypeInv, TypeOK
    <3>2. CASE ~Live(r)
      BY <1>2, <2>1, <3>2 DEF CancelTurn, Live
    <3> QED
      BY <3>1, <3>2
  <2> QED
    BY <2>1, <2>2, OverStaysOver DEF StoppedInv, TypeInv, TypeOK
<1>3. CASE tasks' \subseteq tasks /\ stopped' = stopped
  BY <1>3, OverStaysOver DEF StoppedInv, TypeInv, TypeOK
<1>4. ASSUME NEW r \in Requests, Arrival(r)
      PROVE  tasks' \subseteq tasks /\ stopped' = stopped
  BY <1>4, ArrivalReads
<1>5. ASSUME NEW r \in Requests, Step(r), ~AsyncAccepted(r), ~CancelTurn(r)
      PROVE  tasks' \subseteq tasks /\ stopped' = stopped
  BY <1>5, RunEndsWrites
     DEF Step, Built, BuildRaises, InsertRaises, SourceBuilt, BranchBuilt, RunStarts,
         RunRaises, UsageEmitted, TaskForgotten, RowDeleted, DeleteRaises, ghosts
<1>6. Restart => tasks' \subseteq tasks /\ stopped' = stopped
  BY DEF Restart
<1> QED
  BY <1>1, <1>2, <1>3, <1>4, <1>5, <1>6 DEF Next

(* A turn for which cancel_turn answered never writes its history, wherever *)
(* the task was when it was cancelled.                                      *)
THEOREM CancelledTurnsNeverWrite == Spec => CancelIsFinal
<1>1. Init => StoppedInv
  BY DEF Init, StoppedInv
<1>2. TypeInv /\ StoppedInv /\ [Next]_vars
        => [\A t \in stopped : t \in stored' => t \in stored]_vars
  <2> SUFFICES ASSUME TypeInv, StoppedInv, Next, NEW t \in stopped, t \in stored',
                      t \notin stored
               PROVE  FALSE
    BY DEF vars
  <2>1. ASSUME NEW r \in Requests, RunEnds(r) PROVE FALSE
    BY <2>1, RunEndsWrites DEF StoppedInv, Over
  <2>2. ASSUME NEW r \in Requests, Arrival(r) PROVE FALSE
    BY <2>2, ArrivalReads
  <2>3. ASSUME NEW r \in Requests, Step(r), ~RunEnds(r) PROVE FALSE
    BY <2>3
       DEF Step, Built, BuildRaises, InsertRaises, SourceBuilt, BranchBuilt,
           AsyncAccepted, RunStarts, RunRaises, UsageEmitted, TaskForgotten, CancelTurn,
           RowDeleted, DeleteRaises, ghosts
  <2>4. CASE Restart
    BY <2>4 DEF Restart
  <2> QED
    BY <2>1, <2>2, <2>3, <2>4 DEF Next
<1> QED
  BY <1>1, <1>2, TypeInvHolds, StoppedInvStep, PTL DEF Spec, CancelIsFinal
-------------------------------------------------------------------------------
(* A request at build or source read a row that only a request with a       *)
(* record of the session changes: one that was at work when it arrived, or  *)
(* one that came later.  Fresh excludes both.                               *)
Fresh(r) ==
  \A q \in Requests \ ({r} \cup req[r].began) :
    ~(req[q].rec \in Recs /\ req[q].s = req[r].s)

Building == {"build", "source"}

ReadInv ==
  /\ \A s \in Sessions \ used :
       reg[s] = NoRec /\ row[s] = NoRow /\ \A r \in Requests : req[r].s # s
  /\ \A r \in Requests :
       /\ req[r].op = "delete" => req[r].pc \in {"deleting"} \cup Over
       /\ req[r].pc \in Building \/ req[r].op = "delete" =>
            \A q \in req[r].began : req[q].pc \in Over
       /\ req[r].pc = "build" /\ req[r].insert => req[r].seen = {}
       /\ req[r].pc \in Building /\ Fresh(r) =>
            req[r].s \in garbled \/ row[req[r].s] \in {NoRow, req[r].seen}

(* What a step of one request leaves alone.                                 *)
LEMMA StepLocal ==
  ASSUME TypeInv, NEW r \in Requests, Step(r)
  PROVE  /\ \A x \in Requests : x # r => req'[x] = req[x]
         /\ req'[r].s = req[r].s /\ req'[r].op = req[r].op
         /\ req'[r].pc \notin Building
         /\ req[r].rec \in Recs => req'[r].rec \in Recs
         /\ req[r].op = "delete" /\ req[r].pc \notin {"fire", "task"}
              => req'[r].began = req[r].began
         /\ req[r].pc = "deleting" => req'[r].pc \in {"deleting"} \cup Over
<1>0. \A x \in Requests : req[x] \in Requested /\ Handler(req[x])
  BY DEF TypeInv, Handler
<1>t. req \in [Requests -> Requested]
  BY DEF TypeInv, TypeOK, Requested, Ops, Points
<1> USE <1>0, <1>t DEF At, Over, Goto, Building
<1> DEFINE local ==
             /\ \A x \in Requests : x # r => req'[x] = req[x]
             /\ req'[r].s = req[r].s /\ req'[r].op = req[r].op
             /\ req'[r].pc \notin Building
             /\ req[r].rec \in Recs => req'[r].rec \in Recs
             /\ req[r].op = "delete" /\ req[r].pc \notin {"fire", "task"}
                  => req'[r].began = req[r].began
             /\ req[r].pc = "deleting" => req'[r].pc \in {"deleting"} \cup Over
<1>1. ASSUME NEW child \in Sessions, BranchBuilt(r, child) PROVE local
  <2>1. \A x \in Requests : x # r => req'[x] = req[x]
    BY <1>1 DEF BranchBuilt
  <2> QED
    BY <1>1, <2>1 DEF BranchBuilt, Requested
<1>2. CASE Built(r) \/ SourceBuilt(r) \/ RunStarts(r)
  <2>1. \A x \in Requests : x # r => req'[x] = req[x]
    BY <1>2 DEF Built, SourceBuilt, RunStarts
  <2>2. <<r, req[r].s>> \in Recs \/ RunStarts(r)
    BY <1>2 DEF Built, SourceBuilt, Handler, Recs
  <2> QED
    BY <1>2, <2>1, <2>2 DEF Built, SourceBuilt, RunStarts, Requested
<1>3. CASE \/ BuildRaises(r) \/ AsyncAccepted(r) \/ RunRaises(r) \/ InsertRaises(r)
           \/ UsageEmitted(r) \/ RowDeleted(r) \/ DeleteRaises(r) \/ RunEnds(r)
  <2>1. \E pc \in {"failed", "task", "usage", "done"} : Goto(r, pc)
    <3>1. CASE RunEnds(r)
      BY <3>1, RunEndsWrites
    <3>2. CASE ~RunEnds(r)
      BY <1>3, <3>2
         DEF BuildRaises, AsyncAccepted, RunRaises, InsertRaises, UsageEmitted,
             RowDeleted, DeleteRaises
    <3> QED
      BY <3>1, <3>2
  <2>2. req[r].pc = "deleting" => \E pc \in {"failed", "done"} : Goto(r, pc)
    <3>1. CASE RunEnds(r)
      BY <3>1, RunEndsWrites
    <3>2. CASE ~RunEnds(r)
      BY <1>3, <3>2
         DEF BuildRaises, AsyncAccepted, RunRaises, InsertRaises, UsageEmitted,
             RowDeleted, DeleteRaises
    <3> QED
      BY <3>1, <3>2
  <2> QED
    BY <2>1, <2>2 DEF Requested
<1>4. CASE TaskForgotten(r) \/ CancelTurn(r)
  BY <1>4 DEF TaskForgotten, CancelTurn, Live, Requested
<1> QED
  BY <1>1, <1>2, <1>3, <1>4 DEF Step

(* A row or a registry entry changes by a request for the session that has  *)
(* or gets a record of it, unless the session is new or is being deleted.   *)
LEMMA StepWrites ==
  ASSUME TypeInv, NEW r \in Requests, Step(r), NEW s \in Sessions
  PROVE  /\ row'[s] # row[s] =>
              \/ row'[s] = NoRow /\ req[r].s = s
              \/ s \notin used
              \/ req[r].s = s /\ req'[r].rec \in Recs /\ Live(r)
         /\ reg'[s] # reg[s] =>
              \/ s \notin used
              \/ req[r].s = s /\ (req'[r].rec \in Recs \/ InsertRaises(r)) /\ Live(r)
         /\ s \in garbled \ garbled' =>
              \/ row'[s] = NoRow
              \/ req[r].s = s /\ req'[r].rec \in Recs /\ Live(r)
         /\ used \subseteq used'
         /\ s \in used' \ used => \E child \in Sessions : s = child /\ BranchBuilt(r, child)
<1>0. \A x \in Requests : req[x] \in Requested /\ Handler(req[x])
  BY DEF TypeInv, Handler
<1>t. req \in [Requests -> Requested]
  BY DEF TypeInv, TypeOK, Requested, Ops, Points
<1> USE <1>0, <1>t DEF At, Over, Goto, Live
<1>1. ASSUME NEW child \in Sessions, BranchBuilt(r, child)
      PROVE  /\ row'[s] # row[s] \/ reg'[s] # reg[s] => s = child /\ s \notin used
             /\ used' = used \cup {child} /\ garbled' = garbled
  BY <1>1 DEF BranchBuilt, InsertRow, TypeInv, TypeOK
<1>2. ASSUME Built(r) \/ SourceBuilt(r)
      PROVE  /\ row'[s] # row[s] \/ reg'[s] # reg[s] => req[r].s = s
             /\ req'[r].rec \in Recs /\ req[r].pc \in {"build", "source"}
             /\ used' = used /\ garbled' = garbled
  <2>1. <<r, req[r].s>> \in Recs
    BY <1>2 DEF Built, SourceBuilt, Handler, Recs
  <2>2. /\ \/ row' = row
           \/ row' = [row EXCEPT ![req[r].s] = IF row[req[r].s] = NoRow THEN {}
                                               ELSE row[req[r].s]]
        /\ reg' = [reg EXCEPT ![req[r].s] = <<r, req[r].s>>]
        /\ used' = used /\ garbled' = garbled /\ req[r].pc \in {"build", "source"}
    BY <1>2 DEF Built, SourceBuilt, InsertRow
  <2>3. req'[r].rec = <<r, req[r].s>>
    BY <1>2 DEF Built, SourceBuilt, Requested
  <2> QED
    BY <2>1, <2>2, <2>3 DEF TypeInv, TypeOK
<1>3. ASSUME RunEnds(r)
      PROVE  /\ row'[s] # row[s] \/ s \in garbled \ garbled' => req[r].s = s
             /\ req'[r].rec \in Recs /\ req[r].pc = "run"
             /\ used' = used /\ reg' = reg
  <2>1. req[r].pc = "run" /\ \E pc \in {"usage", "failed"} : Goto(r, pc)
    BY <1>3, RunEndsWrites
  <2>2. req'[r].rec \in Recs
    BY <2>1 DEF Handler, Requested
  <2>3. /\ \/ row' = row /\ garbled' = garbled
           \/ /\ row' = [row EXCEPT ![req[r].s] =
                            IF row[req[r].s] = NoRow THEN NoRow
                                                     ELSE req[r].seen \cup {r}]
              /\ garbled' \in {garbled \ {req[r].s}, garbled \cup {req[r].s}}
        /\ used' = used /\ reg' = reg
    BY <1>3, RunEndsWrites
  <2> QED
    BY <2>1, <2>2, <2>3 DEF TypeInv, TypeOK
<1>4. ASSUME RowDeleted(r)
      PROVE  /\ row'[s] # row[s] => row'[s] = NoRow /\ req[r].s = s
             /\ s \in garbled \ garbled' => row'[s] = NoRow
             /\ used' = used /\ reg' = reg
  BY <1>4 DEF RowDeleted, ghosts, TypeInv, TypeOK
<1>5. ASSUME \/ BuildRaises(r) \/ AsyncAccepted(r) \/ RunStarts(r) \/ RunRaises(r)
             \/ UsageEmitted(r) \/ TaskForgotten(r) \/ CancelTurn(r) \/ DeleteRaises(r)
      PROVE  UNCHANGED <<row, garbled, reg, used>>
  BY <1>5 DEF BuildRaises, AsyncAccepted, RunStarts, RunRaises, UsageEmitted,
              TaskForgotten, CancelTurn, DeleteRaises, ghosts
<1>6. ASSUME InsertRaises(r)
      PROVE  /\ reg'[s] # reg[s] => req[r].s = s /\ req[r].pc = "build"
             /\ UNCHANGED <<row, garbled, used>>
  BY <1>6 DEF InsertRaises, TypeInv, TypeOK
<1> QED
  BY <1>1, <1>2, <1>3, <1>4, <1>5, <1>6 DEF Step

LEMMA ReadInvStep ==
  ASSUME TypeInv, TypeInv', ReadInv, [Next]_vars
  PROVE  ReadInv'
<1>0. CASE UNCHANGED vars
  BY <1>0 DEF vars, ReadInv, Fresh
<1> SUFFICES ASSUME Next PROVE ReadInv'
  BY <1>0
<1> USE DEF Building
<1>h. /\ \A x \in Requests : req[x] \in Requested /\ Handler(req[x])
      /\ req \in [Requests -> Requested]
  BY DEF TypeInv, TypeOK, Handler, Requested, Ops, Points
<1>1. ASSUME NEW r \in Requests, Arrival(r) PROVE ReadInv'
  <2>1. PICK s \in Sessions, q \in Requested :
          /\ req' = [req EXCEPT ![r] = q] /\ Handler(q) /\ q.s = s /\ Reads(s, q)
          /\ q.began = {x \in Requests : req[x].pc \in Over}
          /\ req[r] = NewRequest /\ used' = used \cup {s}
          /\ reg' \in {reg, [reg EXCEPT ![s] = NoRec], [reg EXCEPT ![s] = Client]}
          /\ row' = row /\ garbled' = garbled
    BY <1>1, ArrivalReads
  <2>2. req'[r] = q /\ \A x \in Requests : x # r => req'[x] = req[x]
    BY <1>h, <2>1
  <2>3. req[r].pc = "idle" /\ req[r].rec \notin Recs
    BY <2>1, NativeSessionAssumption DEF NewRequest
  <2>4. \A x \in Sessions \ used' :
          reg'[x] = NoRec /\ row'[x] = NoRow /\ \A y \in Requests : req'[y].s # x
    <3>1. \A x \in Sessions : x # s => reg'[x] = reg[x]
      BY <2>1 DEF TypeInv, TypeOK
    <3> QED
      BY <2>1, <2>2, <3>1 DEF ReadInv
  <2>5. ASSUME NEW x \in Requests, x # r
        PROVE  Fresh(x)' => Fresh(x)
    BY <2>2, <2>3, <2>5 DEF Fresh
  <2>6. \A x \in Requests : req[x].pc \in Over => req'[x].pc \in Over
    BY <2>2, <2>3 DEF Over
  <2>7. s \in garbled \/ row[s] \in {NoRow, q.seen} \/ q.pc \notin Building
    BY <2>1 DEF Reads, ReadInv
  <2> QED
    BY <2>1, <2>2, <2>4, <2>5, <2>6, <2>7 DEF ReadInv, Reads
<1>2. ASSUME NEW r \in Requests, Step(r) PROVE ReadInv'
  <2>1. /\ \A x \in Requests : x # r => req'[x] = req[x]
        /\ req'[r].s = req[r].s /\ req'[r].op = req[r].op
        /\ req'[r].pc \notin Building
        /\ req[r].rec \in Recs => req'[r].rec \in Recs
    BY <1>2, StepLocal
  <2>2. \A x \in Sessions \ used' :
          reg'[x] = NoRec /\ row'[x] = NoRow /\ \A y \in Requests : req'[y].s # x
    <3> SUFFICES ASSUME NEW x \in Sessions \ used'
                 PROVE  /\ reg'[x] = NoRec /\ row'[x] = NoRow
                        /\ \A y \in Requests : req'[y].s # x
      OBVIOUS
    <3>1. x \notin used /\ \A y \in Requests : req[y].s # x
      BY <1>2, StepWrites DEF ReadInv
    <3>2. row'[x] = row[x] /\ reg'[x] = reg[x]
      <4>1. ~ \E child \in Sessions : x = child /\ BranchBuilt(r, child)
        BY DEF BranchBuilt
      <4>2. CASE \E child \in Sessions : BranchBuilt(r, child)
        BY <4>1, <4>2 DEF BranchBuilt, InsertRow, TypeInv, TypeOK
      <4>3. CASE Built(r) \/ SourceBuilt(r)
        BY <3>1, <4>3 DEF Built, SourceBuilt, InsertRow, TypeInv, TypeOK
      <4>4. CASE RowDeleted(r) \/ InsertRaises(r)
        BY <3>1, <4>4 DEF RowDeleted, InsertRaises, ghosts, TypeInv, TypeOK
      <4>5. CASE \/ BuildRaises(r) \/ AsyncAccepted(r) \/ RunStarts(r) \/ RunRaises(r)
                 \/ UsageEmitted(r) \/ TaskForgotten(r) \/ CancelTurn(r)
                 \/ DeleteRaises(r)
        BY <4>5 DEF BuildRaises, AsyncAccepted, RunStarts, RunRaises, UsageEmitted,
                    TaskForgotten, CancelTurn, DeleteRaises, ghosts
      <4>6. CASE RunEnds(r)
        <5>1. /\ reg' = reg
              /\ \/ row' = row
                 \/ row' = [row EXCEPT ![req[r].s] =
                              IF row[req[r].s] = NoRow THEN NoRow
                                                       ELSE req[r].seen \cup {r}]
          BY <4>6, RunEndsWrites
        <5> QED
          BY <3>1, <5>1 DEF TypeInv, TypeOK
      <4> QED
        BY <1>2, <4>2, <4>3, <4>4, <4>5, <4>6 DEF Step
    <3> QED
      BY <2>1, <3>1, <3>2 DEF ReadInv
  <2>3. \A x \in Requests : req[x].pc \in Over => req'[x].pc \in Over
    BY <1>2, OverStaysOver DEF Next
  <2>4. ASSUME NEW x \in Requests, req'[x].pc \in Building, Fresh(x)'
        PROVE  req'[x].s \in garbled' \/ row'[req'[x].s] \in {NoRow, req'[x].seen}
    <3>1. x # r /\ req'[x] = req[x] /\ req[x].s \in Sessions /\ req[x].s \in used
      BY <1>h, <2>1, <2>4 DEF ReadInv, Handler
    <3>2. Fresh(x)
      BY <2>1, <2>4, <3>1 DEF Fresh
    <3>3. ~(req[r].s = req[x].s /\ req'[r].rec \in Recs /\ Live(r))
      BY <2>1, <2>4, <3>1 DEF Fresh, ReadInv, Live
    <3> QED
      BY <1>2, <2>4, <3>1, <3>2, <3>3, StepWrites DEF ReadInv
  <2>5. req[r].op = "delete" =>
          req'[r].pc \in {"deleting"} \cup Over /\ req'[r].began = req[r].began
    BY <1>2, <2>3, StepLocal DEF ReadInv, Over
  <2>6. \A x \in Requests : req'[x].pc \in Building => req'[x] = req[x]
    BY <2>1
  <2>7. \A x \in Requests :
          req'[x].pc \in Building \/ req'[x].op = "delete" =>
            \A q \in req'[x].began : req'[q].pc \in Over
    <3> SUFFICES ASSUME NEW x \in Requests,
                        req'[x].pc \in Building \/ req'[x].op = "delete"
                 PROVE  \A q \in req'[x].began : req'[q].pc \in Over
      OBVIOUS
    <3>1. req'[x].began = req[x].began /\ req[x].began \subseteq Requests
      BY <1>h, <2>1, <2>5 DEF Requested, History
    <3>2. req[x].pc \in Building \/ req[x].op = "delete"
      BY <2>1
    <3> QED
      BY <2>3, <3>1, <3>2 DEF ReadInv
  <2> QED
    BY <2>1, <2>2, <2>4, <2>5, <2>6, <2>7 DEF ReadInv
<1>3. CASE Restart
  <2>1. \A x \in Requests :
          /\ req'[x].pc \in Over \cup {"idle"}
          /\ req'[x].pc = "idle" => req'[x] = NewRequest
          /\ req[x].pc \in Over => req'[x].pc \in Over
          /\ req'[x].s = req[x].s /\ req'[x].op = req[x].op
          /\ req'[x].began = req[x].began
    BY <1>3, <1>h DEF Restart, Live, Over, Handler, Requested
  <2>2. /\ UNCHANGED <<row, used>>
        /\ \A s \in Sessions : row[s] = NoRow => reg'[s] = NoRec
    BY <1>3 DEF Restart
  <2>3. \A x \in Requests : req'[x].pc \notin Building
    BY <2>1 DEF Over
  <2>4. \A x \in Requests : req[x].began \subseteq Requests
    BY <1>h DEF Requested, History
  <2>5. \A x \in Requests : req'[x].op = "delete" => req'[x].pc \in Over
    BY <2>1 DEF NewRequest
  <2> QED
    BY <2>1, <2>2, <2>3, <2>4, <2>5 DEF ReadInv
<1> QED
  BY <1>1, <1>2, <1>3 DEF Next

LEMMA ReadInvHolds == Spec => []ReadInv
<1>1. Init => ReadInv
  BY NativeSessionAssumption DEF Init, ReadInv, NewRequest, Building
<1> QED
  BY <1>1, ReadInvStep, TypeInvHolds, PTL DEF Spec

(* Once a delete has arrived, only a request that is at work or comes later *)
(* brings a record of the session back.                                     *)
LastWord(d) ==
  \A r \in Requests \ {d} : req[r].s = req[d].s => r \in req[d].began

DeleteInv ==
  \A d \in Requests :
    req[d].op = "delete" /\ req[d].pc \in {"deleting", "done"} /\ LastWord(d) =>
      /\ reg[req[d].s] = NoRec
      /\ req[d].pc = "done" => row[req[d].s] = NoRow

LEMMA DeleteInvStep ==
  ASSUME TypeInv, TypeInv', ReadInv, DeleteInv, [Next]_vars
  PROVE  DeleteInv'
<1>0. CASE UNCHANGED vars
  BY <1>0 DEF vars, DeleteInv, LastWord
<1> SUFFICES ASSUME Next, NEW d \in Requests, req'[d].op = "delete",
                    req'[d].pc \in {"deleting", "done"}, LastWord(d)'
             PROVE  /\ reg'[req'[d].s] = NoRec
                    /\ req'[d].pc = "done" => row'[req'[d].s] = NoRow
  BY <1>0 DEF DeleteInv
<1>h. /\ \A x \in Requests : req[x] \in Requested /\ Handler(req[x])
      /\ req \in [Requests -> Requested]
  BY DEF TypeInv, TypeOK, Handler, Requested, Ops, Points
<1>s. req'[d].s \in Sessions
  BY DEF TypeInv, Handler
<1>1. ASSUME NEW r \in Requests, Arrival(r)
      PROVE  /\ reg'[req'[d].s] = NoRec
             /\ req'[d].pc = "done" => row'[req'[d].s] = NoRow
  <2>1. PICK s \in Sessions, q \in Requested :
          /\ req' = [req EXCEPT ![r] = q] /\ q.s = s /\ Reads(s, q)
          /\ req[r] = NewRequest /\ row' = row
          /\ q.op = "delete" => reg'[s] = NoRec
          /\ reg' \in {reg, [reg EXCEPT ![s] = NoRec], [reg EXCEPT ![s] = Client]}
    BY <1>1, ArrivalReads
  <2>2. req'[r] = q /\ \A x \in Requests : x # r => req'[x] = req[x]
    BY <1>h, <2>1
  <2>3. CASE d = r
    BY <2>1, <2>2, <2>3 DEF Reads
  <2>4. CASE d # r
    <3>1. r \notin req[d].began /\ req'[d] = req[d]
      BY <1>h, <2>1, <2>2, <2>4 DEF ReadInv, NewRequest, Over
    <3>2. s # req[d].s
      BY <2>1, <2>2, <2>4, <3>1 DEF LastWord
    <3>3. LastWord(d)
      BY <1>s, <2>1, <2>2, <3>1, NativeSessionAssumption DEF LastWord, NewRequest
    <3>4. reg'[req[d].s] = reg[req[d].s]
      BY <1>s, <2>1, <3>1, <3>2 DEF TypeInv, TypeOK
    <3> QED
      BY <2>1, <3>1, <3>3, <3>4 DEF DeleteInv
  <2> QED
    BY <2>3, <2>4
<1>2. ASSUME NEW r \in Requests, Step(r)
      PROVE  /\ reg'[req'[d].s] = NoRec
             /\ req'[d].pc = "done" => row'[req'[d].s] = NoRow
  <2>1. /\ \A x \in Requests : x # r => req'[x] = req[x]
        /\ req'[r].s = req[r].s /\ req'[r].op = req[r].op
    BY <1>2, StepLocal
  <2>2. req[d].op = "delete" /\ req[d].pc \in {"deleting"} \cup Over
    BY <2>1 DEF ReadInv
  <2>3. req'[d].s = req[d].s /\ req'[d].began = req[d].began
    BY <1>2, <2>1, <2>2, StepLocal DEF Over
  <2>4. LastWord(d)
    BY <2>1, <2>3 DEF LastWord
  <2>5. CASE d = r
    <3>1. RowDeleted(d) \/ DeleteRaises(d) \/ TaskForgotten(d) \/ CancelTurn(d)
      <4>1. ~RunEnds(d)
        BY <2>2, RunEndsWrites DEF Over
      <4> QED
        BY <1>2, <2>2, <2>5, <4>1
           DEF Step, Built, BuildRaises, InsertRaises, SourceBuilt, BranchBuilt,
               AsyncAccepted, RunStarts, RunRaises, UsageEmitted, At, Over
    <3>5. ~DeleteRaises(d)
      BY <1>h, <2>2 DEF DeleteRaises, Goto, Requested
    <3>2. CASE RowDeleted(d)
      BY <1>s, <1>h, <2>2, <2>3, <2>4, <3>2
         DEF RowDeleted, At, ghosts, DeleteInv, TypeInv, TypeOK
    <3>3. CASE TaskForgotten(d)
      BY <2>4, <3>3 DEF TaskForgotten, DeleteInv
    <3>4. CASE CancelTurn(d)
      <4>1. ~Live(d)
        BY <1>h, <3>4 DEF CancelTurn, Goto, Requested
      <4> QED
        BY <2>4, <3>4, <4>1 DEF CancelTurn, DeleteInv
    <3> QED
      BY <3>1, <3>2, <3>3, <3>4, <3>5
  <2>6. CASE d # r
    <3>1. req'[d] = req[d] /\ req[d].s \in used
      BY <1>s, <2>1, <2>6 DEF ReadInv
    <3>2. req[r].s = req[d].s => ~Live(r)
      BY <2>4, <2>6, <3>1 DEF LastWord, ReadInv, Live
    <3>3. reg'[req[d].s] = reg[req[d].s]
      BY <1>2, <1>s, <3>1, <3>2, StepWrites
    <3>4. row'[req[d].s] \in {row[req[d].s], NoRow}
      BY <1>2, <1>s, <3>1, <3>2, StepWrites
    <3> QED
      BY <2>4, <3>1, <3>3, <3>4 DEF DeleteInv
  <2> QED
    BY <2>5, <2>6
<1>3. CASE Restart
  <2>1. req'[d] = req[d] /\ req[d].pc = "done"
    BY <1>3, <1>h DEF Restart, Live, Over, Requested
  <2>2. LastWord(d)
    BY <1>3, <1>h, <2>1 DEF Restart, Requested, LastWord
  <2>3. row[req[d].s] = NoRow
    BY <2>1, <2>2 DEF DeleteInv
  <2> QED
    BY <1>3, <1>s, <2>1, <2>3 DEF Restart
<1> QED
  BY <1>1, <1>2, <1>3 DEF Next

(* A deleted session comes back, in the registry or as a row, only by a     *)
(* request that was not over when the delete arrived.                       *)
THEOREM DeleteIsTheLastWord == Spec => []DeleteIsFinal
<1>1. Init => DeleteInv
  BY DEF Init, DeleteInv, NewRequest
<1>2. TypeInv /\ DeleteInv => DeleteIsFinal
  <2> SUFFICES ASSUME TypeInv, DeleteInv, NEW d \in Requests, req[d].op = "delete",
                      req[d].pc = "done",
                      \A r \in Requests \ {d} : req[r].s = req[d].s =>
                                                  At(r, "idle") \/ r \in req[d].began
               PROVE  reg[req[d].s] = NoRec /\ row[req[d].s] = NoRow
    BY DEF DeleteIsFinal
  <2>1. req[d].s \in Sessions
    BY DEF TypeInv, Handler
  <2>2. \A r \in Requests : At(r, "idle") => req[r].s = NoRec
    BY DEF TypeInv, Handler, At, NewRequest
  <2>3. LastWord(d)
    BY <2>1, <2>2, NativeSessionAssumption DEF LastWord
  <2> QED
    BY <2>3 DEF DeleteInv
<1> QED
  BY <1>1, <1>2, TypeInvHolds, ReadInvHolds, DeleteInvStep, PTL DEF Spec
-------------------------------------------------------------------------------
(* A record is in use when the registry names it or a live request holds    *)
(* it.  A session that is no twin has one such record at most, and its row   *)
(* agrees with that one.                                                    *)
Using(s, c) ==
  /\ c[2] = s
  /\ reg[s] = c \/ \E q \in Requests : Live(q) /\ req[q].rec = c

RecordInv ==
  \A s \in Sessions \ twins :
    /\ \A c, e \in Recs : Using(s, c) /\ Using(s, e) => c = e
    /\ s \notin garbled =>
         \A c \in Recs \ unsaved :
           Using(s, c) /\ row[s] # NoRow /\ row[s] # hist[c] =>
             row[s] = {} /\ hist[c] = given[s]

(* Whoever builds a session's only record has read the row as it still is.  *)
LEMMA BuiltFresh ==
  ASSUME TypeInv, ReadInv, NEW r \in Requests,
         Built(r) \/ SourceBuilt(r) \/ InsertRaises(r), req[r].s \notin twins'
  PROVE  /\ reg[req[r].s] = NoRec /\ Fresh(r)
         /\ req[r].s \in garbled \/ row'[req[r].s] \in {NoRow, req[r].seen}
<1>1. req[r].pc \in Building /\ Handler(req[r]) /\ MarkTwins(r, req[r].s)
  BY DEF Built, SourceBuilt, InsertRaises, At, Building, TypeInv
<1>2. /\ reg[req[r].s] = NoRec
      /\ ~ \E q \in Requests \ ({r} \cup req[r].began) :
             req[q].rec \in Recs /\ req[q].rec[2] = req[r].s
  BY <1>1 DEF MarkTwins
<1>3. Fresh(r)
  BY <1>2 DEF Fresh, TypeInv, Handler
<1>4. req[r].s \in garbled \/ row[req[r].s] \in {NoRow, req[r].seen}
  BY <1>1, <1>3 DEF ReadInv
<1>5. row'[req[r].s] = row[req[r].s]
      \/ (row'[req[r].s] = {} /\ req[r].seen = {})
  <2>1. CASE Built(r) /\ req[r].insert
    BY <1>1, <2>1 DEF Built, At, InsertRow, Handler, Building, ReadInv, TypeInv, TypeOK
  <2>2. CASE ~(Built(r) /\ req[r].insert)
    BY <2>2 DEF Built, SourceBuilt, InsertRaises
  <2> QED
    BY <2>1, <2>2
<1> QED
  BY <1>2, <1>3, <1>4, <1>5

LEMMA RecordInvStep ==
  ASSUME TypeInv, TypeInv', ReadInv, RecordInv, [Next]_vars
  PROVE  RecordInv'
<1>0. CASE UNCHANGED vars
  BY <1>0 DEF vars, RecordInv, Using, Live
<1> SUFFICES ASSUME Next PROVE RecordInv'
  BY <1>0
<1>h. /\ \A x \in Requests : req[x] \in Requested /\ Handler(req[x])
      /\ req \in [Requests -> Requested]
      /\ \A c \in Recs : c[2] \in Sessions
  BY DEF TypeInv, TypeOK, Handler, Requested, Ops, Points, Recs
<1>1. ASSUME NEW r \in Requests, Arrival(r) PROVE RecordInv'
  <2>1. PICK s \in Sessions, q \in Requested :
          /\ req' = [req EXCEPT ![r] = q] /\ q.s = s /\ Reads(s, q) /\ Handler(q)
          /\ req[r] = NewRequest
          /\ reg' \in {reg, [reg EXCEPT ![s] = NoRec], [reg EXCEPT ![s] = Client]}
          /\ UNCHANGED <<hist, row, garbled, given, twins, unsaved>>
    BY <1>1, ArrivalReads
  <2>2. req'[r] = q /\ \A x \in Requests : x # r => req'[x] = req[x]
    BY <1>h, <2>1
  <2>3. ASSUME NEW x \in Sessions, NEW c \in Recs, Using(x, c)'
        PROVE  Using(x, c)
    <3>1. reg'[x] = c => reg[x] = c
      BY <2>1, NativeSessionAssumption DEF TypeInv, TypeOK
    <3>2. ASSUME NEW y \in Requests, Live(y)', req'[y].rec = c
          PROVE  reg[x] = c \/ (Live(y) /\ req[y].rec = c)
      <4>1. CASE y = r
        BY <2>1, <2>2, <2>3, <3>2, <4>1 DEF Reads, Using, Handler
      <4>2. CASE y # r
        BY <2>2, <3>2, <4>2 DEF Live
      <4> QED
        BY <4>1, <4>2
    <3> QED
      BY <2>3, <3>1, <3>2 DEF Using
  <2> QED
    BY <2>1, <2>3 DEF RecordInv
<1>2. ASSUME NEW r \in Requests,
             \/ BuildRaises(r) \/ AsyncAccepted(r) \/ RunStarts(r) \/ RunRaises(r)
             \/ UsageEmitted(r) \/ TaskForgotten(r) \/ CancelTurn(r)
             \/ RowDeleted(r) \/ DeleteRaises(r)
      PROVE  RecordInv'
  <2>1. \A x \in Requests : req'[x].rec = req[x].rec /\ (Live(x)' => Live(x))
    BY <1>2, <1>h
       DEF BuildRaises, AsyncAccepted, RunStarts, RunRaises, UsageEmitted,
           TaskForgotten, CancelTurn, RowDeleted, DeleteRaises, Goto, At, Live, Over,
           Requested
  <2>2. /\ UNCHANGED <<reg, hist, given, twins, unsaved>>
        /\ \A x \in Sessions :
             \/ row'[x] = NoRow
             \/ row'[x] = row[x] /\ (x \in garbled => x \in garbled')
    <3>1. CASE RowDeleted(r)
      BY <3>1 DEF RowDeleted, ghosts, TypeInv, TypeOK
    <3>2. CASE ~RowDeleted(r)
      BY <1>2, <3>2
         DEF BuildRaises, AsyncAccepted, RunStarts, RunRaises, UsageEmitted,
             TaskForgotten, CancelTurn, DeleteRaises, ghosts
    <3> QED
      BY <3>1, <3>2
  <2>3. \A x \in Sessions, c \in Recs : Using(x, c)' => Using(x, c)
    BY <2>1, <2>2 DEF Using
  <2> QED
    BY <2>2, <2>3 DEF RecordInv
<1>3. ASSUME NEW r \in Requests, RunEnds(r) PROVE RecordInv'
  <2>0. req[r].pc = "run" /\ \E pc \in {"usage", "failed"} : Goto(r, pc)
    BY <1>3, RunEndsWrites
  <2>1. PICK s \in Sessions, rec \in Recs :
          s = req[r].s /\ rec = req[r].rec /\ rec[2] = s
    BY <2>0 DEF TypeInv, Handler
  <2>2. \A x \in Requests : req'[x].rec = req[x].rec /\ (Live(x)' => Live(x))
    BY <1>h, <2>0 DEF Goto, Live, Over, Requested
  <2> DEFINE all == req[r].seen \cup {r}
  <2>3. /\ hist' = [hist EXCEPT ![rec] = all]
        /\ \/ row' = row /\ garbled' = garbled /\ unsaved' = unsaved \cup {rec}
           \/ /\ row' = [row EXCEPT ![s] = IF row[s] = NoRow THEN NoRow ELSE all]
              /\ garbled' \in {garbled \ {s}, garbled \cup {s}}
              /\ unsaved' = unsaved \ {rec}
        /\ UNCHANGED <<reg, given, twins>>
    BY <1>3, <2>1, RunEndsWrites
  <2> HIDE DEF all
  <2>4. /\ hist'[rec] = all /\ (row'[s] \in {NoRow, all} \/ rec \in unsaved')
        /\ \A c \in Recs : c # rec => hist'[c] = hist[c]
        /\ \A x \in Sessions : x # s => row'[x] = row[x]
        /\ \A x \in Sessions : x # s /\ x \in garbled => x \in garbled'
        /\ \A c \in Recs : c # rec /\ c \in unsaved => c \in unsaved'
    BY <2>3 DEF TypeInv, TypeOK
  <2>5. \A x \in Sessions, c \in Recs : Using(x, c)' => Using(x, c)
    BY <2>2, <2>3 DEF Using
  <2>6. Using(s, rec)
    BY <2>0, <2>1 DEF Using, Live, Over
  <2>7. ASSUME s \notin twins, NEW c \in Recs, Using(s, c)
        PROVE  c = rec
    BY <2>6, <2>7 DEF RecordInv
  <2>8. \A c \in Recs, x \in Sessions : x # s /\ Using(x, c) => c # rec
    BY <2>1 DEF Using
  <2>9. given' = given /\ twins' = twins
    BY <2>3
  <2> QED
    BY <2>4, <2>5, <2>7, <2>8, <2>9 DEF RecordInv
<1>4. ASSUME NEW r \in Requests, Built(r) \/ SourceBuilt(r) \/ InsertRaises(r)
      PROVE  RecordInv'
  <2> DEFINE rec == <<r, req[r].s>>
  <2>1. /\ rec \in Recs /\ rec[2] = req[r].s /\ req[r].s \in Sessions
        /\ req[r].pc \in Building /\ req[r].seen \in History
    BY <1>4, <1>h
       DEF Built, SourceBuilt, InsertRaises, At, Building, TypeInv, Handler, Recs,
           Requested
  <2>2. /\ req'[r].rec = rec \/ ~Live(r)'
        /\ \A x \in Requests : x # r => req'[x] = req[x]
    BY <1>4, <1>h
       DEF Built, SourceBuilt, InsertRaises, Goto, Live, Over, Requested
  <2>3. /\ hist' = [hist EXCEPT ![rec] = req[r].seen]
        /\ reg' = [reg EXCEPT ![req[r].s] = rec]
        /\ UNCHANGED <<garbled, given, unsaved>> /\ MarkTwins(r, req[r].s)
    BY <1>4 DEF Built, SourceBuilt, InsertRaises
  <2>4. /\ hist'[rec] = req[r].seen /\ reg'[req[r].s] = rec
        /\ \A c \in Recs : c # rec => hist'[c] = hist[c]
        /\ \A x \in Sessions : x # req[r].s => reg'[x] = reg[x]
    BY <2>1, <2>3 DEF TypeInv, TypeOK
  <2>5. \A x \in Sessions : x # req[r].s => row'[x] = row[x]
    BY <1>4, <2>1 DEF Built, SourceBuilt, InsertRaises, InsertRow, TypeInv, TypeOK
  <2>6. ASSUME NEW x \in Sessions, x # req[r].s, NEW c \in Recs, Using(x, c)'
        PROVE  Using(x, c) /\ c # rec
    BY <2>1, <2>2, <2>4, <2>6 DEF Using, Live
  <2>7. twins \subseteq twins'
    BY <2>3 DEF MarkTwins
  <2>8. ASSUME req[r].s \notin twins'
        PROVE  /\ reg[req[r].s] = NoRec /\ Fresh(r)
               /\ req[r].s \in garbled \/ row'[req[r].s] \in {NoRow, req[r].seen}
    BY <1>4, <2>8, BuiltFresh
  <2>9. ASSUME req[r].s \notin twins', NEW c \in Recs, Using(req[r].s, c)'
        PROVE  c = rec
    <3>1. req'[r].s = req[r].s
      BY <1>4, <1>h DEF Built, SourceBuilt, InsertRaises, Goto, Requested
    <3>2. c[2] = req[r].s
      BY <2>9, <3>1 DEF Using
    <3>3. ASSUME NEW q \in Requests, Live(q)', req'[q].rec = c, q # r
          PROVE  FALSE
      <4>1. req[q].rec = c /\ req[q].s = req[r].s /\ Live(q)
        BY <1>h, <2>2, <3>2, <3>3 DEF Live, Handler
      <4>2. q \notin req[r].began
        BY <2>1, <4>1 DEF ReadInv, Live
      <4> QED
        BY <2>8, <2>9, <3>3, <4>1, <4>2 DEF Fresh
    <3> QED
      BY <2>2, <2>4, <2>9, <3>1, <3>3 DEF Using
  <2>s. req'[r].s = req[r].s
    BY <1>4, <1>h DEF Built, SourceBuilt, InsertRaises, Goto, Requested
  <2> HIDE DEF rec
  <2> SUFFICES ASSUME NEW x \in Sessions \ twins'
               PROVE  /\ \A c, e \in Recs : Using(x, c)' /\ Using(x, e)' => c = e
                      /\ x \notin garbled' =>
                           \A c \in Recs \ unsaved' :
                             Using(x, c)' /\ row'[x] # NoRow /\ row'[x] # hist'[c] =>
                               row'[x] = {} /\ hist'[c] = given'[x]
    BY DEF RecordInv
  <2>10. CASE x # req[r].s
    BY <2>3, <2>4, <2>5, <2>6, <2>7, <2>10 DEF RecordInv
  <2>11. CASE x = req[r].s
    <3>1. \A c \in Recs : Using(x, c)' => c = rec
      BY <2>9, <2>11, <2>s DEF Using
    <3> QED
      BY <2>3, <2>4, <2>8, <2>11, <3>1
  <2> QED
    BY <2>10, <2>11
<1>5. ASSUME NEW r \in Requests, NEW child \in Sessions, BranchBuilt(r, child)
      PROVE  RecordInv'
  <2> DEFINE rec == <<r, child>>
  <2>1. rec \in Recs /\ rec[2] = child /\ child \notin used
    BY <1>5 DEF BranchBuilt, Recs
  <2>2. \A x \in Requests :
          /\ req'[x].rec = req[x].rec /\ req'[x].s = req[x].s /\ (Live(x)' => Live(x))
    BY <1>5, <1>h DEF BranchBuilt, Goto, At, Live, Over, Requested
  <2>3. /\ hist'[rec] = req[r].seen /\ reg'[child] = rec
        /\ given'[child] = req[r].seen
        /\ row'[child] \in {NoRow, {}}
        /\ \A c \in Recs : c # rec => hist'[c] = hist[c]
        /\ \A x \in Sessions : x # child =>
             reg'[x] = reg[x] /\ given'[x] = given[x] /\ row'[x] = row[x]
        /\ UNCHANGED <<garbled, twins, unsaved>>
    BY <1>5, <2>1 DEF BranchBuilt, InsertRow, ReadInv, TypeInv, TypeOK
  <2> HIDE DEF rec
  <2>4. ASSUME NEW c \in Recs, Using(child, c)'
        PROVE  c = rec
    <3>1. ASSUME NEW q \in Requests, Live(q)', req'[q].rec = c
          PROVE  FALSE
      <4>1. req[q].s = child
        BY <1>h, <2>2, <2>4, <3>1 DEF Using, Handler
      <4> QED
        BY <2>1, <4>1 DEF ReadInv
    <3> QED
      BY <2>3, <2>4, <3>1 DEF Using
  <2>5. ASSUME NEW x \in Sessions, x # child, NEW c \in Recs, Using(x, c)'
        PROVE  Using(x, c) /\ c # rec
    BY <2>1, <2>2, <2>3, <2>5 DEF Using
  <2> SUFFICES ASSUME NEW x \in Sessions \ twins'
               PROVE  /\ \A c, e \in Recs : Using(x, c)' /\ Using(x, e)' => c = e
                      /\ x \notin garbled' =>
                           \A c \in Recs \ unsaved' :
                             Using(x, c)' /\ row'[x] # NoRow /\ row'[x] # hist'[c] =>
                               row'[x] = {} /\ hist'[c] = given'[x]
    BY DEF RecordInv
  <2>6. CASE x # child
    BY <2>3, <2>5, <2>6 DEF RecordInv
  <2>7. CASE x = child
    <3>1. \A c \in Recs : Using(x, c)' => c = rec
      BY <2>4, <2>7
    <3> QED
      BY <2>3, <2>7, <3>1
  <2> QED
    BY <2>6, <2>7
<1>6. CASE Restart
  <2>1. PICK up : /\ up \subseteq {x \in Sessions : row[x] # NoRow}
                  /\ reg' = [x \in Sessions |-> IF x \in up THEN <<Boot, x>> ELSE NoRec]
                  /\ hist' = [c \in Recs |-> IF c[1] = Boot /\ c[2] \in up
                                             THEN Loaded(c[2])' ELSE {}]
                  /\ row' = row
    BY <1>6 DEF Restart
  <2>2. \A q \in Requests : ~Live(q)'
    BY <1>6, <1>h DEF Restart, Live, Over, Requested
  <2>3. ASSUME NEW x \in Sessions, NEW c \in Recs, Using(x, c)'
        PROVE  /\ c = <<Boot, x>>
               /\ x \notin garbled' => hist'[c] = row'[x]
    <3>1. reg'[x] = c
      BY <2>2, <2>3 DEF Using
    <3>2. x \in up /\ c = <<Boot, x>>
      BY <2>1, <3>1, NativeSessionAssumption
    <3>3. row'[x] # NoRow
      BY <2>1, <3>2
    <3>4. hist'[c] = Loaded(x)'
      BY <2>1, <3>2
    <3> QED
      BY <3>2, <3>3, <3>4 DEF Loaded
  <2> QED
    BY <2>3 DEF RecordInv
<1> QED
  BY <1>1, <1>2, <1>3, <1>4, <1>5, <1>6 DEF Next, Step

LEMMA RecordInvHolds == Spec => []RecordInv
<1>1. Init => RecordInv
  BY NativeSessionAssumption DEF Init, RecordInv, Using, Live, NewRequest
<1> QED
  BY <1>1, RecordInvStep, ReadInvHolds, TypeInvHolds, PTL DEF Spec

(* The process may stop at any step: as long as a session has one record,   *)
(* its row has what the record has, save a fork that has not turned yet, a   *)
(* row that does not decode and a record whose last save failed.            *)
THEOREM RowsHoldHistories == Spec => []RowHoldsHistory
<1>1. TypeInv /\ RecordInv => RowHoldsHistory
  BY DEF TypeInv, RecordInv, Using, RowHoldsHistory
<1> QED
  BY <1>1, RecordInvHolds, TypeInvHolds, PTL
-------------------------------------------------------------------------------
(* A turn that a session still has somewhere, which a save or a run could   *)
(* lose, is in the session's record and in what a run of the session read,  *)
(* unless a turn of the session that began without it has been stored, or   *)
(* it was not stored yet when the run began.                               *)
Overlapped(s, t) == \E q \in stored \ {t} : req[q].s = s /\ t \notin req[q].began

Running(q, s) == At(q, "run") /\ req[q].s = s

Held(s, t) ==
  \/ t \in Loaded(s)
  \/ \E c \in Recs : Using(s, c) /\ t \in hist[c]
  \/ \E q \in Requests : Running(q, s) /\ t \in req[q].seen

Accounted(s) ==
  \A t \in Requests : Held(s, t) =>
    /\ \A c \in Recs : Using(s, c) => t \in hist[c] \/ Overlapped(s, t)
    /\ \A q \in Requests : Running(q, s) =>
         t \in req[q].seen \/ t \notin req[q].began \/ Overlapped(s, t)

LossInv ==
  /\ \A t \in stored : req[t].pc \in {"usage"} \cup Over
  /\ \A r \in Requests : At(r, "run") => req[r].began \subseteq stored
  /\ \A s \in Sessions \ twins : Accounted(s)

(* A step that gives a session no record, run or row to read from.          *)
LEMMA AccountedKept ==
  ASSUME NEW s \in Sessions, Accounted(s), stored \subseteq Requests,
         stored \subseteq stored',
         \A q \in stored : req'[q].s = req[q].s /\ req'[q].began = req[q].began,
         Loaded(s)' \subseteq Loaded(s),
         \A c \in Recs : Using(s, c)' => Using(s, c) /\ hist'[c] = hist[c],
         \A q \in Requests : Running(q, s)' => req'[q] = req[q]
  PROVE  Accounted(s)'
<1> SUFFICES ASSUME NEW t \in Requests, Held(s, t)'
             PROVE  /\ \A c \in Recs : Using(s, c)' => t \in hist'[c] \/ Overlapped(s, t)'
                    /\ \A q \in Requests : Running(q, s)' =>
                         \/ t \in req'[q].seen \/ t \notin req'[q].began
                         \/ Overlapped(s, t)'
  BY DEF Accounted
<1>1. \A q \in Requests : Running(q, s)' => Running(q, s) /\ req'[q] = req[q]
  BY DEF Running, At
<1>2. Held(s, t)
  BY <1>1 DEF Held
<1>3. Overlapped(s, t) => Overlapped(s, t)'
  BY DEF Overlapped
<1> QED
  BY <1>1, <1>2, <1>3 DEF Accounted

(* Whoever builds the only record of a session has read all that is left.   *)
LEMMA AccountedAnew ==
  ASSUME NEW s \in Sessions, NEW rec \in Recs,
         \A c \in Recs : Using(s, c)' => c = rec,
         \A q \in Requests : ~Running(q, s)',
         Loaded(s)' \subseteq hist'[rec]
  PROVE  Accounted(s)'
<1> SUFFICES ASSUME NEW t \in Requests, Held(s, t)'
             PROVE  t \in hist'[rec]
  BY DEF Accounted
<1> QED
  BY DEF Held

(* Only the end of a run stores a turn.                                     *)
LEMMA OnlyRunsStore ==
  ASSUME NEW r \in Requests, Step(r)
  PROVE  IF RunEnds(r) THEN stored' = stored \cup {r} ELSE stored' = stored
<1>1. CASE RunEnds(r)
  BY <1>1, RunEndsWrites
<1>2. CASE ~RunEnds(r)
  BY <1>2
     DEF Step, Built, BuildRaises, InsertRaises, SourceBuilt, BranchBuilt,
         AsyncAccepted, RunStarts, RunRaises, UsageEmitted, TaskForgotten, CancelTurn,
         RowDeleted, DeleteRaises, ghosts
<1> QED
  BY <1>1, <1>2

(* Only the start of a run brings a handler to "run".                       *)
LEMMA RunStartsRuns ==
  ASSUME TypeInv, NEW r \in Requests, Step(r), req'[r].pc = "run"
  PROVE  RunStarts(r) \/ req' = req
<1>h. /\ \A x \in Requests : req[x] \in Requested
      /\ req \in [Requests -> Requested]
  BY DEF TypeInv, TypeOK, Handler, Requested, Ops, Points
<1>1. ASSUME NEW child \in Sessions, BranchBuilt(r, child) PROVE FALSE
  BY <1>1, <1>h DEF BranchBuilt, Goto, At, Requested
<1>2. ~Built(r) /\ ~SourceBuilt(r)
  BY <1>h DEF Built, SourceBuilt, Requested
<1>3. /\ ~BuildRaises(r) /\ ~AsyncAccepted(r) /\ ~RunRaises(r) /\ ~InsertRaises(r)
      /\ ~UsageEmitted(r) /\ ~RowDeleted(r) /\ ~DeleteRaises(r)
  BY <1>h DEF BuildRaises, AsyncAccepted, RunRaises, InsertRaises,
              UsageEmitted, RowDeleted, DeleteRaises, Goto, Requested
<1>4. CancelTurn(r) => req' = req
  BY <1>h DEF CancelTurn, Goto, Requested
<1>5. ~RunEnds(r)
  <2>1. RunEnds(r) => \E pc \in {"usage", "failed"} : Goto(r, pc)
    BY RunEndsWrites
  <2> QED
    BY <1>h, <2>1 DEF Goto, Requested
<1> QED
  BY <1>1, <1>2, <1>3, <1>4, <1>5 DEF Step, TaskForgotten

LEMMA LossInvStep ==
  ASSUME TypeInv, TypeInv', ReadInv, RecordInv, RecordInv', LossInv, [Next]_vars
  PROVE  LossInv'
<1>0. CASE UNCHANGED vars
  BY <1>0 DEF vars, LossInv, Accounted, Held, Overlapped, Running, Loaded, Using, Live, At
<1> SUFFICES ASSUME Next PROVE LossInv'
  BY <1>0
<1>h. /\ \A x \in Requests : req[x] \in Requested /\ Handler(req[x])
      /\ req \in [Requests -> Requested]
      /\ stored \subseteq Requests
  BY DEF TypeInv, TypeOK, Handler, Requested, Ops, Points
<1>o. \A t \in Requests : req[t].pc \in Over => req'[t].pc \in Over
  BY OverStaysOver
<1>1. ASSUME NEW r \in Requests, Arrival(r) PROVE LossInv'
  <2>1. PICK s \in Sessions, q \in Requested :
          /\ req' = [req EXCEPT ![r] = q] /\ Handler(q) /\ q.s = s /\ Reads(s, q)
          /\ q.pc # "run"
          /\ req[r] = NewRequest
          /\ reg' \in {reg, [reg EXCEPT ![s] = NoRec], [reg EXCEPT ![s] = Client]}
          /\ UNCHANGED <<hist, row, garbled, stored, twins>>
    BY <1>1, ArrivalReads
  <2>2. req'[r] = q /\ \A x \in Requests : x # r => req'[x] = req[x]
    BY <1>h, <2>1
  <2>3. r \notin stored
    BY <2>1 DEF LossInv, NewRequest, Over
  <2>4. ASSUME NEW x \in Sessions, NEW c \in Recs, Using(x, c)'
        PROVE  Using(x, c)
    <3>1. reg'[x] = c => reg[x] = c
      BY <2>1, NativeSessionAssumption DEF TypeInv, TypeOK
    <3>2. ASSUME NEW y \in Requests, Live(y)', req'[y].rec = c
          PROVE  reg[x] = c \/ (Live(y) /\ req[y].rec = c)
      <4>1. CASE y = r
        BY <2>1, <2>2, <2>4, <3>2, <4>1 DEF Reads, Using, Handler
      <4>2. CASE y # r
        BY <2>2, <3>2, <4>2 DEF Live
      <4> QED
        BY <4>1, <4>2
    <3> QED
      BY <2>4, <3>1, <3>2 DEF Using
  <2>5. \A q1 \in stored : req'[q1] = req[q1]
    BY <1>h, <2>2, <2>3
  <2>6. \A x \in Requests : At(x, "run")' => req'[x] = req[x]
    BY <2>1, <2>2 DEF At
  <2>7. \A x \in Sessions : Loaded(x)' = Loaded(x)
    BY <2>1 DEF Loaded
  <2>8. ASSUME NEW x \in Sessions \ twins' PROVE Accounted(x)'
    <3>1. Accounted(x) /\ stored' = stored /\ hist' = hist
      BY <2>1, <2>8 DEF LossInv
    <3>2. \A y \in Requests : Running(y, x)' => req'[y] = req[y]
      BY <2>6 DEF Running
    <3> QED
      BY <1>h, <2>4, <2>5, <2>7, <3>1, <3>2, AccountedKept
  <2>9. \A t \in stored' : req'[t].pc \in {"usage"} \cup Over
    BY <2>1, <2>5 DEF LossInv
  <2>10. \A x \in Requests : At(x, "run")' => req'[x].began \subseteq stored'
    BY <2>1, <2>6 DEF LossInv, At
  <2> QED
    BY <2>8, <2>9, <2>10 DEF LossInv
<1>2. ASSUME NEW r \in Requests, Step(r) PROVE LossInv'
  <2>1. /\ \A x \in Requests : x # r => req'[x] = req[x]
        /\ \A x \in Requests : req'[x].s = req[x].s
    BY <1>2, StepLocal
  <2>2. /\ stored \subseteq stored' /\ stored' \subseteq stored \cup {r}
        /\ ~RunEnds(r) => stored' = stored
    BY <1>2, OnlyRunsStore
  <2>3. r \in stored => UsageEmitted(r) \/ TaskForgotten(r) \/ CancelTurn(r)
    <3> SUFFICES ASSUME r \in stored
                 PROVE  UsageEmitted(r) \/ TaskForgotten(r) \/ CancelTurn(r)
      OBVIOUS
    <3>1. req[r].pc \in {"usage"} \cup Over
      BY DEF LossInv
    <3>2. ~RunEnds(r)
      BY <3>1, RunEndsWrites DEF Over
    <3> QED
      BY <1>2, <3>1, <3>2
         DEF Step, Built, BuildRaises, InsertRaises, SourceBuilt, BranchBuilt,
             AsyncAccepted, RunStarts, RunRaises, RowDeleted, DeleteRaises, At, Over
  <2>4. \A t \in stored' : req'[t].pc \in {"usage"} \cup Over
    <3> SUFFICES ASSUME NEW t \in stored'
                 PROVE  req'[t].pc \in {"usage"} \cup Over
      OBVIOUS
    <3>1. CASE t # r
      BY <1>h, <2>1, <2>2, <3>1 DEF LossInv
    <3>2. CASE t = r /\ RunEnds(r)
      <4>1. \E pc \in {"usage", "failed"} : Goto(r, pc)
        BY <3>2, RunEndsWrites
      <4> QED
        BY <1>h, <3>2, <4>1 DEF Goto, Over
    <3>3. CASE t = r /\ ~RunEnds(r)
      <4>1. r \in stored /\ req[r].pc \in {"usage"} \cup Over
        BY <2>2, <3>3 DEF LossInv
      <4>2. req'[r].pc \in {req[r].pc} \cup Over
        <5>1. req' = req \/ \E pc \in Over : Goto(r, pc)
          BY <2>3, <4>1 DEF UsageEmitted, TaskForgotten, CancelTurn, Over
        <5> QED
          BY <1>h, <5>1 DEF Goto, Requested
      <4> QED
        BY <3>3, <4>1, <4>2
    <3> QED
      BY <3>1, <3>2, <3>3
  <2>5. \A q \in stored : req'[q].s = req[q].s /\ req'[q].began = req[q].began
    <3>1. r \in stored => req'[r].began = req[r].began
      BY <1>h, <2>3 DEF UsageEmitted, TaskForgotten, CancelTurn, Goto, Requested
    <3> QED
      BY <1>h, <2>1, <3>1
  <2>6. \A x \in Requests : At(x, "run")' => req'[x] = req[x] \/ (x = r /\ RunStarts(r))
    BY <1>2, <2>1, RunStartsRuns DEF At
  <2>7. \A x \in Requests : At(x, "run")' => req'[x].began \subseteq stored'
    <3>1. RunStarts(r) => req'[r].began = stored
      BY <1>h DEF RunStarts, Requested
    <3> QED
      BY <2>2, <2>6, <3>1 DEF LossInv, At
  <2>8. twins \subseteq twins'
    <3>1. CASE RunEnds(r)
      BY <3>1, RunEndsWrites
    <3>2. CASE ~RunEnds(r)
      BY <1>2, <3>2
         DEF Step, Built, BuildRaises, InsertRaises, SourceBuilt, BranchBuilt,
             AsyncAccepted, RunStarts, RunRaises, UsageEmitted, TaskForgotten,
             CancelTurn, RowDeleted, DeleteRaises, MarkTwins, ghosts
    <3> QED
      BY <3>1, <3>2
  <2> SUFFICES ASSUME NEW x \in Sessions, x \notin twins' PROVE Accounted(x)'
    BY <2>4, <2>7 DEF LossInv
  <2>9. Accounted(x)
    BY <2>8 DEF LossInv
  <2>10. CASE \/ BuildRaises(r) \/ AsyncAccepted(r) \/ RunRaises(r) \/ UsageEmitted(r)
              \/ TaskForgotten(r) \/ CancelTurn(r) \/ RowDeleted(r) \/ DeleteRaises(r)
    <3>1. \A y \in Requests : req'[y].rec = req[y].rec /\ (Live(y)' => Live(y))
      BY <2>10, <1>h
         DEF BuildRaises, AsyncAccepted, RunRaises, UsageEmitted, TaskForgotten,
             CancelTurn, RowDeleted, DeleteRaises, Goto, At, Live, Over, Requested
    <3>2. UNCHANGED <<reg, hist>>
      BY <2>10
         DEF BuildRaises, AsyncAccepted, RunRaises, UsageEmitted, TaskForgotten,
             CancelTurn, RowDeleted, DeleteRaises
    <3>3. Loaded(x)' \subseteq Loaded(x)
      <4>1. CASE RowDeleted(r)
        BY <4>1 DEF RowDeleted, Loaded, TypeInv, TypeOK
      <4>2. CASE ~RowDeleted(r)
        BY <2>10, <4>2
           DEF BuildRaises, AsyncAccepted, RunRaises, UsageEmitted, TaskForgotten,
               CancelTurn, DeleteRaises, Loaded
      <4> QED
        BY <4>1, <4>2
    <3>4. \A c \in Recs : Using(x, c)' => Using(x, c) /\ hist'[c] = hist[c]
      BY <3>1, <3>2 DEF Using
    <3>5. \A q \in Requests : Running(q, x)' => req'[q] = req[q]
      <4>1. ~RunStarts(r)
        BY <1>h, <2>10
           DEF BuildRaises, AsyncAccepted, RunRaises, UsageEmitted, TaskForgotten,
               CancelTurn, RowDeleted, DeleteRaises, RunStarts, Goto, At, Live, Over,
               Requested
      <4> QED
        BY <2>6, <4>1 DEF Running
    <3> QED
      BY <1>h, <2>2, <2>5, <2>9, <3>3, <3>4, <3>5, AccountedKept
  <2>11. CASE RunStarts(r)
    <3>1. /\ UNCHANGED <<reg, hist, row, garbled, stored>>
          /\ Live(r) /\ req'[r].rec = req[r].rec
          /\ req'[r].seen = Messages(req[r].rec) /\ req'[r].began = stored
          /\ At(r, "run")' => req[r].rec \in Recs
      BY <1>h, <2>11 DEF RunStarts, At, Live, Over, ghosts, Requested
    <3>2. \A y \in Sessions, c \in Recs : Using(y, c)' => Using(y, c)
      BY <2>1, <3>1 DEF Using, Live
    <3>3. Loaded(x)' = Loaded(x)
      BY <3>1 DEF Loaded
    <3>4. CASE ~Running(r, x)'
      <4>1. \A q \in Requests : Running(q, x)' => req'[q] = req[q]
        BY <2>6, <3>4 DEF Running
      <4> QED
        BY <1>h, <2>2, <2>5, <2>9, <3>1, <3>2, <3>3, <4>1, AccountedKept
    <3>5. CASE Running(r, x)'
      <4>1. /\ req[r].rec \in Recs /\ req'[r].seen = hist[req[r].rec]
            /\ Using(x, req[r].rec)
        BY <1>h, <2>1, <3>1, <3>5 DEF Running, Messages, Using, Handler
      <4>2. \A q \in Requests : Running(q, x)' => q = r \/ (Running(q, x) /\ req'[q] = req[q])
        BY <2>6 DEF Running, At
      <4> SUFFICES ASSUME NEW t \in Requests, Held(x, t)'
                   PROVE  /\ \A c \in Recs : Using(x, c)' =>
                               t \in hist'[c] \/ Overlapped(x, t)'
                          /\ \A q \in Requests : Running(q, x)' =>
                               \/ t \in req'[q].seen \/ t \notin req'[q].began
                               \/ Overlapped(x, t)'
        BY DEF Accounted
      <4>3. Held(x, t)
        BY <3>1, <3>2, <3>3, <4>1, <4>2 DEF Held
      <4>4. Overlapped(x, t) => Overlapped(x, t)'
        BY <1>h, <2>2, <2>5 DEF Overlapped
      <4> QED
        BY <2>9, <3>1, <3>2, <4>1, <4>2, <4>3, <4>4 DEF Accounted
    <3> QED
      BY <3>4, <3>5
  <2>12. CASE RunEnds(r)
    <3>0. req[r].pc = "run" /\ \E pc \in {"usage", "failed"} : Goto(r, pc)
      BY <2>12, RunEndsWrites
    <3>1. PICK s \in Sessions, rec \in Recs :
            s = req[r].s /\ rec = req[r].rec /\ rec[2] = s
      BY <3>0 DEF TypeInv, Handler
    <3> DEFINE all == req[r].seen \cup {r}
    <3>2. /\ hist' = [hist EXCEPT ![rec] = all]
          /\ \/ row' = row /\ garbled' = garbled
             \/ /\ row' = [row EXCEPT ![s] = IF row[s] = NoRow THEN NoRow ELSE all]
                /\ garbled' \in {garbled \ {s}, garbled \cup {s}}
          /\ UNCHANGED <<reg, twins>> /\ stored' = stored \cup {r}
      BY <2>12, <3>1, RunEndsWrites
    <3>3. \A y \in Sessions, c \in Recs : Using(y, c)' => Using(y, c)
      BY <1>h, <3>0, <3>2 DEF Using, Goto, Live, Over, Requested
    <3>4. \A q \in Requests : Running(q, x)' => q # r /\ Running(q, x) /\ req'[q] = req[q]
      BY <1>h, <3>0 DEF Running, At, Goto, Requested
    <3> HIDE DEF all
    <3>5. CASE x # s
      <4>1. \A c \in Recs : Using(x, c)' => Using(x, c) /\ hist'[c] = hist[c]
        BY <3>1, <3>2, <3>3, <3>5 DEF Using, TypeInv, TypeOK
      <4>2. row'[x] = row[x] /\ (x \in garbled' <=> x \in garbled)
        BY <3>1, <3>2, <3>5 DEF TypeInv, TypeOK
      <4>3. Loaded(x)' \subseteq Loaded(x)
        BY <4>2 DEF Loaded
      <4> QED
        BY <1>h, <2>2, <2>5, <2>9, <3>4, <4>1, <4>3, AccountedKept
    <3>6. CASE x = s
      <4>1. Running(r, x) /\ Using(x, rec)
        BY <3>0, <3>1, <3>6 DEF Running, At, Using, Live, Over
      <4>2. \A c \in Recs : Using(x, c) => c = rec
        BY <2>8, <3>2, <4>1 DEF RecordInv
      <4>3. hist'[rec] = all /\ all = req[r].seen \cup {r} /\ r \notin stored
        BY <3>0, <3>2 DEF all, TypeInv, TypeOK, LossInv, Over
      <4>4. Loaded(x)' \subseteq Loaded(x) \cup all
        <5>1. \/ row'[x] = row[x] /\ garbled' = garbled
              \/ row'[x] = NoRow \/ row'[x] = all
          BY <3>2, <3>6 DEF TypeInv, TypeOK
        <5> QED
          BY <5>1 DEF Loaded
      <4> SUFFICES ASSUME NEW t \in Requests, Held(x, t)'
                   PROVE  /\ \A c \in Recs : Using(x, c)' =>
                               t \in hist'[c] \/ Overlapped(x, t)'
                          /\ \A q \in Requests : Running(q, x)' =>
                               \/ t \in req'[q].seen \/ t \notin req'[q].began
                               \/ Overlapped(x, t)'
        BY DEF Accounted
      <4>5. Overlapped(x, t) => Overlapped(x, t)'
        BY <1>h, <2>2, <2>5 DEF Overlapped
      <4>6. req'[r].began = req[r].began /\ req'[r].s = x
        BY <1>h, <3>0, <3>1, <3>6 DEF Goto, Requested
      <4>7. CASE t = r
        <5>1. \A q \in Requests : Running(q, x)' => t \notin req'[q].began
          BY <3>4, <4>3, <4>7 DEF LossInv, Running
        <5> QED
          BY <3>3, <4>2, <4>3, <4>7, <5>1
      <4>8. CASE t # r
        <5>1. Held(x, t)
          BY <3>3, <3>4, <4>1, <4>2, <4>3, <4>4, <4>8 DEF Held
        <5>2. t \in all \/ Overlapped(x, t)'
          <6>1. t \in req[r].seen \/ t \notin req[r].began \/ Overlapped(x, t)
            BY <2>9, <4>1, <5>1 DEF Accounted
          <6>2. t \notin req[r].began => Overlapped(x, t)'
            BY <3>2, <4>6, <4>8 DEF Overlapped
          <6> QED
            BY <4>3, <4>5, <6>1, <6>2
        <5> QED
          BY <2>9, <3>3, <3>4, <4>2, <4>3, <4>5, <5>1, <5>2 DEF Accounted
      <4> QED
        BY <4>7, <4>8
    <3> QED
      BY <3>5, <3>6
  <2>13. CASE Built(r) \/ SourceBuilt(r) \/ InsertRaises(r)
    <3> DEFINE rec == <<r, req[r].s>>
    <3>1. /\ rec \in Recs /\ rec[2] = req[r].s /\ req[r].s \in Sessions
          /\ req[r].pc \in Building
      BY <2>13, <1>h
         DEF Built, SourceBuilt, InsertRaises, At, Building, Handler, Recs
    <3>2. /\ hist' = [hist EXCEPT ![rec] = req[r].seen]
          /\ reg' = [reg EXCEPT ![req[r].s] = rec]
          /\ garbled' = garbled
      BY <2>13 DEF Built, SourceBuilt, InsertRaises
    <3>3. ~At(r, "run")'
      BY <2>13, <1>h DEF Built, SourceBuilt, InsertRaises, Goto, At, Requested
    <3>4. req'[r].rec = rec \/ ~Live(r)'
      BY <2>13, <1>h DEF Built, SourceBuilt, InsertRaises, Goto, Live, Over, Requested
    <3>5. \A q \in Requests : Running(q, x)' => q # r /\ Running(q, x) /\ req'[q] = req[q]
      BY <2>1, <3>3 DEF Running, At
    <3> HIDE DEF rec
    <3>6. /\ hist'[rec] = req[r].seen /\ reg'[req[r].s] = rec
          /\ \A c \in Recs : c # rec => hist'[c] = hist[c]
          /\ \A y \in Sessions : y # req[r].s => reg'[y] = reg[y]
      BY <1>h, <3>1, <3>2 DEF TypeInv, TypeOK, Requested
    <3>7. CASE x # req[r].s
      <4>1. row'[x] = row[x]
        BY <2>13, <3>1, <3>7
           DEF Built, SourceBuilt, InsertRaises, InsertRow, TypeInv, TypeOK
      <4>2. Loaded(x)' \subseteq Loaded(x)
        BY <3>2, <4>1 DEF Loaded
      <4>3. \A c \in Recs : Using(x, c)' => Using(x, c) /\ hist'[c] = hist[c]
        BY <2>1, <3>1, <3>4, <3>6, <3>7 DEF Using, Live
      <4> QED
        BY <1>h, <2>2, <2>5, <2>9, <3>5, <4>2, <4>3, AccountedKept
    <3>8. CASE x = req[r].s
      <4>1. Fresh(r) /\ (x \in garbled \/ row'[x] \in {NoRow, req[r].seen})
        BY <2>13, <3>8, BuiltFresh
      <4>2. Loaded(x)' \subseteq hist'[rec]
        BY <3>2, <3>6, <4>1 DEF Loaded
      <4>3. \A c \in Recs : Using(x, c)' => c = rec
        <5>1. PICK e \in Recs : e = rec /\ e[2] = x /\ reg'[x] = e
          BY <3>1, <3>6, <3>8
        <5>2. Using(x, e)'
          BY <5>1 DEF Using
        <5> QED
          BY <5>1, <5>2 DEF RecordInv
      <4>4. \A q \in Requests : ~Running(q, x)'
        <5> SUFFICES ASSUME NEW q \in Requests, Running(q, x), q # r PROVE FALSE
          BY <3>5
        <5>1. req[q].rec \in Recs /\ req[q].s = req[r].s /\ req[q].pc \notin Over
          BY <1>h, <3>8 DEF Running, At, Handler, Over
        <5>2. q \in req[r].began
          BY <4>1, <5>1 DEF Fresh
        <5> QED
          BY <3>1, <5>1, <5>2 DEF ReadInv
      <4> QED
        BY <3>1, <4>2, <4>3, <4>4, AccountedAnew
    <3> QED
      BY <3>7, <3>8
  <2>14. ASSUME NEW child \in Sessions, BranchBuilt(r, child) PROVE Accounted(x)'
    <3> DEFINE rec == <<r, child>>
    <3>1. rec \in Recs /\ rec[2] = child /\ child \notin used
      BY <2>14 DEF BranchBuilt, Recs
    <3>2. \A y \in Requests : req'[y].rec = req[y].rec /\ (Live(y)' => Live(y))
      BY <2>14, <1>h DEF BranchBuilt, Goto, At, Live, Over, Requested
    <3>3. /\ hist' = [hist EXCEPT ![rec] = req[r].seen]
          /\ reg' = [reg EXCEPT ![child] = rec]
          /\ row' = row \/ row' = [row EXCEPT ![child] = IF row[child] = NoRow THEN {}
                                                         ELSE row[child]]
          /\ garbled' = garbled
      BY <2>14 DEF BranchBuilt, InsertRow
    <3>4. row[child] = NoRow /\ \A q \in Requests : req[q].s # child
      BY <3>1 DEF ReadInv
    <3>5. \A q \in Requests : Running(q, x)' => Running(q, x) /\ req'[q] = req[q]
      <4>1. ~RunStarts(r)
        BY <2>14 DEF BranchBuilt, RunStarts, At
      <4> QED
        BY <2>6, <4>1 DEF Running, At
    <3> HIDE DEF rec
    <3>6. /\ reg'[child] = rec /\ row'[child] \in {NoRow, {}}
          /\ \A c \in Recs : c # rec => hist'[c] = hist[c]
          /\ \A y \in Sessions : y # child => reg'[y] = reg[y] /\ row'[y] = row[y]
      BY <3>1, <3>3, <3>4 DEF TypeInv, TypeOK
    <3>7. CASE x # child
      <4>1. Loaded(x)' \subseteq Loaded(x)
        BY <3>3, <3>6, <3>7 DEF Loaded
      <4>2. \A c \in Recs : Using(x, c)' => Using(x, c) /\ hist'[c] = hist[c]
        BY <3>1, <3>2, <3>6, <3>7 DEF Using
      <4> QED
        BY <1>h, <2>2, <2>5, <2>9, <3>5, <4>1, <4>2, AccountedKept
    <3>8. CASE x = child
      <4>1. \A c \in Recs : Using(x, c)' => c = rec
        <5>1. Using(x, rec)'
          BY <3>1, <3>6, <3>8 DEF Using
        <5> QED
          BY <3>1, <5>1 DEF RecordInv
      <4>2. Loaded(x)' \subseteq hist'[rec]
        BY <3>6, <3>8 DEF Loaded
      <4>3. \A q \in Requests : ~Running(q, x)'
        BY <3>4, <3>5, <3>8 DEF Running
      <4> QED
        BY <3>1, <4>1, <4>2, <4>3, AccountedAnew
    <3> QED
      BY <3>7, <3>8
  <2> QED
    BY <1>2, <2>10, <2>11, <2>12, <2>13, <2>14 DEF Step
<1>3. CASE Restart
  <2>1. PICK up : /\ up \subseteq {x \in Sessions : row[x] # NoRow}
                  /\ reg' = [x \in Sessions |-> IF x \in up THEN <<Boot, x>> ELSE NoRec]
                  /\ hist' = [c \in Recs |-> IF c[1] = Boot /\ c[2] \in up
                                             THEN Loaded(c[2])' ELSE {}]
                  /\ stored' = stored
    BY <1>3 DEF Restart
  <2>2. \A x \in Requests :
          /\ req'[x].pc # "run" /\ ~Live(x)'
          /\ req[x].pc \in {"usage"} \cup Over => req'[x].pc \in {"usage"} \cup Over
    BY <1>3, <1>h DEF Restart, Live, Over, Requested
  <2>3. ASSUME NEW x \in Sessions PROVE Accounted(x)'
    <3>1. \A c \in Recs : Using(x, c)' => c = <<Boot, x>> /\ x \in up
      <4> SUFFICES ASSUME NEW c \in Recs, Using(x, c)'
                   PROVE  c = <<Boot, x>> /\ x \in up
        OBVIOUS
      <4>1. reg'[x] = c
        BY <2>2 DEF Using
      <4> QED
        BY <2>1, <4>1, NativeSessionAssumption
    <3>2. \A c \in Recs : Using(x, c)' => hist'[c] = Loaded(x)'
      BY <2>1, <3>1
    <3>3. \A q \in Requests : ~Running(q, x)'
      BY <2>2 DEF Running, At
    <3> QED
      BY <3>2, <3>3 DEF Accounted, Held
  <2> QED
    BY <1>h, <2>1, <2>2, <2>3 DEF LossInv, At
<1> QED
  BY <1>1, <1>2, <1>3 DEF Next

(* Whatever a session would still have been able to show and its record     *)
(* lacks once a run has ended, was stored after a turn of the session began *)
(* that has been stored as well, unless two records raced for the session:  *)
(* however many saves failed or rows went bad before.                      *)
THEOREM LossNeedsOverlap == Spec => TurnLostOnlyByOverlap
<1>1. Init => LossInv
  BY NativeSessionAssumption
     DEF Init, LossInv, Accounted, Held, Running, Loaded, Using, Live, At, NewRequest
<1> DEFINE kept ==
      \A s \in Sessions \ twins : \A r \in stored' \ stored :
        req[r].s = s =>
          \A t \in (Loaded(s) \cup hist[req[r].rec]) \ hist'[req[r].rec] :
            \E q \in stored' \ {t} : req[q].s = s /\ t \notin req[q].began
<1>2. TypeInv /\ LossInv /\ [Next]_vars => [kept]_vars
  <2> SUFFICES ASSUME TypeInv, LossInv, Next,
                      NEW s \in Sessions \ twins, NEW r \in stored' \ stored,
                      req[r].s = s,
                      NEW t \in (Loaded(s) \cup hist[req[r].rec]) \ hist'[req[r].rec]
               PROVE  \E q \in stored' \ {t} : req[q].s = s /\ t \notin req[q].began
    BY DEF vars
  <2>1. r \in Requests /\ RunEnds(r)
    <3>1. ASSUME NEW x \in Requests, Arrival(x) PROVE FALSE
      BY <3>1, ArrivalReads
    <3>2. ASSUME NEW x \in Requests, Step(x) PROVE x = r /\ RunEnds(r)
      BY <3>2, OnlyRunsStore
    <3>3. CASE Restart
      BY <3>3 DEF Restart
    <3> QED
      BY <3>1, <3>2, <3>3 DEF Next
  <2>2. PICK rec \in Recs : rec = req[r].rec /\ rec[2] = s /\ req[r].pc = "run"
    BY <2>1, RunEndsWrites DEF TypeInv, Handler
  <2>3. hist' = [hist EXCEPT ![rec] = req[r].seen \cup {r}] /\ stored' = stored \cup {r}
    BY <2>1, <2>2, RunEndsWrites
  <2>4. t \notin req[r].seen /\ t # r
    BY <2>2, <2>3 DEF TypeInv, TypeOK
  <2>5. Using(s, rec) /\ Running(r, s)
    BY <2>1, <2>2 DEF Using, Running, Live, At, Over
  <2>6. t \in Requests /\ Held(s, t)
    <3>1. Loaded(s) \subseteq Requests /\ hist[rec] \subseteq Requests
      BY <2>2 DEF Loaded, TypeInv, TypeOK, History
    <3> QED
      BY <2>2, <2>5, <3>1 DEF Held
  <2>7. t \notin req[r].began \/ Overlapped(s, t)
    BY <2>1, <2>4, <2>5, <2>6 DEF LossInv, Accounted
  <2> QED
    BY <2>3, <2>4, <2>7 DEF Overlapped
<1> QED
  BY <1>1, <1>2, TypeInvHolds, ReadInvHolds, RecordInvHolds, LossInvStep, PTL
     DEF Spec, TurnLostOnlyByOverlap
=============================================================================
