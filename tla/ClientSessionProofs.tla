-------------------------- MODULE ClientSessionProofs --------------------------
(***************************************************************************)
(* Theorems about ClientSession for any sessions, any requests and any     *)
(* number of restarts and lost connections.                                *)
(***************************************************************************)
EXTENDS ClientSession, TLAPS

Ops == {"none", "create", "turn", "fork", "spawn", "archive", "reconnect", "delete"}
Working == {"tick", "queued", "running", "forking"}
Waiting == {"ensure", "poll", "send", "rpc"}
Points == {"idle", "build", "child", "deleting"} \cup Working \cup Waiting \cup Over
Requested ==
  [op : Ops, s : Sessions \cup {NoClient}, pc : Points,
   client : Clients \cup {NoClient}, insert : BOOLEAN, resume : BOOLEAN,
   sid : Natives \cup {NoNative}, before : SUBSET Requests]

(* What the code after an await relies on: the handler has a client of its  *)
(* session, of the right harness, and a process runs a known native session. *)
Handler(q) ==
  /\ q \in Requested
  /\ q.pc = "idle" => q = NewRequest
  /\ q.client \in Clients => q.client[3] = q.s
  /\ q.pc \in {"build", "child"} \cup Working => q.s \in Claude
  /\ q.pc \in Waiting => q.s \in Claw
  /\ q.pc = "deleting" => q.s \in Sessions
  /\ q.pc \in Working \cup Waiting => q.client \in Clients
  /\ q.pc \in {"tick", "queued", "running"} => q.op = "turn"
  /\ q.pc \in {"forking", "child"} => q.op = "fork"
  /\ q.pc = "running" => q.sid \in Natives
  /\ q.pc = "build" =>
       /\ q.op \in {"create", "turn", "fork", "spawn"}
       /\ q.insert => q.op = "create"
       /\ q.op = "create" => q.sid = NoNative

(* What a fork notes of the requests before it is over.                     *)
Noted(q) == \A x \in q.before : req[x].pc \in Over

TypeInv ==
  /\ reg \in [Sessions -> Clients \cup {NoClient}]
  /\ \A s \in Sessions : reg[s] \in Clients => reg[s][3] = s
  /\ row \in [Sessions -> Natives \cup {NoNative, NoRow}]
  /\ native \in [Clients -> Natives \cup {NoNative}]
  /\ req \in [Requests -> Requested]
  /\ \A r \in Requests : Handler(req[r])
  /\ \A r \in Requests : Noted(req[r])

LEMMA NewRequestHandled == Handler(NewRequest)
BY ClientSessionAssumption
   DEF Handler, NewRequest, Requested, Ops, Points, Working, Waiting, Over

LEMMA TypeInvInit == Init => TypeInv
<1> SUFFICES ASSUME Init PROVE TypeInv
  OBVIOUS
<1> USE ClientSessionAssumption
<1>1. \A r \in Requests : req[r] = NewRequest
  BY DEF Init
<1>2. req \in [Requests -> Requested]
  BY <1>1, NewRequestHandled DEF Init, Handler
<1>3. \A s \in Restored : <<Boot, 1, s>> \in Clients /\ <<Boot, 1, s>>[3] = s
  BY DEF Clients, Sessions
<1>4. native \in [Clients -> Natives \cup {NoNative}]
  <2>1. \A c \in {<<Boot, 1, s>> : s \in Restored} : c[3] \in Natives
    BY DEF Natives
  <2> QED
    BY <2>1 DEF Init
<1>5. row \in [Sessions -> Natives \cup {NoNative, NoRow}]
  BY DEF Init, Natives
<1>6. /\ reg \in [Sessions -> Clients \cup {NoClient}]
      /\ \A s \in Sessions : reg[s] \in Clients => reg[s][3] = s
  BY <1>3 DEF Init
<1>7. \A r \in Requests : Handler(req[r]) /\ req[r].before = {}
  BY <1>1, NewRequestHandled DEF NewRequest
<1> QED
  BY <1>2, <1>4, <1>5, <1>6, <1>7 DEF TypeInv, Noted

(* A step of the handler of r, which was not over, that makes it q.         *)
Moves(r, q) ==
  /\ req[r].pc \notin Over
  /\ req' = [req EXCEPT ![r] = q]
  /\ Handler(q)
  /\ Noted(q)

LEMMA HandlersKept ==
  ASSUME TypeInv, NEW r \in Requests, NEW q, Moves(r, q)
  PROVE  /\ req' \in [Requests -> Requested]
         /\ \A x \in Requests : Handler(req'[x])
         /\ \A x \in Requests : Noted(req[x])'
<1>1. req' \in [Requests -> Requested] /\ req'[r] = q
  BY DEF TypeInv, Moves, Handler
<1>2. \A x \in Requests : x # r => req'[x] = req[x]
  BY DEF TypeInv, Moves
<1>3. \A x \in Requests : Handler(req'[x])
  BY <1>1, <1>2 DEF TypeInv, Moves
<1>4. \A x \in Requests : \A y \in req'[x].before : y \in Requests /\ req[y].pc \in Over
  <2>1. \A x \in Requests : req'[x].before \subseteq Requests
    BY <1>1 DEF Requested
  <2> QED
    BY <1>1, <1>2, <2>1 DEF TypeInv, Moves, Noted
<1>5. \A x \in Requests : \A y \in req'[x].before : y # r /\ req'[y].pc \in Over
  BY <1>2, <1>4 DEF Moves
<1> QED
  BY <1>1, <1>3, <1>5 DEF Noted

(* q is the handler as, over.                                               *)
Closed(q, as, pc) ==
  /\ Handler(q)
  /\ q.pc = pc /\ q.op = as.op /\ q.s = as.s /\ q.client = as.client /\ q.before = {}

LEMMA OverHandled ==
  ASSUME NEW as, Handler(as), NEW pc \in Over
  PROVE  Closed(Ended(as, pc), as, pc)
<1> DEFINE q == Ended(as, pc)
<1>1. as \in Requested
  BY DEF Handler
<1>2. /\ q \in Requested
      /\ q.pc = pc /\ q.op = as.op /\ q.s = as.s /\ q.client = as.client
      /\ q.before = {}
  BY <1>1 DEF Ended, NewRequest, Requested, Points
<1> QED
  BY <1>2 DEF Closed, Handler, Points, Working, Waiting, Over

LEMMA OverMoves ==
  ASSUME TypeInv, NEW r \in Requests, req[r].pc \notin Over, NEW pc \in Over,
         Goto(r, pc)
  PROVE  \E q : /\ Moves(r, q)
                /\ q.pc = pc /\ q.op = req[r].op
                /\ q.s = req[r].s /\ q.client = req[r].client
<1> DEFINE q == Ended(req[r], pc)
<1>1. Handler(req[r])
  BY DEF TypeInv
<1>2. req' = [req EXCEPT ![r] = q]
  BY DEF Goto
<1>3. Closed(q, req[r], pc)
  BY <1>1, OverHandled
<1> QED
  BY <1>2, <1>3 DEF Closed, Moves, Noted

(* An arrival as the handler as, at work or already over.                   *)
Becomes(r, q, as) ==
  /\ Moves(r, q)
  /\ q.pc = as.pc /\ q.op = as.op /\ q.s = as.s /\ q.client = as.client
  /\ q.pc \notin Over => q = as

LEMMA ArriveMoves ==
  ASSUME TypeInv, NEW r \in Requests, NEW as, Handler(as), Arrive(r, as),
         Noted(as)
  PROVE  /\ req[r] = NewRequest
         /\ \E q : Becomes(r, q, as)
<1>1. Handler(req[r]) /\ req[r].pc = "idle"
  BY DEF TypeInv, Arrive, At
<1>2. req[r] = NewRequest /\ req[r].pc \notin Over
  BY <1>1 DEF Handler, Over
<1>3. CASE as.pc \in Over
  <2>1. req' = [req EXCEPT ![r] = Ended(as, as.pc)]
    BY <1>3 DEF Arrive
  <2> DEFINE q == Ended(as, as.pc)
  <2>2. Closed(q, as, as.pc)
    BY <1>3, OverHandled
  <2>3. Handler(q) /\ q.pc = as.pc /\ q.op = as.op /\ q.s = as.s
        /\ q.client = as.client /\ q.before = {}
    BY <2>2 DEF Closed
  <2>4. Moves(r, q)
    BY <1>2, <2>1, <2>3 DEF Moves, Noted
  <2> HIDE DEF q
  <2> QED
    BY <1>2, <1>3, <2>3, <2>4 DEF Becomes
<1>4. CASE as.pc \notin Over
  <2>1. req' = [req EXCEPT ![r] = as]
    BY <1>4 DEF Arrive
  <2> QED
    BY <1>2, <1>4, <2>1 DEF Moves, Becomes
<1> QED
  BY <1>3, <1>4

(* A request that asks op of the session s, before it knows anything else.  *)
Fresh(q, op, s) ==
  /\ q \in Requested
  /\ q.op = op /\ q.s = s /\ q.client = NoClient /\ q.pc = "idle"
  /\ q.insert = FALSE /\ q.sid = NoNative /\ q.before = {}

LEMMA AsksFields ==
  ASSUME NEW r, NEW op \in Ops, NEW s \in Sessions
  PROVE  Fresh(Asks(r, op, s), op, s)
BY DEF Fresh, Asks, NewRequest, Requested, Points

LEMMA CreateClaudeMoves ==
  ASSUME TypeInv, NEW r \in Requests, NEW s \in Claude, CreateClaude(r, s)
  PROVE  /\ req[r] = NewRequest
         /\ \E q : /\ Moves(r, q)
                   /\ q.op = "create" /\ q.s = s /\ q.pc = "build"
                   /\ q.client = NoClient /\ q.sid = NoNative
<1> DEFINE a == Asks(r, "create", s)
           as == [a EXCEPT !.pc = "build", !.insert = TRUE]
<1>1. s \in Sessions /\ NoClient \notin Clients
  BY ClientSessionAssumption DEF Sessions
<1>2. Fresh(a, "create", s)
  BY <1>1, AsksFields DEF Ops
<1> HIDE DEF a
<1>3. /\ as \in Requested
      /\ as.op = "create" /\ as.s = s /\ as.pc = "build" /\ as.client = NoClient
      /\ as.sid = NoNative /\ as.before = {}
  BY <1>2 DEF Fresh, Requested, Points
<1>4. Handler(as)
  BY <1>1, <1>3 DEF Handler, Working, Waiting
<1>5. Arrive(r, as)
  BY DEF CreateClaude, a
<1> HIDE DEF as
<1>6. /\ req[r] = NewRequest
      /\ \E q : Becomes(r, q, as)
  BY <1>3, <1>4, <1>5, ArriveMoves DEF Noted
<1>7. as.pc \notin Over
  BY <1>3 DEF Over
<1> QED
  BY <1>3, <1>6, <1>7 DEF Becomes

(* What a handler of s goes on with when it has the client c of s.          *)
LEMMA WithClientHandled ==
  ASSUME NEW as, as \in Requested, as.s \in Claude,
         as.op \in {"create", "turn", "fork", "spawn"},
         NEW c \in Clients, c[3] = as.s,
         NEW sid \in Natives \cup {NoNative}, NEW ask \in BOOLEAN
  PROVE  LET q == WithClient(as, c, sid, ask) IN
         /\ Handler(q)
         /\ q.op = as.op /\ q.s = as.s /\ q.client = c
         /\ q.pc = CASE as.op = "turn" -> "tick" [] as.op = "fork" -> "forking"
                     [] OTHER -> "done"
         /\ q.before \subseteq as.before
<1> DEFINE q == WithClient(as, c, sid, ask)
           pc == CASE as.op = "turn" -> "tick" [] as.op = "fork" -> "forking"
                     [] OTHER -> "done"
           resume == ask \/ sid # NoNative
           before == IF as.op = "fork" THEN as.before ELSE {}
<1>1. pc \in Points /\ resume \in BOOLEAN /\ before \subseteq as.before
  BY DEF Points, Working, Over
<1>2. q = [as EXCEPT !.client = c, !.resume = resume, !.before = before, !.pc = pc]
  BY DEF WithClient
<1>d. /\ pc = "tick" => as.op = "turn"
      /\ pc = "forking" => as.op = "fork"
      /\ pc \in {"tick", "forking", "done"}
  OBVIOUS
<1> HIDE DEF pc, resume, before, q
<1>3. /\ q \in Requested
      /\ q.op = as.op /\ q.s = as.s /\ q.client = c /\ q.pc = pc /\ q.before = before
  BY <1>1, <1>2 DEF Requested
<1>4. Handler(q)
  BY <1>d, <1>3 DEF Handler, Working, Waiting
<1> QED
  BY <1>1, <1>3, <1>4 DEF pc, q

LEMMA UseClaudeMoves ==
  ASSUME TypeInv, NEW r \in Requests, NEW s \in Claude, NEW ask \in BOOLEAN,
         NEW op \in {"turn", "fork", "spawn"}, UseClaude(r, s, op, ask)
  PROVE  /\ req[r] = NewRequest
         /\ \E q : /\ Moves(r, q)
                   /\ q.op = op /\ q.s = s
                   /\ \/ /\ reg[s] \in Clients /\ q.client = reg[s]
                         /\ q.pc \in {"tick", "forking", "done"}
                      \/ /\ reg[s] = NoClient /\ row[s] # NoRow
                         /\ q.pc = "build" /\ q.client = NoClient /\ q.sid = row[s]
<1> DEFINE over == {q \in Requests : req[q].pc \in Over}
           a == Asks(r, op, s)
           b == [a EXCEPT !.before = over]
<1>1. /\ s \in Sessions /\ reg[s] \in Clients \cup {NoClient}
      /\ reg[s] \in Clients => reg[s][3] = s /\ native[reg[s]] \in Natives \cup {NoNative}
      /\ row[s] # NoRow => row[s] \in Natives \cup {NoNative}
  BY DEF TypeInv, Sessions
<1>2. Fresh(a, op, s)
  BY <1>1, AsksFields DEF Ops
<1>3. over \subseteq Requests /\ \A x \in over : req[x].pc \in Over
  OBVIOUS
<1> HIDE DEF a, over
<1>4. /\ b \in Requested /\ b.op = op /\ b.s = s /\ b.client = NoClient
      /\ b.insert = FALSE /\ b.before = over
  BY <1>2, <1>3 DEF Fresh, Requested
<1> HIDE DEF b
<1>5. CASE reg[s] # NoClient
  <2> DEFINE as == WithClient(b, reg[s], native[reg[s]], ask)
  <2>1. /\ Handler(as)
        /\ as.op = op /\ as.s = s /\ as.client = reg[s]
        /\ as.pc = CASE op = "turn" -> "tick" [] op = "fork" -> "forking"
                    [] OTHER -> "done"
        /\ as.before \subseteq over
    BY <1>1, <1>4, <1>5, WithClientHandled
  <2>2. Arrive(r, as)
    BY <1>5 DEF UseClaude, b, a, over
  <2>3. as.pc \in {"tick", "forking", "done"}
    BY <2>1 DEF Over
  <2> HIDE DEF as
  <2>4. Noted(as)
    BY <1>3, <2>1 DEF Noted
  <2>5. /\ req[r] = NewRequest
        /\ \E q : Becomes(r, q, as)
    BY <2>1, <2>2, <2>4, ArriveMoves
  <2> QED
    BY <1>1, <1>5, <2>1, <2>3, <2>5 DEF Becomes
<1>6. CASE reg[s] = NoClient
  <2> DEFINE as == [b EXCEPT !.pc = "build", !.sid = row[s], !.resume = ask]
  <2>1. row[s] # NoRow /\ Arrive(r, as)
    BY <1>6 DEF UseClaude, b, a, over
  <2>2. /\ as \in Requested /\ as.op = op /\ as.s = s /\ as.pc = "build"
        /\ as.client = NoClient /\ as.sid = row[s] /\ as.before = over
        /\ as.insert = FALSE
    BY <1>1, <1>4, <2>1 DEF Requested, Points
  <2>3. Handler(as)
    BY <2>2, ClientSessionAssumption DEF Handler, Working, Waiting
  <2> HIDE DEF as
  <2>4. Noted(as)
    BY <1>3, <2>2 DEF Noted
  <2>5. /\ req[r] = NewRequest
        /\ \E q : Becomes(r, q, as)
    BY <2>1, <2>3, <2>4, ArriveMoves
  <2>6. as.pc \notin Over
    BY <2>2 DEF Over
  <2> QED
    BY <1>6, <2>1, <2>2, <2>5, <2>6 DEF Becomes
<1> QED
  BY <1>5, <1>6

LEMMA ClaudeBuiltMoves ==
  ASSUME TypeInv, NEW r \in Requests, ClaudeBuilt(r)
  PROVE  LET s == req[r].s IN
         /\ req[r].pc = "build" /\ s \in Claude /\ s \in Sessions
         /\ <<r, 1, s>> \in Clients /\ <<r, 1, s>>[3] = s
         /\ \E q : /\ Moves(r, q)
                   /\ q.s = s /\ q.client = <<r, 1, s>>
                   /\ q.pc \in {"tick", "forking", "done"}
<1> DEFINE s == req[r].s
           c == <<r, 1, s>>
           as == WithClient(req[r], c, req[r].sid, req[r].resume)
<1>1. Handler(req[r]) /\ req[r].pc = "build"
  BY DEF TypeInv, ClaudeBuilt, At
<1>2. s \in Claude /\ s \in Sessions /\ c \in Clients /\ c[3] = s
  BY <1>1 DEF Handler, Sessions, Clients
<1>3. /\ req[r] \in Requested /\ req[r].op \in {"create", "turn", "fork", "spawn"}
      /\ req[r].sid \in Natives \cup {NoNative} /\ req[r].resume \in BOOLEAN
  BY <1>1 DEF Handler, Requested
<1> HIDE DEF c
<1>4. /\ Handler(as) /\ as.s = s /\ as.client = c
      /\ as.pc = CASE req[r].op = "turn" -> "tick" [] req[r].op = "fork" -> "forking"
                  [] OTHER -> "done"
      /\ as.before \subseteq req[r].before
  BY <1>2, <1>3, WithClientHandled
<1>5. req' = [req EXCEPT ![r] = IF as.pc = "done" THEN Ended(as, "done") ELSE as]
  BY DEF ClaudeBuilt, c, TypeInv
<1>6. req[r].pc \notin Over /\ "done" \in Over
  BY <1>1 DEF Over
<1>7. as.pc \in {"tick", "forking", "done"}
  BY <1>4
<1> HIDE DEF as
<1>8. Noted(as)
  BY <1>4 DEF TypeInv, Noted
<1>9. \E q : /\ Moves(r, q)
             /\ q.s = s /\ q.client = c /\ q.pc \in {"tick", "forking", "done"}
  <2>1. CASE as.pc = "done"
    <3> DEFINE q == Ended(as, "done")
    <3>1. Closed(q, as, "done")
      BY <1>4, <1>6, OverHandled
    <3>2. req' = [req EXCEPT ![r] = q]
      BY <1>5, <2>1
    <3> HIDE DEF q
    <3>3. Moves(r, q)
      BY <1>6, <3>1, <3>2 DEF Moves, Closed, Noted
    <3> QED
      BY <1>4, <1>6, <3>1, <3>3 DEF Closed
  <2>2. CASE as.pc # "done"
    <3>1. req' = [req EXCEPT ![r] = as] /\ as.pc \in {"tick", "forking"}
      BY <1>5, <1>7, <2>2
    <3> QED
      BY <1>4, <1>6, <1>8, <3>1 DEF Moves
  <2> QED
    BY <2>1, <2>2
<1> QED
  BY <1>1, <1>2, <1>9 DEF c

LEMMA TickMoves ==
  ASSUME TypeInv, NEW r \in Requests, TickStarted(r)
  PROVE  /\ req[r].pc = "tick"
         /\ \E q : /\ Moves(r, q) /\ q.pc = "queued"
                   /\ q.s = req[r].s /\ q.client = req[r].client
<1> DEFINE q == [req[r] EXCEPT !.pc = "queued"]
<1>1. Handler(req[r]) /\ req[r].pc = "tick" /\ req' = [req EXCEPT ![r] = q]
  BY DEF TypeInv, TickStarted, At, Goto, Over
<1>2. /\ Handler(q) /\ q.pc = "queued"
      /\ q.s = req[r].s /\ q.client = req[r].client /\ q.before = req[r].before
  BY <1>1 DEF Handler, Requested, Points, Working, Waiting, Over
<1> HIDE DEF q
<1>3. Moves(r, q)
  BY <1>1, <1>2 DEF Moves, Over, TypeInv, Noted
<1> QED
  BY <1>1, <1>2, <1>3

LEMMA SpawnMoves ==
  ASSUME TypeInv, NEW r \in Requests, Spawn(r)
  PROVE  /\ req[r].pc = "queued"
         /\ \E q : /\ Moves(r, q) /\ q.pc = "running"
                   /\ q.s = req[r].s /\ q.client = req[r].client
                   /\ q.sid \in Natives /\ q.sid \in {native[req[r].client], r}
<1> DEFINE sid == IF req[r].resume /\ native[req[r].client] # NoNative
                  THEN native[req[r].client] ELSE r
           q == [req[r] EXCEPT !.pc = "running", !.sid = sid]
<1>1. Handler(req[r]) /\ req[r].pc = "queued"
  BY DEF TypeInv, Spawn, At
<1>2. req[r].client \in Clients
  BY <1>1 DEF Handler, Working
<1>3. sid \in Natives /\ sid \in {native[req[r].client], r}
  BY <1>2 DEF TypeInv, Natives
<1>4. req' = [req EXCEPT ![r] = q]
  BY DEF Spawn, TypeInv
<1> HIDE DEF sid
<1>5. /\ Handler(q) /\ q.pc = "running" /\ q.sid = sid
      /\ q.s = req[r].s /\ q.client = req[r].client /\ q.before = req[r].before
  BY <1>1, <1>3 DEF Handler, Requested, Points, Working, Waiting, Over
<1> HIDE DEF q
<1>6. Moves(r, q)
  BY <1>1, <1>4, <1>5 DEF Moves, Over, TypeInv, Noted
<1> QED
  BY <1>1, <1>3, <1>5, <1>6

LEMMA EndMoves ==
  ASSUME TypeInv, NEW r \in Requests,
         \/ ResultArrives(r) \/ ProcessDies(r) \/ ForkFails(r) \/ RowDeleted(r)
         \/ ChildBuilt(r)
  PROVE  /\ req[r].pc \in {"running", "forking", "deleting", "child"}
         /\ \E q : /\ Moves(r, q) /\ q.pc \in {"done", "failed"} /\ q.op = req[r].op
                   /\ q.s = req[r].s /\ q.client = req[r].client
<1>1. PICK pc \in {"done", "failed"} : Goto(r, pc)
  BY DEF ResultArrives, ProcessDies, ForkFails, RowDeleted, ChildBuilt
<1>2. req[r].pc \in {"running", "forking", "deleting", "child"}
  BY DEF ResultArrives, ProcessDies, ForkFails, RowDeleted, ChildBuilt, At
<1>3. pc \in Over /\ req[r].pc \notin Over
  BY <1>1, <1>2 DEF Over
<1> QED
  BY <1>1, <1>2, <1>3, OverMoves

LEMMA ForkEndsMoves ==
  ASSUME TypeInv, NEW r \in Requests, NEW child \in Claude, ForkEnds(r, child)
  PROVE  /\ req[r].pc = "forking"
         /\ \E q : /\ Moves(r, q)
                   /\ \/ /\ q.pc = "failed" /\ q.s = req[r].s /\ q.client = req[r].client
                      \/ /\ q.pc = "child" /\ q.s = child /\ q.client = NoClient
                         /\ reg[child] = NoClient
<1>1. Handler(req[r]) /\ req[r].pc = "forking"
  BY DEF TypeInv, ForkEnds, At
<1>2. req[r].pc \notin Over /\ "failed" \in Over
  BY <1>1 DEF Over
<1>3. CASE reg[child] # NoClient
  <2>1. Goto(r, "failed")
    BY <1>3 DEF ForkEnds
  <2> QED
    BY <1>1, <1>2, <2>1, OverMoves
<1>4. CASE reg[child] = NoClient
  <2> DEFINE q == [req[r] EXCEPT !.pc = "child", !.s = child, !.client = NoClient]
  <2>1. req' = [req EXCEPT ![r] = q]
    BY <1>4 DEF ForkEnds, TypeInv
  <2>2. NoClient \notin Clients /\ child \in Sessions
    BY ClientSessionAssumption DEF Sessions
  <2>3. /\ Handler(q) /\ q.pc = "child" /\ q.s = child /\ q.client = NoClient
        /\ q.before = req[r].before
    BY <1>1, <2>2 DEF Handler, Requested, Points, Working, Waiting, Over
  <2> HIDE DEF q
  <2>4. Moves(r, q)
    BY <1>2, <2>1, <2>3 DEF Moves, TypeInv, Noted
  <2> QED
    BY <1>1, <1>4, <2>3, <2>4
<1> QED
  BY <1>3, <1>4

(* The shapes in which a claw request goes on from its arrival: over, or    *)
(* with a client.                                                          *)
Shaped(q, s, op, pc) ==
  Handler(q) /\ q.s = s /\ q.op = op /\ q.pc = pc /\ q.before = {}

LEMMA ShapeOver ==
  ASSUME NEW a, NEW op \in Ops, NEW s \in Sessions, Fresh(a, op, s), NEW pc \in Over
  PROVE  Shaped([a EXCEPT !.pc = pc], s, op, pc)
<1> DEFINE q == [a EXCEPT !.pc = pc]
<1>1. q \in Requested /\ q.client = NoClient /\ q.s = s /\ q.op = op /\ q.pc = pc
      /\ q.before = {}
  BY DEF Requested, Points, Fresh
<1> QED
  BY <1>1, ClientSessionAssumption DEF Shaped, Handler, Working, Waiting, Over

LEMMA ShapeClient ==
  ASSUME NEW a, NEW op \in Ops, NEW s \in Claw, Fresh(a, op, s),
         NEW c \in Clients, c[3] = s, NEW pc \in Waiting \cup {"deleting"} \cup Over
  PROVE  Shaped([a EXCEPT !.client = c, !.pc = pc], s, op, pc)
<1> DEFINE q == [a EXCEPT !.client = c, !.pc = pc]
<1>1. q \in Requested /\ q.client = c /\ q.s = s /\ q.op = op /\ q.pc = pc
      /\ q.before = {}
  BY DEF Requested, Points, Fresh
<1> QED
  BY <1>1 DEF Shaped, Handler, Working, Waiting, Over, Sessions

(* A step of the claw harness touches nothing of a claude session, and only *)
(* an accepted message makes its turn "sent".                              *)
Elsewhere(r, q) ==
  /\ Moves(r, q)
  /\ q.s \in Claw /\ q.pc \in Waiting \cup {"deleting"} \cup Over
  /\ \/ req[r] = NewRequest
     \/ req[r].s = q.s /\ req[r].pc \in Waiting
  /\ q.pc = "sent" /\ q.op = "turn" => r \in accepted'

Apart ==
  /\ reg' \in [Sessions -> Clients \cup {NoClient}]
  /\ row' \in [Sessions -> Natives \cup {NoNative, NoRow}]
  /\ \A s \in Sessions : reg'[s] \in Clients => reg'[s][3] = s
  /\ \A s \in Claude : reg'[s] = reg[s] /\ row'[s] = row[s]
  /\ accepted \subseteq accepted'
  /\ UNCHANGED <<native, restarts, twins, open, halted, unsaved>>

LEMMA ApartIf ==
  ASSUME TypeInv, NEW s \in Claw,
         NEW c \in Clients \cup {NoClient}, c \in Clients => c[3] = s,
         reg' \in {reg, [reg EXCEPT ![s] = c]},
         row' = row \/ InsertRow(s, NoNative),
         accepted \subseteq accepted',
         UNCHANGED <<native, restarts, twins, open, halted, unsaved>>
  PROVE  Apart
<1>1. s \in Sessions /\ s \notin Claude /\ Claude \subseteq Sessions
  BY ClientSessionAssumption DEF Sessions
<1> QED
  BY <1>1 DEF Apart, TypeInv, InsertRow

(* An arrival at a claw session, as the handler hs.                         *)
LEMMA ArrivesElsewhere ==
  ASSUME TypeInv, NEW r \in Requests, NEW hs, NEW s \in Claw, NEW op, NEW pc,
         Arrive(r, hs), Shaped(hs, s, op, pc),
         pc \in Waiting \cup {"deleting"} \cup Over, ~(pc = "sent" /\ op = "turn")
  PROVE  \E q : Elsewhere(r, q)
<1>1. Handler(hs) /\ Noted(hs)
  BY DEF Shaped, Noted
<1>2. PICK q : Becomes(r, q, hs)
  BY <1>1, ArriveMoves
<1>3. req[r] = NewRequest
  BY <1>1, ArriveMoves
<1>4. Elsewhere(r, q)
  BY <1>2, <1>3 DEF Becomes, Elsewhere, Shaped
<1> QED
  BY <1>4

LEMMA ReconnectElsewhere ==
  ASSUME TypeInv, NEW r \in Requests, NEW s \in Claw, NEW op \in Ops,
         NEW c \in Clients, c[3] = s, NEW wait \in {"poll", "ensure"},
         Reconnect(r, Asks(r, op, s), c, wait)
  PROVE  /\ \E q : Elsewhere(r, q)
         /\ reg' = [reg EXCEPT ![s] = NoClient]
<1>1. PICK a : a = Asks(r, op, s)
  OBVIOUS
<1>2. Fresh(a, op, s)
  BY <1>1, AsksFields DEF Sessions
<1>3. PICK insert \in BOOLEAN : insert = (row[a.s] = NoRow)
  OBVIOUS
<1>4. PICK hs : hs = [a EXCEPT !.pc = wait, !.client = c, !.insert = insert]
  OBVIOUS
<1>5. Arrive(r, hs) /\ reg' = [reg EXCEPT ![a.s] = NoClient]
  BY <1>1, <1>3, <1>4 DEF Reconnect
<1>6. a.s = s
  BY <1>2 DEF Fresh
<1>7. Shaped(hs, s, op, wait)
  <2>1. hs \in Requested
    BY <1>2, <1>4 DEF Requested, Points, Waiting, Fresh
  <2>2. hs.client = c /\ hs.s = s /\ hs.op = op /\ hs.pc = wait /\ hs.before = {}
    BY <1>2, <1>4 DEF Requested, Fresh
  <2> QED
    BY <2>1, <2>2 DEF Shaped, Handler, Working, Waiting, Over
<1>8. wait \in Waiting /\ wait # "sent"
  BY DEF Waiting
<1> QED
  BY <1>5, <1>6, <1>7, <1>8, ArrivesElsewhere

(* The client Sending hands to an arrival is registered.                    *)
LEMMA SendingElsewhere ==
  ASSUME TypeInv, NEW r \in Requests, NEW s \in Claw, NEW op \in Ops,
         NEW c \in Clients, c[3] = s, Arrive(r, Sending(Asks(r, op, s), c)),
         op = "turn" => Up(c)
  PROVE  \E q : Elsewhere(r, q)
<1> DEFINE a == Asks(r, op, s)
           pc == CASE Up(c) -> "send" [] ~Up(c) /\ c \in stale -> "failed"
                 [] OTHER -> "sent"
           hs == [a EXCEPT !.client = c, !.pc = pc]
<1>1. Fresh(a, op, s)
  BY AsksFields DEF Sessions
<1>2. Arrive(r, hs)
  BY DEF Sending
<1>3. pc \in Waiting \cup {"deleting"} \cup Over /\ ~(pc = "sent" /\ op = "turn")
  BY DEF Waiting, Over
<1> HIDE DEF a, pc
<1>4. Shaped(hs, s, op, pc)
  BY <1>1, <1>3, ShapeClient
<1> HIDE DEF hs
<1> QED
  BY <1>2, <1>3, <1>4, ArrivesElsewhere

ClawArrival(r, s) ==
  \/ CreateClaw(r, s) \/ TurnClaw(r, s) \/ ArchiveClaw(r, s)
  \/ ReconnectClaw(r, s) \/ DeleteClaw(r, s)
ClawStep(r) ==
  \/ EnsureEnds(r) \/ PollEnds(r) \/ SendAccepted(r) \/ SendFails(r) \/ DeleteAnswered(r)

LEMMA ClawArrivalElsewhere ==
  ASSUME TypeInv, NEW r \in Requests, NEW s \in Claw, ClawArrival(r, s)
  PROVE  Apart /\ \E q : Elsewhere(r, q)
<1> USE DEF claude
<1> DEFINE c1 == <<r, 1, s>>
           c2 == <<r, 2, s>>
<1>1. c1 \in Clients /\ c1[3] = s /\ c2 \in Clients /\ c2[3] = s
  BY DEF Clients, Sessions
<1>2. reg \in [Sessions -> Clients \cup {NoClient}] /\ s \in Sessions
      /\ (reg[s] \in Clients => reg[s][3] = s)
  BY DEF TypeInv, Sessions
<1>o. {"create", "turn", "archive", "reconnect", "delete"} \subseteq Ops
  BY DEF Ops
<1> HIDE DEF c1, c2
<1>3. CASE CreateClaw(r, s)
  <2> DEFINE a == Asks(r, "create", s)
             hs == [a EXCEPT !.pc = "done"]
  <2>1. Fresh(a, "create", s)
    BY <1>2, AsksFields DEF Ops
  <2>2. Arrive(r, hs)
    BY <1>3 DEF CreateClaw
  <2> HIDE DEF a
  <2>3. Shaped(hs, s, "create", "done")
    BY <1>2, <1>o, <2>1, ShapeOver DEF Over
  <2> HIDE DEF hs
  <2>4. \E q : Elsewhere(r, q)
    BY <2>2, <2>3, ArrivesElsewhere DEF Over
  <2>5. Apart
    BY <1>1, <1>3, ApartIf DEF CreateClaw, c1
  <2> QED
    BY <2>4, <2>5
<1>4. CASE TurnClaw(r, s)
  <2>1. CASE reg[s] # NoClient /\ Up(reg[s]) /\ reg[s] \notin stale
    <3>1. reg[s] \in Clients /\ Arrive(r, Sending(Asks(r, "turn", s), reg[s]))
      BY <1>2, <1>4, <2>1 DEF TurnClaw
    <3>2. \E q : Elsewhere(r, q)
      BY <1>2, <1>o, <2>1, <3>1, SendingElsewhere
    <3>3. Apart
      BY <1>1, <1>4, <2>1, ApartIf DEF TurnClaw
    <3> QED
      BY <3>2, <3>3
  <2>2. CASE ~(reg[s] # NoClient /\ Up(reg[s]) /\ reg[s] \notin stale)
    <3>1. PICK c \in {c1, c2}, wait \in {"poll", "ensure"} :
            Reconnect(r, Asks(r, "turn", s), c, wait)
      BY <1>4, <2>2 DEF TurnClaw, c1, c2
    <3>2. (\E q : Elsewhere(r, q)) /\ reg' = [reg EXCEPT ![s] = NoClient]
      BY <1>1, <1>o, <3>1, ReconnectElsewhere
    <3>3. NoClient \notin Clients
      BY ClientSessionAssumption
    <3>4. Apart
      BY <1>4, <3>2, <3>3, ApartIf DEF TurnClaw
    <3> QED
      BY <3>2, <3>4
  <2> QED
    BY <2>1, <2>2
<1>5. CASE ArchiveClaw(r, s)
  <2> DEFINE a == Asks(r, "archive", s)
             hs == [a EXCEPT !.pc = "failed"]
  <2>1. Fresh(a, "archive", s)
    BY <1>2, AsksFields DEF Ops
  <2>2. Arrive(r, hs) => \E q : Elsewhere(r, q)
    <3> HIDE DEF a
    <3>1. Shaped(hs, s, "archive", "failed")
      BY <1>2, <1>o, <2>1, ShapeOver DEF Over
    <3> HIDE DEF hs
    <3> QED
      BY <3>1, ArrivesElsewhere DEF Over
  <2>3. CASE reg[s] # NoClient /\ Up(reg[s])
    <3>1. reg[s] \in Clients /\ Arrive(r, Sending(Asks(r, "archive", s), reg[s]))
      BY <1>2, <1>5, <2>3 DEF ArchiveClaw
    <3> QED
      BY <1>1, <1>2, <1>5, <1>o, <2>3, <3>1, SendingElsewhere, ApartIf DEF ArchiveClaw
  <2>4. CASE reg[s] # NoClient /\ ~Up(reg[s])
    <3>1. Arrive(r, hs) /\ reg' = reg
      BY <1>5, <2>4 DEF ArchiveClaw
    <3> QED
      BY <1>1, <1>5, <2>2, <3>1, ApartIf DEF ArchiveClaw
  <2>5. CASE reg[s] = NoClient /\ row[s] # NoRow
    <3>1. Arrive(r, hs) /\ reg' = [reg EXCEPT ![s] = c1]
      BY <1>5, <2>5 DEF ArchiveClaw, c1
    <3> QED
      BY <1>1, <1>5, <2>2, <3>1, ApartIf DEF ArchiveClaw
  <2>6. CASE reg[s] = NoClient /\ row[s] = NoRow
    <3>1. Reconnect(r, Asks(r, "archive", s), c1, "poll")
      BY <1>5, <2>6 DEF ArchiveClaw, c1
    <3>2. (\E q : Elsewhere(r, q)) /\ reg' = [reg EXCEPT ![s] = NoClient]
      BY <1>1, <1>o, <3>1, ReconnectElsewhere
    <3>3. NoClient \notin Clients
      BY ClientSessionAssumption
    <3> QED
      BY <1>5, <3>2, <3>3, ApartIf DEF ArchiveClaw
  <2> QED
    BY <2>3, <2>4, <2>5, <2>6
<1>6. CASE ReconnectClaw(r, s)
  <2>1. Reconnect(r, Asks(r, "reconnect", s), c1, "poll")
    BY <1>6 DEF ReconnectClaw, c1
  <2>2. (\E q : Elsewhere(r, q)) /\ reg' = [reg EXCEPT ![s] = NoClient]
    BY <1>1, <1>o, <2>1, ReconnectElsewhere
  <2>3. NoClient \notin Clients
    BY ClientSessionAssumption
  <2> QED
    BY <1>6, <2>2, <2>3, ApartIf DEF ReconnectClaw
<1>7. CASE DeleteClaw(r, s)
  <2> DEFINE a == Asks(r, "delete", s)
             pc == IF Up(reg[s]) THEN "rpc" ELSE "deleting"
             hs == [a EXCEPT !.client = reg[s], !.pc = pc]
  <2>1. Fresh(a, "delete", s)
    BY <1>2, AsksFields DEF Ops
  <2>2. Arrive(r, hs) /\ reg[s] \in Clients
    BY <1>2, <1>7 DEF DeleteClaw
  <2>3. pc \in Waiting \cup {"deleting"} /\ pc # "sent"
    BY DEF Waiting
  <2> HIDE DEF a, pc
  <2>4. Shaped(hs, s, "delete", pc)
    BY <1>2, <1>o, <2>1, <2>2, <2>3, ShapeClient
  <2> HIDE DEF hs
  <2>5. \E q : Elsewhere(r, q)
    BY <2>2, <2>3, <2>4, ArrivesElsewhere
  <2>6. NoClient \notin Clients
    BY ClientSessionAssumption
  <2> QED
    BY <1>7, <2>5, <2>6, ApartIf DEF DeleteClaw, claw
<1> QED
  BY <1>3, <1>4, <1>5, <1>6, <1>7 DEF ClawArrival

(* A turn whose client is not running when the wait is over reconnects again. *)
LEMMA EnsureEndsElsewhere ==
  ASSUME TypeInv, NEW r \in Requests, EnsureEnds(r)
  PROVE  Apart /\ \E q : Elsewhere(r, q)
<1> USE DEF claude
<1> DEFINE s == req[r].s
           c == req[r].client
           next == <<r, 2, s>>
           poll == [req[r] EXCEPT !.pc = "poll", !.client = next, !.insert = FALSE]
           send == [req[r] EXCEPT !.pc = "send"]
<1>1. Handler(req[r]) /\ req[r].pc = "ensure" /\ req[r].pc \in Waiting
  BY DEF TypeInv, EnsureEnds, At, Waiting
<1>2. s \in Claw /\ c \in Clients /\ c[3] = s
  BY <1>1 DEF Handler
<1>3. next \in Clients /\ next[3] = s /\ NoClient \notin Clients
  BY <1>2, ClientSessionAssumption DEF Clients, Sessions
<1>4. /\ reg' \in {[reg EXCEPT ![s] = c], [reg EXCEPT ![s] = NoClient]}
      /\ row' = row \/ InsertRow(s, NoNative)
      /\ UNCHANGED <<accepted, native, restarts, twins, open, halted, unsaved>>
      /\ req' = [req EXCEPT ![r] = poll] \/ Goto(r, "send")
  BY DEF EnsureEnds, TypeInv
<1>5. /\ Handler(poll) /\ poll.pc = "poll" /\ poll.s = s /\ poll.before = req[r].before
      /\ Handler(send) /\ send.pc = "send" /\ send.s = s /\ send.before = req[r].before
  <2> HIDE DEF next
  <2>1. req[r] \in Requested /\ {"poll", "send"} \subseteq Points
    BY <1>1 DEF Handler, Points, Waiting
  <2>2. /\ poll \in Requested /\ poll.client = next
        /\ poll.pc = "poll" /\ poll.s = s /\ poll.before = req[r].before
    BY <1>3, <2>1 DEF Requested
  <2>3. /\ send \in Requested /\ send.client = c
        /\ send.pc = "send" /\ send.s = s /\ send.before = req[r].before
    BY <2>1 DEF Requested
  <2> HIDE DEF poll, send, s, c
  <2>4. Handler(poll)
    BY <1>2, <1>3, <2>2 DEF Handler, Working, Waiting
  <2>5. Handler(send)
    BY <1>2, <2>3 DEF Handler, Working, Waiting
  <2> QED
    BY <2>2, <2>3, <2>4, <2>5
<1>6. \E q \in {poll, send} : req' = [req EXCEPT ![r] = q]
  BY <1>4 DEF Goto, Over
<1> HIDE DEF poll, send, next
<1>7. PICK q \in {poll, send} : Moves(r, q)
  BY <1>1, <1>5, <1>6 DEF Moves, Over, Noted, TypeInv
<1>8. Elsewhere(r, q)
  BY <1>1, <1>2, <1>5, <1>7 DEF Elsewhere, Waiting
<1>9. Apart
  <2> HIDE DEF s, c
  <2> QED
    BY <1>2, <1>3, <1>4, ApartIf
<1> QED
  BY <1>8, <1>9

LEMMA ClawStepElsewhere ==
  ASSUME TypeInv, NEW r \in Requests, ClawStep(r)
  PROVE  Apart /\ \E q : Elsewhere(r, q)
<1>e. CASE EnsureEnds(r)
  BY <1>e, EnsureEndsElsewhere
<1> SUFFICES ASSUME PollEnds(r) \/ SendAccepted(r) \/ SendFails(r) \/ DeleteAnswered(r)
             PROVE  Apart /\ \E q : Elsewhere(r, q)
  BY <1>e DEF ClawStep
<1> USE DEF claude, claw
<1> DEFINE s == req[r].s
           c == req[r].client
<1>1. Handler(req[r]) /\ req[r].pc \in Waiting /\ req[r].pc \notin Over
  BY DEF TypeInv, PollEnds, SendAccepted, SendFails, DeleteAnswered, At, Waiting,
         Over
<1>2. s \in Claw /\ c \in Clients /\ c[3] = s
  BY <1>1 DEF Handler
<1>3. Apart
  <2>1. PollEnds(r) => reg' = [reg EXCEPT ![s] = c]
    BY DEF PollEnds
  <2>2. PollEnds(r) => row' = row \/ InsertRow(s, NoNative)
    BY DEF PollEnds
  <2>3. accepted \subseteq accepted' /\ UNCHANGED <<native, restarts, twins, open, halted, unsaved>>
    BY DEF PollEnds, SendAccepted, SendFails, DeleteAnswered
  <2>4. ~PollEnds(r) => reg' = reg /\ row' = row
    BY DEF SendAccepted, SendFails, DeleteAnswered
  <2> HIDE DEF s, c
  <2> QED
    BY <1>2, <2>1, <2>2, <2>3, <2>4, ApartIf
<1>4. PICK pc \in {"send", "deleting"} \cup Over :
        Goto(r, pc) /\ (pc = "sent" /\ req[r].op = "turn" => r \in accepted')
  BY DEF PollEnds, SendAccepted, SendFails, DeleteAnswered, Over
<1>5. CASE pc \in Over
  <2>1. PICK q : /\ Moves(r, q)
                 /\ q.pc = pc /\ q.op = req[r].op
                 /\ q.s = req[r].s /\ q.client = req[r].client
    BY <1>1, <1>4, <1>5, OverMoves
  <2>2. Elsewhere(r, q)
    BY <1>1, <1>2, <1>4, <1>5, <2>1 DEF Elsewhere
  <2> QED
    BY <1>3, <2>2
<1>6. CASE pc \in {"send", "deleting"}
  <2> DEFINE q == [req[r] EXCEPT !.pc = pc]
  <2>1. pc \notin Over /\ pc \in Waiting \cup {"deleting"} /\ pc # "sent"
    BY <1>6 DEF Over, Waiting
  <2>2. req' = [req EXCEPT ![r] = q]
    BY <1>4, <2>1 DEF Goto
  <2>3. /\ q \in Requested /\ q.pc = pc /\ q.s = s /\ q.client = c
        /\ q.before = req[r].before
    BY <1>1, <2>1 DEF Handler, Requested, Points
  <2>4. Handler(q)
    BY <1>2, <1>6, <2>3 DEF Handler, Working, Waiting, Sessions
  <2> HIDE DEF q
  <2>5. Moves(r, q)
    BY <1>1, <2>2, <2>3, <2>4 DEF Moves, Noted, TypeInv
  <2>6. Elsewhere(r, q)
    BY <1>1, <1>2, <2>1, <2>3, <2>5 DEF Elsewhere
  <2> QED
    BY <1>3, <2>6
<1> QED
  BY <1>4, <1>5, <1>6

LEMMA OrphanMoves ==
  ASSUME TypeInv, NEW r \in Requests, NEW s \in Sessions, DeleteOrphan(r, s)
  PROVE  /\ req[r] = NewRequest
         /\ \E q : /\ Moves(r, q)
                   /\ q.op = "delete" /\ q.s = s /\ q.pc = "done"
<1> DEFINE a == Asks(r, "delete", s)
           hs == [a EXCEPT !.pc = "done"]
<1>1. Fresh(a, "delete", s) /\ "delete" \in Ops
  BY AsksFields DEF Ops
<1>2. Arrive(r, hs)
  BY DEF DeleteOrphan
<1> HIDE DEF a
<1>3. Shaped(hs, s, "delete", "done")
  BY <1>1, ShapeOver DEF Over
<1> HIDE DEF hs
<1>4. Handler(hs) /\ Noted(hs)
  BY <1>3 DEF Shaped, Noted
<1>5. req[r] = NewRequest /\ \E q : Becomes(r, q, hs)
  BY <1>2, <1>4, ArriveMoves
<1> QED
  BY <1>3, <1>5 DEF Shaped, Becomes

(* delete() of a registered claude client: r is its handler, stop the turns *)
(* it cancels.                                                             *)
Deletes(r, s, q, stop) ==
  /\ req[r] = NewRequest /\ Handler(q) /\ q.before = {}
  /\ q.op = "delete" /\ q.s = s /\ q.pc = "deleting"
  /\ stop \subseteq {x \in Requests : /\ req[x].pc \in {"running", "queued"}
                                    /\ req[x].client = reg[s]}
  /\ req' \in [Requests -> Requested]
  /\ req'[r] = q
  /\ \A x \in stop : Closed(req'[x], req[x], "cancelled")
  /\ \A x \in Requests \ ({r} \cup stop) : req'[x] = req[x]
  /\ reg[s] # NoClient
  /\ reg' = [reg EXCEPT ![s] = NoClient]
  /\ open' = open \ {x \in stop : req[x].pc = "running"}
  /\ halted' = halted \cup {x \in stop : req[x].pc = "queued"}
  /\ UNCHANGED <<row, native, restarts, twins, accepted, unsaved>>

LEMMA DeleteMoves ==
  ASSUME TypeInv, NEW r \in Requests, NEW s \in Claude, DeleteClaude(r, s)
  PROVE  \E q, stop : Deletes(r, s, q, stop)
<1> DEFINE mine(pc) == {x \in Requests : At(x, pc) /\ req[x].client = reg[s]}
           a == Asks(r, "delete", s)
           q == [a EXCEPT !.pc = "deleting"]
<1>1. PICK stop \in {{}, mine("running") \cup mine("queued")} :
        /\ req' = [x \in Requests |->
                     IF x = r THEN q
                     ELSE IF x \in stop THEN Ended(req[x], "cancelled") ELSE req[x]]
        /\ open' = open \ (stop \cap mine("running"))
        /\ halted' = halted \cup (stop \cap mine("queued"))
  BY DEF DeleteClaude
<1>2. s \in Sessions /\ Handler(req[r]) /\ req[r] = NewRequest /\ req[r].pc = "idle"
  BY DEF DeleteClaude, At, TypeInv, Handler, Sessions
<1>3. Fresh(a, "delete", s)
  BY <1>2, AsksFields DEF Ops
<1> HIDE DEF a
<1>4. /\ q \in Requested /\ q.op = "delete" /\ q.s = s /\ q.pc = "deleting"
      /\ q.client = NoClient /\ q.before = {}
  BY <1>3 DEF Fresh, Requested, Points
<1>5. Handler(q)
  BY <1>2, <1>4, ClientSessionAssumption DEF Handler, Working, Waiting
<1> HIDE DEF q
<1>6. stop \subseteq {x \in Requests : /\ req[x].pc \in {"running", "queued"}
                                     /\ req[x].client = reg[s]}
  BY <1>1 DEF At
<1>7. r \notin stop
  BY <1>2, <1>6
<1>8. \A x \in stop : Closed(req'[x], req[x], "cancelled")
  <2>1. ASSUME NEW x \in stop PROVE Closed(req'[x], req[x], "cancelled")
    <3>1. x \in Requests /\ x # r /\ Handler(req[x]) /\ "cancelled" \in Over
      BY <1>6, <1>7 DEF TypeInv, Over
    <3>2. req'[x] = Ended(req[x], "cancelled")
      BY <1>1, <3>1
    <3> QED
      BY <3>1, <3>2, OverHandled
  <2> QED
    BY <2>1
<1>9. \A x \in Requests : req'[x] \in Requested
  <2>1. ASSUME NEW x \in Requests PROVE req'[x] \in Requested
    <3>1. CASE x \in stop
      BY <1>8, <3>1 DEF Closed, Handler
    <3>2. CASE x \notin stop
      BY <1>1, <1>4, <3>2 DEF TypeInv
    <3> QED
      BY <3>1, <3>2
  <2> QED
    BY <2>1
<1>10. /\ open' = open \ {x \in stop : req[x].pc = "running"}
       /\ halted' = halted \cup {x \in stop : req[x].pc = "queued"}
  BY <1>1, <1>6 DEF At
<1>11. req' \in [Requests -> Requested] /\ req'[r] = q
  BY <1>1, <1>9
<1>12. \A x \in Requests \ ({r} \cup stop) : req'[x] = req[x]
  BY <1>1
<1>13. reg[s] # NoClient /\ reg' = [reg EXCEPT ![s] = NoClient]
       /\ UNCHANGED <<row, native, restarts, twins, accepted, unsaved>>
  BY DEF DeleteClaude, claw
<1> QED
  BY <1>2, <1>4, <1>5, <1>6, <1>8, <1>10, <1>11, <1>12, <1>13 DEF Deletes

(* What a restart leaves of a handler.                                      *)
LEMMA RestartMoves ==
  ASSUME TypeInv, Restart
  PROVE  /\ req' \in [Requests -> Requested]
         /\ \A r \in Requests :
              /\ Handler(req'[r])
              /\ req'[r].pc \in {"idle"} \cup Over /\ req'[r].before = {}
              /\ req'[r].s = NoClient
              /\ req[r].pc \in Over => req'[r].pc \in Over
              /\ req'[r].pc = "sent" => req[r].pc = "sent" /\ req'[r].op = req[r].op
<1> DEFINE q(r) == IF Live(r) THEN [NewRequest EXCEPT !.pc = "dead"]
                   ELSE IF At(r, "sent")
                        THEN [NewRequest EXCEPT !.pc = "sent", !.op = req[r].op]
                   ELSE [NewRequest EXCEPT !.pc = IF At(r, "idle") THEN @ ELSE "done"]
           op(r) == IF ~Live(r) /\ At(r, "sent") THEN req[r].op ELSE "none"
           pc(r) == IF Live(r) THEN "dead" ELSE IF At(r, "sent") THEN "sent"
                    ELSE IF At(r, "idle") THEN "idle" ELSE "done"
<1>1. req' = [r \in Requests |-> q(r)]
  BY DEF Restart
<1>2. ASSUME NEW r \in Requests
      PROVE  q(r) = [op |-> op(r), s |-> NoClient, pc |-> pc(r), client |-> NoClient,
                     insert |-> FALSE, resume |-> FALSE, sid |-> NoNative, before |-> {}]
  <2>1. CASE Live(r)
    BY <2>1 DEF NewRequest
  <2>2. CASE ~Live(r) /\ At(r, "sent")
    BY <2>2 DEF NewRequest
  <2>3. CASE ~Live(r) /\ ~At(r, "sent")
    BY <2>3 DEF NewRequest
  <2> QED
    BY <2>1, <2>2, <2>3
<1>3. \A r \in Requests :
        /\ op(r) \in Ops /\ pc(r) \in {"idle"} \cup Over
        /\ pc(r) = "idle" => op(r) = "none"
        /\ req[r].pc \in Over => pc(r) \in Over
        /\ pc(r) = "sent" => req[r].pc = "sent" /\ op(r) = req[r].op
  <2>1. \A r \in Requests : req[r].op \in Ops
    BY DEF TypeInv, Requested
  <2> QED
    BY <2>1 DEF Ops, Live, At, Over
<1> HIDE DEF q, op, pc
<1>4. \A r \in Requests :
        LET n == [op |-> op(r), s |-> NoClient, pc |-> pc(r), client |-> NoClient,
                  insert |-> FALSE, resume |-> FALSE, sid |-> NoNative, before |-> {}] IN
        /\ n \in Requested
        /\ n.op = op(r) /\ n.pc = pc(r) /\ n.s = NoClient /\ n.client = NoClient
        /\ n.before = {}
        /\ n.pc = "idle" => n = NewRequest
  BY <1>3 DEF NewRequest, Requested, Points, Ops
<1>5. \A r \in Requests :
        /\ req'[r] \in Requested
        /\ req'[r].op = op(r) /\ req'[r].pc = pc(r) /\ req'[r].s = NoClient
        /\ req'[r].client = NoClient /\ req'[r].before = {}
        /\ req'[r].pc = "idle" => req'[r] = NewRequest
  BY <1>1, <1>2, <1>4
<1>6. ASSUME NEW r \in Requests PROVE Handler(req'[r])
  <2>1. req'[r].pc \in {"idle"} \cup Over /\ req'[r].client \notin Clients
    BY <1>3, <1>5, ClientSessionAssumption
  <2> QED
    BY <1>5, <2>1 DEF Handler, Working, Waiting, Over
<1> QED
  BY <1>1, <1>3, <1>5, <1>6

(* A step is one of the kinds the lemmas above describe.                    *)
Arrives(r) ==
  \/ \E s \in Claude : CreateClaude(r, s)
  \/ \E s \in Claude, op \in {"turn", "fork", "spawn"}, ask \in BOOLEAN :
       UseClaude(r, s, op, ask)
Closes(r) == ProcessDies(r) \/ ForkFails(r)
Aside ==
  UNCHANGED <<reg, row, native, req, restarts, open, accepted, twins, halted, unsaved>>

LEMMA StepKinds ==
  ASSUME [Next]_vars
  PROVE  \/ \E r \in Requests :
              \/ Arrives(r) \/ ClaudeBuilt(r) \/ TickStarted(r) \/ SpawnLocked(r)
              \/ ResultArrives(r) \/ Closes(r) \/ ChildBuilt(r) \/ RowDeleted(r)
              \/ ClawStep(r)
              \/ \E s \in Claude : ForkEnds(r, s) \/ DeleteClaude(r, s)
              \/ \E s \in Claw : ClawArrival(r, s)
              \/ \E s \in Sessions : DeleteOrphan(r, s)
         \/ Restart
         \/ Aside
<1>1. CASE UNCHANGED vars
  BY <1>1 DEF vars, Aside
<1>2. ASSUME NEW c \in Clients, Connected(c) \/ LinkLost(c) PROVE Aside
  BY <1>2 DEF Connected, LinkLost, claude, Aside
<1>3. ASSUME NEW r \in Requests, Arrival(r)
      PROVE  \/ Arrives(r) \/ \E s \in Claude : DeleteClaude(r, s)
             \/ \E s \in Claw : ClawArrival(r, s)
             \/ \E s \in Sessions : DeleteOrphan(r, s)
  BY <1>3 DEF Arrival, Arrives, ClawArrival
<1>4. ASSUME NEW r \in Requests, Step(r)
      PROVE  \/ ClaudeBuilt(r) \/ TickStarted(r) \/ SpawnLocked(r)
             \/ ResultArrives(r) \/ Closes(r) \/ ChildBuilt(r) \/ RowDeleted(r)
             \/ ClawStep(r) \/ \E s \in Claude : ForkEnds(r, s)
  BY <1>4 DEF Step, Closes, ClawStep
<1> QED
  BY <1>1, <1>2, <1>3, <1>4 DEF Next

LEMMA TypeInvStep ==
  ASSUME TypeInv, [Next]_vars
  PROVE  TypeInv'
<1> USE DEF claw, claude
<1>m. ASSUME NEW r \in Requests, NEW q, Moves(r, q),
             reg' \in [Sessions -> Clients \cup {NoClient}],
             \A s \in Sessions : reg'[s] \in Clients => reg'[s][3] = s,
             row' \in [Sessions -> Natives \cup {NoNative, NoRow}],
             native' \in [Clients -> Natives \cup {NoNative}]
      PROVE  TypeInv'
  BY <1>m, HandlersKept DEF TypeInv
<1>h. \A r \in Requests : Handler(req[r]) /\ req[r] \in Requested
  BY DEF TypeInv, Handler
<1>n. NoClient \notin Clients
  BY ClientSessionAssumption
<1>1. ASSUME NEW r \in Requests, Arrives(r) PROVE TypeInv'
  <2>1. \E q : Moves(r, q)
    BY <1>1, CreateClaudeMoves, UseClaudeMoves DEF Arrives
  <2>2. UNCHANGED <<reg, row, native>>
    BY <1>1 DEF Arrives, CreateClaude, UseClaude
  <2> QED
    BY <1>m, <2>1, <2>2 DEF TypeInv
<1>2. ASSUME NEW r \in Requests, ClaudeBuilt(r) PROVE TypeInv'
  <2> DEFINE s == req[r].s
             c == <<r, 1, s>>
  <2>1. /\ s \in Sessions /\ c \in Clients /\ c[3] = s
        /\ \E q : Moves(r, q)
    BY <1>2, ClaudeBuiltMoves
  <2>2. req[r].sid \in Natives \cup {NoNative}
    BY <1>h DEF Requested
  <2>3. /\ reg' = [reg EXCEPT ![s] = c]
        /\ native' = [native EXCEPT ![c] = req[r].sid]
        /\ row' = row \/ InsertRow(s, NoNative)
    BY <1>2 DEF ClaudeBuilt
  <2> HIDE DEF s, c
  <2>4. /\ reg' \in [Sessions -> Clients \cup {NoClient}]
        /\ \A x \in Sessions : reg'[x] \in Clients => reg'[x][3] = x
        /\ native' \in [Clients -> Natives \cup {NoNative}]
    BY <2>1, <2>2, <2>3 DEF TypeInv
  <2>5. row' \in [Sessions -> Natives \cup {NoNative, NoRow}]
    BY <2>1, <2>3 DEF TypeInv, InsertRow
  <2> QED
    BY <1>m, <2>1, <2>4, <2>5
<1>3. ASSUME NEW r \in Requests, TickStarted(r) \/ SpawnLocked(r) \/ Closes(r)
      PROVE  TypeInv'
  <2>1. \E q : Moves(r, q)
    BY <1>3, TickMoves, SpawnMoves, EndMoves DEF SpawnLocked, Closes
  <2>2. UNCHANGED <<reg, row, native>>
    BY <1>3 DEF TickStarted, SpawnLocked, Spawn, Closes, ProcessDies, ForkFails
  <2> QED
    BY <1>m, <2>1, <2>2 DEF TypeInv
<1>4. ASSUME NEW r \in Requests, ResultArrives(r) PROVE TypeInv'
  <2>1. /\ \E q : Moves(r, q)
        /\ req[r].pc = "running"
    BY <1>4, EndMoves DEF ResultArrives, At
  <2>2. req[r].sid \in Natives /\ req[r].client \in Clients
    BY <1>h, <2>1 DEF Handler, Working
  <2>3. /\ native' \in [Clients -> Natives \cup {NoNative}]
        /\ row' \in [Sessions -> Natives \cup {NoNative, NoRow}]
        /\ reg' = reg
    BY <1>4, <2>2 DEF ResultArrives, RowTakes, TypeInv
  <2> QED
    BY <1>m, <2>1, <2>3 DEF TypeInv
<1>5. ASSUME NEW r \in Requests, ChildBuilt(r) PROVE TypeInv'
  <2> DEFINE s == req[r].s
             c == <<r, 2, s>>
  <2>1. /\ \E q : Moves(r, q)
        /\ req[r].pc = "child"
    BY <1>5, EndMoves DEF ChildBuilt, At
  <2>2. s \in Claude
    BY <1>h, <2>1 DEF Handler
  <2>3. s \in Sessions /\ s \in Natives /\ c \in Clients /\ c[3] = s
    BY <2>2 DEF Sessions, Natives, Clients
  <2>4. /\ reg' = [reg EXCEPT ![s] = c]
        /\ native' = [native EXCEPT ![c] = s]
        /\ InsertRow(s, s)
    BY <1>5 DEF ChildBuilt
  <2> HIDE DEF s, c
  <2>5. /\ reg' \in [Sessions -> Clients \cup {NoClient}]
        /\ \A x \in Sessions : reg'[x] \in Clients => reg'[x][3] = x
        /\ native' \in [Clients -> Natives \cup {NoNative}]
        /\ row' \in [Sessions -> Natives \cup {NoNative, NoRow}]
    BY <2>3, <2>4 DEF TypeInv, InsertRow
  <2> QED
    BY <1>m, <2>1, <2>5
<1>6. ASSUME NEW r \in Requests, RowDeleted(r) PROVE TypeInv'
  <2>1. \E q : Moves(r, q)
    BY <1>6, EndMoves
  <2>2. row' \in [Sessions -> Natives \cup {NoNative, NoRow}] /\ UNCHANGED <<reg, native>>
    BY <1>6 DEF RowDeleted, TypeInv
  <2> QED
    BY <1>m, <2>1, <2>2 DEF TypeInv
<1>7. ASSUME NEW r \in Requests, NEW s \in Claude, ForkEnds(r, s) PROVE TypeInv'
  <2>1. (\E q : Moves(r, q)) /\ UNCHANGED <<reg, row, native>>
    BY <1>7, ForkEndsMoves DEF ForkEnds
  <2> QED
    BY <1>m, <2>1 DEF TypeInv
<1>8. ASSUME NEW r \in Requests, NEW s \in Sessions, DeleteOrphan(r, s) PROVE TypeInv'
  <2>1. \E q : Moves(r, q)
    BY <1>8, OrphanMoves
  <2>2. row' \in [Sessions -> Natives \cup {NoNative, NoRow}] /\ UNCHANGED <<reg, native>>
    BY <1>8 DEF DeleteOrphan, TypeInv
  <2> QED
    BY <1>m, <2>1, <2>2 DEF TypeInv
<1>9. ASSUME NEW r \in Requests, ClawStep(r) \/ \E s \in Claw : ClawArrival(r, s)
      PROVE  TypeInv'
  <2>1. Apart /\ \E q : Elsewhere(r, q)
    BY <1>9, ClawStepElsewhere, ClawArrivalElsewhere
  <2> QED
    BY <1>m, <2>1 DEF Apart, Elsewhere, TypeInv
<1>10. ASSUME NEW r \in Requests, NEW s \in Claude, DeleteClaude(r, s) PROVE TypeInv'
  <2>1. PICK q, stop : Deletes(r, s, q, stop)
    BY <1>10, DeleteMoves
  <2>2. \A x \in Requests : Handler(req'[x])
    BY <1>h, <2>1 DEF Deletes, Closed
  <2>3. \A x \in Requests : req[x].pc \in Over => req'[x].pc \in Over
    BY <2>1 DEF Deletes, Closed, NewRequest, Over
  <2>4. \A x \in Requests : req'[x].before \in {{}, req[x].before}
    BY <2>1 DEF Deletes, Closed
  <2>5. \A x \in Requests : Noted(req[x])'
    <3>1. ASSUME NEW x \in Requests, NEW y \in req'[x].before PROVE req'[y].pc \in Over
      <4>1. y \in req[x].before /\ y \in Requests
        BY <1>h, <2>4, <3>1 DEF Requested
      <4> QED
        BY <2>3, <4>1 DEF TypeInv, Noted
    <3> QED
      BY <3>1 DEF Noted
  <2>6. /\ reg' \in [Sessions -> Clients \cup {NoClient}]
        /\ \A x \in Sessions : reg'[x] \in Clients => reg'[x][3] = x
    BY <1>n, <2>1 DEF Deletes, TypeInv, Sessions
  <2> QED
    BY <2>1, <2>2, <2>5, <2>6 DEF Deletes, TypeInv
<1>11. CASE Restart
  <2>1. /\ req' \in [Requests -> Requested]
        /\ \A r \in Requests : Handler(req'[r]) /\ req'[r].before = {}
    BY <1>11, RestartMoves
  <2>2. PICK up \in SUBSET {s \in Sessions : row[s] # NoRow} :
          /\ reg' = [s \in Sessions |-> IF s \in up THEN <<Boot, 1, s>> ELSE NoClient]
          /\ native' = [c \in Clients |->
                          IF c[1] = Boot /\ c[2] = 1 /\ c[3] \in up THEN row[c[3]]
                          ELSE NoNative]
    BY <1>11 DEF Restart
  <2>3. \A s \in Sessions : <<Boot, 1, s>> \in Clients /\ <<Boot, 1, s>>[3] = s
    BY DEF Clients
  <2>4. native' \in [Clients -> Natives \cup {NoNative}]
    BY <2>2 DEF TypeInv
  <2>5. /\ reg' \in [Sessions -> Clients \cup {NoClient}]
        /\ \A s \in Sessions : reg'[s] \in Clients => reg'[s][3] = s
    BY <1>n, <2>2, <2>3
  <2>6. row' = row
    BY <1>11 DEF Restart
  <2> QED
    BY <2>1, <2>4, <2>5, <2>6 DEF TypeInv, Noted
<1>12. CASE Aside
  BY <1>12 DEF Aside, TypeInv, Noted
<1> QED
  BY <1>1, <1>2, <1>3, <1>4, <1>5, <1>6, <1>7, <1>8, <1>9, <1>10, <1>11, <1>12, StepKinds

(* At every state the handlers and the tables hold what they can hold.      *)
THEOREM ClientTypes == Spec => []TypeInv
<1>1. TypeInv /\ UNCHANGED vars => TypeInv'
  BY TypeInvStep
<1> QED
  BY TypeInvInit, TypeInvStep, PTL DEF Spec

-------------------------------------------------------------------------------
(* Answers and ticks                                                        *)

LEMMA SentStep ==
  ASSUME TypeInv, SentMeansAccepted, [Next]_vars
  PROVE  SentMeansAccepted'
<1> USE DEF claw, claude
<1>m. ASSUME NEW r \in Requests, NEW q, Moves(r, q), q.pc # "sent",
             accepted \subseteq accepted'
      PROVE  SentMeansAccepted'
  <2>1. req'[r] = q /\ \A x \in Requests \ {r} : req'[x] = req[x]
    BY <1>m DEF Moves, TypeInv
  <2> QED
    BY <1>m, <2>1 DEF SentMeansAccepted, At
<1>1. ASSUME NEW r \in Requests, Arrives(r) PROVE SentMeansAccepted'
  <2>1. \E q : Moves(r, q) /\ q.pc # "sent"
    BY <1>1, CreateClaudeMoves, UseClaudeMoves DEF Arrives
  <2>2. accepted' = accepted
    BY <1>1 DEF Arrives, CreateClaude, UseClaude
  <2> QED
    BY <1>m, <2>1, <2>2
<1>2. ASSUME NEW r \in Requests, ClaudeBuilt(r) PROVE SentMeansAccepted'
  <2>1. \E q : Moves(r, q) /\ q.pc # "sent"
    BY <1>2, ClaudeBuiltMoves
  <2>2. accepted' = accepted
    BY <1>2 DEF ClaudeBuilt
  <2> QED
    BY <1>m, <2>1, <2>2
<1>3. ASSUME NEW r \in Requests, TickStarted(r) \/ SpawnLocked(r) PROVE SentMeansAccepted'
  <2>1. \E q : Moves(r, q) /\ q.pc # "sent"
    BY <1>3, TickMoves, SpawnMoves DEF SpawnLocked
  <2>2. accepted' = accepted
    BY <1>3 DEF TickStarted, SpawnLocked, Spawn
  <2> QED
    BY <1>m, <2>1, <2>2
<1>4. ASSUME NEW r \in Requests,
             ResultArrives(r) \/ Closes(r) \/ ChildBuilt(r) \/ RowDeleted(r)
      PROVE  SentMeansAccepted'
  <2>1. \E q : Moves(r, q) /\ q.pc # "sent"
    BY <1>4, EndMoves DEF Closes
  <2>2. accepted' = accepted
    BY <1>4 DEF ResultArrives, Closes, ProcessDies, ForkFails, ChildBuilt, RowDeleted
  <2> QED
    BY <1>m, <2>1, <2>2
<1>5. ASSUME NEW r \in Requests, NEW s \in Claude, ForkEnds(r, s) PROVE SentMeansAccepted'
  <2>1. \E q : Moves(r, q) /\ q.pc # "sent"
    BY <1>5, ForkEndsMoves
  <2>2. accepted' = accepted
    BY <1>5 DEF ForkEnds
  <2> QED
    BY <1>m, <2>1, <2>2
<1>6. ASSUME NEW r \in Requests, NEW s \in Sessions, DeleteOrphan(r, s)
      PROVE  SentMeansAccepted'
  <2>1. \E q : Moves(r, q) /\ q.pc # "sent"
    BY <1>6, OrphanMoves
  <2>2. accepted' = accepted
    BY <1>6 DEF DeleteOrphan
  <2> QED
    BY <1>m, <2>1, <2>2
<1>7. ASSUME NEW r \in Requests, ClawStep(r) \/ \E s \in Claw : ClawArrival(r, s)
      PROVE  SentMeansAccepted'
  <2>1. PICK q : Elsewhere(r, q)
    BY <1>7, ClawStepElsewhere, ClawArrivalElsewhere
  <2>2. accepted \subseteq accepted'
    BY <1>7, ClawStepElsewhere, ClawArrivalElsewhere DEF Apart
  <2>3. req'[r] = q /\ \A x \in Requests \ {r} : req'[x] = req[x]
    BY <2>1 DEF Elsewhere, Moves, TypeInv
  <2> QED
    BY <2>1, <2>2, <2>3 DEF Elsewhere, SentMeansAccepted, At
<1>8. ASSUME NEW r \in Requests, NEW s \in Claude, DeleteClaude(r, s)
      PROVE  SentMeansAccepted'
  <2>1. PICK q, stop : Deletes(r, s, q, stop)
    BY <1>8, DeleteMoves
  <2> QED
    BY <2>1 DEF Deletes, Closed, SentMeansAccepted, At
<1>9. CASE Restart
  <2>1. accepted' = accepted
    BY <1>9 DEF Restart
  <2> QED
    BY <1>9, <2>1, RestartMoves DEF SentMeansAccepted, At
<1>10. CASE Aside
  BY <1>10 DEF Aside, SentMeansAccepted, At
<1> QED
  BY <1>1, <1>2, <1>3, <1>4, <1>5, <1>6, <1>7, <1>8, <1>9, <1>10, StepKinds

(* A turn answered "sent" was taken by the gateway, whoever reconnected its  *)
(* client, lost it or found it stale meanwhile.                            *)
THEOREM SentIsAccepted == Spec => []SentMeansAccepted
<1>1. Init => SentMeansAccepted
  BY DEF Init, SentMeansAccepted, At, NewRequest
<1> QED
  BY <1>1, ClientTypes, SentStep, PTL DEF Spec

(* A tick that is open belongs to a turn which will close it, or to one     *)
(* that was stopped before it ran.                                         *)
OpenInv ==
  /\ open \subseteq Requests
  /\ \A x \in open : req[x].pc \in {"queued", "running"} \/ x \in halted

LEMMA OpenStep ==
  ASSUME TypeInv, OpenInv, [Next]_vars
  PROVE  OpenInv'
<1> USE DEF claw, claude
<1>m. ASSUME NEW r \in Requests, NEW h, Moves(r, h),
             open' \subseteq open \cup {r}, halted' = halted,
             r \in open' => r \in open /\ req[r].pc \notin {"queued", "running"}
      PROVE  OpenInv'
  <2>1. req'[r] = h /\ \A x \in Requests \ {r} : req'[x] = req[x]
    BY <1>m DEF Moves, TypeInv
  <2> QED
    BY <1>m, <2>1 DEF OpenInv
<1>1. ASSUME NEW r \in Requests, Arrives(r) PROVE OpenInv'
  <2>1. (\E q : Moves(r, q)) /\ req[r].pc = "idle"
    BY <1>1, CreateClaudeMoves, UseClaudeMoves DEF Arrives, NewRequest
  <2>2. UNCHANGED <<open, halted>>
    BY <1>1 DEF Arrives, CreateClaude, UseClaude
  <2> QED
    BY <1>m, <2>1, <2>2
<1>2. ASSUME NEW r \in Requests, ClaudeBuilt(r) PROVE OpenInv'
  <2>1. (\E q : Moves(r, q)) /\ req[r].pc = "build"
    BY <1>2, ClaudeBuiltMoves
  <2>2. UNCHANGED <<open, halted>>
    BY <1>2 DEF ClaudeBuilt
  <2> QED
    BY <1>m, <2>1, <2>2
<1>3. ASSUME NEW r \in Requests, TickStarted(r) PROVE OpenInv'
  <2>1. PICK q : Moves(r, q) /\ q.pc = "queued"
    BY <1>3, TickMoves
  <2>2. open' = open \cup {r} /\ halted' = halted
    BY <1>3 DEF TickStarted
  <2>3. req'[r] = q /\ \A x \in Requests \ {r} : req'[x] = req[x]
    BY <2>1 DEF Moves, TypeInv
  <2> QED
    BY <2>1, <2>2, <2>3 DEF OpenInv
<1>4. ASSUME NEW r \in Requests, SpawnLocked(r) PROVE OpenInv'
  <2>1. PICK q : Moves(r, q) /\ q.pc = "running"
    BY <1>4, SpawnMoves DEF SpawnLocked
  <2>2. UNCHANGED <<open, halted>>
    BY <1>4 DEF SpawnLocked, Spawn
  <2>3. req'[r] = q /\ \A x \in Requests \ {r} : req'[x] = req[x]
    BY <2>1 DEF Moves, TypeInv
  <2> QED
    BY <2>1, <2>2, <2>3 DEF OpenInv
<1>5. ASSUME NEW r \in Requests,
             ResultArrives(r) \/ Closes(r) \/ ChildBuilt(r) \/ RowDeleted(r)
      PROVE  OpenInv'
  <2>1. \E q : Moves(r, q)
    BY <1>5, EndMoves DEF Closes
  <2>2. \/ open' = open \ {r}
        \/ open' = open /\ req[r].pc \in {"forking", "child", "deleting"}
    BY <1>5 DEF ResultArrives, Closes, ProcessDies, ForkFails, ChildBuilt, RowDeleted, At
  <2>3. halted' = halted
    BY <1>5 DEF ResultArrives, Closes, ProcessDies, ForkFails, ChildBuilt, RowDeleted
  <2> QED
    BY <1>m, <2>1, <2>2, <2>3
<1>6. ASSUME NEW r \in Requests, NEW s \in Claude, ForkEnds(r, s) PROVE OpenInv'
  <2>1. (\E q : Moves(r, q)) /\ req[r].pc = "forking"
    BY <1>6, ForkEndsMoves
  <2>2. UNCHANGED <<open, halted>>
    BY <1>6 DEF ForkEnds
  <2> QED
    BY <1>m, <2>1, <2>2
<1>7. ASSUME NEW r \in Requests, NEW s \in Sessions, DeleteOrphan(r, s) PROVE OpenInv'
  <2>1. (\E q : Moves(r, q)) /\ req[r].pc = "idle"
    BY <1>7, OrphanMoves DEF NewRequest
  <2>2. UNCHANGED <<open, halted>>
    BY <1>7 DEF DeleteOrphan
  <2> QED
    BY <1>m, <2>1, <2>2
<1>8. ASSUME NEW r \in Requests, ClawStep(r) \/ \E s \in Claw : ClawArrival(r, s)
      PROVE  OpenInv'
  <2>1. Apart /\ \E q : Elsewhere(r, q)
    BY <1>8, ClawStepElsewhere, ClawArrivalElsewhere
  <2>2. \E q : Moves(r, q) /\ req[r].pc \in {"idle"} \cup Waiting
    BY <2>1 DEF Elsewhere, NewRequest
  <2>3. UNCHANGED <<open, halted>>
    BY <2>1 DEF Apart
  <2> QED
    BY <1>m, <2>2, <2>3 DEF Waiting
<1>9. ASSUME NEW r \in Requests, NEW s \in Claude, DeleteClaude(r, s) PROVE OpenInv'
  <2>1. PICK q, stop : Deletes(r, s, q, stop)
    BY <1>9, DeleteMoves
  <2> QED
    BY <2>1 DEF Deletes, NewRequest, OpenInv
<1>10. CASE Restart
  BY <1>10 DEF Restart, OpenInv
<1>11. CASE Aside
  BY <1>11 DEF Aside, OpenInv
<1> QED
  BY <1>1, <1>2, <1>3, <1>4, <1>5, <1>6, <1>7, <1>8, <1>9, <1>10, <1>11, StepKinds

(* Every tick that was started is completed, unless its client was stopped  *)
(* while the turn waited.                                                  *)
THEOREM TicksAreClosed == Spec => []TickOpenOnlyIfHalted
<1>1. Init => OpenInv
  BY DEF Init, OpenInv
<1>2. OpenInv => TickOpenOnlyIfHalted
  BY DEF OpenInv, TickOpenOnlyIfHalted, Live, Over
<1> QED
  BY <1>1, <1>2, ClientTypes, OpenStep, PTL DEF Spec

-------------------------------------------------------------------------------
(* Native sessions                                                          *)

(* The claude session s has the native session n: in its row, in a client,  *)
(* or in the locals of a handler.                                          *)
Holds(s, n) ==
  \/ row[s] = n
  \/ \E c \in Clients : c[3] = s /\ native[c] = n
  \/ \E x \in Requests :
       req[x].s = s /\ req[x].sid = n /\ req[x].pc \in {"build", "running"}

(* A native session belongs to one session: it was made by one of its turns, *)
(* or a fork gave both the same name.                                      *)
OwnInv ==
  \A s \in Claude, n \in Natives : Holds(s, n) =>
    /\ n \in Claude => n = s
    /\ n \in Requests => req[n].pc \in Over \cup {"running"}
    /\ \A t \in Claude : Holds(t, n) => t = s

(* Nobody but u gets a native session he had not, and u only m.             *)
LEMMA OwnGrows ==
  ASSUME OwnInv, NEW u \in Claude, NEW m \in Natives,
         \A s \in Claude : Holds(s, m) => s = u,
         m \in Claude => m = u,
         m \in Requests => req'[m].pc \in Over \cup {"running"},
         \A s \in Claude, n \in Natives : Holds(s, n)' => Holds(s, n) \/ (s = u /\ n = m),
         \A x \in Requests : req[x].pc \in Over \cup {"running"} =>
                             req'[x].pc \in Over \cup {"running"}
  PROVE  OwnInv'
<1> SUFFICES ASSUME NEW s \in Claude, NEW n \in Natives, Holds(s, n)'
             PROVE  /\ n \in Claude => n = s
                    /\ n \in Requests => req'[n].pc \in Over \cup {"running"}
                    /\ \A t \in Claude : Holds(t, n)' => t = s
  BY DEF OwnInv
<1>1. CASE n = m
  <2>1. \A t \in Claude : Holds(t, n)' => t = u
    BY <1>1
  <2> QED
    BY <1>1, <2>1
<1>2. CASE n # m
  <2>1. Holds(s, n) /\ \A t \in Claude : Holds(t, n)' => Holds(t, n)
    BY <1>2
  <2> QED
    BY <2>1 DEF OwnInv
<1> QED
  BY <1>1, <1>2

LEMMA OwnKept ==
  ASSUME OwnInv,
         \A s \in Claude, n \in Natives : Holds(s, n)' => Holds(s, n),
         \A x \in Requests : req[x].pc \in Over \cup {"running"} =>
                             req'[x].pc \in Over \cup {"running"}
  PROVE  OwnInv'
BY DEF OwnInv

(* What a handler's step adds to what the sessions hold.                    *)
LEMMA HoldsAfter ==
  ASSUME TypeInv, NEW r \in Requests, NEW h, Moves(r, h), NEW s \in Claude,
         NEW n \in Natives, Holds(s, n)'
  PROVE  \/ Holds(s, n)
         \/ row'[s] = n /\ row'[s] # row[s]
         \/ \E c \in Clients : c[3] = s /\ native'[c] = n /\ native'[c] # native[c]
         \/ h.s = s /\ h.sid = n /\ h.pc \in {"build", "running"}
<1>1. req'[r] = h /\ \A x \in Requests \ {r} : req'[x] = req[x]
  BY DEF Moves, TypeInv
<1> QED
  BY <1>1 DEF Holds

LEMMA RunnersKept ==
  ASSUME TypeInv, NEW r \in Requests, NEW h, Moves(r, h),
         req[r].pc = "running" => h.pc \in Over
  PROVE  \A x \in Requests : req[x].pc \in Over \cup {"running"} =>
                             req'[x].pc \in Over \cup {"running"}
<1>1. req'[r] = h /\ \A x \in Requests \ {r} : req'[x] = req[x]
  BY DEF Moves, TypeInv
<1> QED
  BY <1>1 DEF Moves

LEMMA OwnStep ==
  ASSUME TypeInv, OwnInv, [Next]_vars
  PROVE  OwnInv'
<1> USE DEF claw, claude
<1>h. \A x \in Requests : Handler(req[x])
  BY DEF TypeInv
<1>k. /\ NoRow \notin Natives /\ NoNative \notin Natives
      /\ \A m \in Natives : m \in Requests \/ m \in Claude
      /\ \A m \in Requests : m \notin Claude
  BY ClientSessionAssumption DEF Natives, Sessions
<1>1. ASSUME NEW r \in Requests, Arrives(r) PROVE OwnInv'
  <2>1. PICK g : /\ Moves(r, g) /\ g.pc # "running"
                 /\ g.pc = "build" => g.sid = row[g.s] \/ g.sid = NoNative
    BY <1>1, CreateClaudeMoves, UseClaudeMoves DEF Arrives
  <2>2. UNCHANGED <<row, native>> /\ req[r].pc = "idle"
    <3>1. CASE \E s \in Claude : CreateClaude(r, s)
      BY <3>1 DEF CreateClaude, Arrive, At
    <3>2. CASE \E s \in Claude, op \in {"turn", "fork", "spawn"}, ask \in BOOLEAN :
                 UseClaude(r, s, op, ask)
      <4>1. PICK s \in Claude, op \in {"turn", "fork", "spawn"}, ask \in BOOLEAN :
              UseClaude(r, s, op, ask)
        BY <3>2
      <4>2. UNCHANGED <<row, claude>>
        BY <4>1 DEF UseClaude
      <4>3. req[r].pc = "idle"
        BY <4>1 DEF UseClaude, Arrive, At
      <4> QED
        BY <4>2, <4>3
    <3> QED
      BY <1>1, <3>1, <3>2 DEF Arrives
  <2>3. \A s \in Claude, n \in Natives : Holds(s, n)' => Holds(s, n)
    BY <1>k, <2>1, <2>2, HoldsAfter DEF Holds
  <2> QED
    BY <2>1, <2>2, <2>3, OwnKept, RunnersKept
<1>2. ASSUME NEW r \in Requests, ClaudeBuilt(r) PROVE OwnInv'
  <2> DEFINE u == req[r].s
             c == <<r, 1, u>>
  <2>1. PICK g : Moves(r, g) /\ g.pc \in {"tick", "forking", "done"}
    BY <1>2, ClaudeBuiltMoves
  <2>2. c \in Clients /\ c[3] = u /\ u \in Sessions /\ req[r].pc = "build"
    BY <1>2, ClaudeBuiltMoves
  <2>3. /\ native' = [native EXCEPT ![c] = req[r].sid]
        /\ row' = row \/ row' = [row EXCEPT ![u] = IF @ = NoRow THEN NoNative ELSE @]
    BY <1>2 DEF ClaudeBuilt, InsertRow
  <2> HIDE DEF c
  <2>4. \A s \in Claude, n \in Natives : Holds(s, n)' => Holds(s, n)
    <3>1. \A s \in Sessions : row'[s] = row[s] \/ row'[s] = NoNative
      BY <2>2, <2>3 DEF TypeInv
    <3>2. \A x \in Clients : native'[x] # native[x] => x = c /\ native'[x] = req[r].sid
      BY <2>2, <2>3 DEF TypeInv
    <3>3. Holds(u, req[r].sid)
      BY <2>2 DEF Holds
    <3> QED
      BY <1>k, <2>1, <2>2, <3>1, <3>2, <3>3, HoldsAfter DEF Sessions
  <2> QED
    BY <2>1, <2>2, <2>4, OwnKept, RunnersKept
<1>3. ASSUME NEW r \in Requests, TickStarted(r) PROVE OwnInv'
  <2>1. PICK g : Moves(r, g) /\ g.pc = "queued"
    BY <1>3, TickMoves
  <2>2. UNCHANGED <<row, native>> /\ req[r].pc = "tick"
    BY <1>3 DEF TickStarted, At
  <2>3. \A s \in Claude, n \in Natives : Holds(s, n)' => Holds(s, n)
    BY <2>1, <2>2, HoldsAfter
  <2> QED
    BY <2>1, <2>2, <2>3, OwnKept, RunnersKept
<1>4. ASSUME NEW r \in Requests, SpawnLocked(r) PROVE OwnInv'
  <2>1. PICK g : /\ Moves(r, g) /\ g.pc = "running" /\ g.s = req[r].s
                 /\ g.sid \in Natives /\ g.sid \in {native[req[r].client], r}
    BY <1>4, SpawnMoves DEF SpawnLocked
  <2>2. UNCHANGED <<row, native>> /\ req[r].pc = "queued"
    BY <1>4 DEF SpawnLocked, Spawn, At
  <2>3. req[r].s \in Claude /\ req[r].client \in Clients /\ req[r].client[3] = req[r].s
    BY <1>h, <2>2 DEF Handler, Working
  <2>4. req'[r] = g /\ \A x \in Requests \ {r} : req'[x] = req[x]
    BY <2>1 DEF Moves, TypeInv
  <2>5. \A s \in Claude, n \in Natives :
          Holds(s, n)' => Holds(s, n) \/ (s = req[r].s /\ n = g.sid)
    BY <2>1, <2>2, HoldsAfter
  <2>6. \A x \in Requests : req[x].pc \in Over \cup {"running"} =>
                            req'[x].pc \in Over \cup {"running"}
    BY <2>1, <2>4
  <2>7. CASE g.sid = native[req[r].client]
    <3>1. Holds(req[r].s, g.sid)
      BY <2>3, <2>7 DEF Holds
    <3>2. \A s \in Claude, n \in Natives : Holds(s, n)' => Holds(s, n)
      BY <2>1, <2>5, <3>1
    <3> QED
      BY <2>6, <3>2, OwnKept
  <2>8. CASE g.sid = r
    <3>1. \A s \in Claude : ~Holds(s, r)
      BY <2>1, <2>2, <2>8 DEF OwnInv, Over
    <3> QED
      BY <1>k, <2>1, <2>3, <2>4, <2>5, <2>6, <2>8, <3>1, OwnGrows
  <2> QED
    BY <2>1, <2>7, <2>8
<1>5. ASSUME NEW r \in Requests, ResultArrives(r) PROVE OwnInv'
  <2>1. PICK g : Moves(r, g) /\ g.pc \in {"done", "failed"}
    BY <1>5, EndMoves
  <2>2. /\ req[r].pc = "running"
        /\ native' = [native EXCEPT ![req[r].client] = req[r].sid]
        /\ \/ row' = row
           \/ row' = [row EXCEPT ![req[r].s] = IF @ = NoRow THEN @ ELSE req[r].sid]
    BY <1>5 DEF ResultArrives, RowTakes, At
  <2>3. req[r].s \in Sessions /\ req[r].client \in Clients /\ req[r].client[3] = req[r].s
    BY <1>h, <2>2 DEF Handler, Working, Sessions
  <2>4. Holds(req[r].s, req[r].sid)
    BY <2>2 DEF Holds
  <2>5. \A s \in Claude, n \in Natives : Holds(s, n)' => Holds(s, n)
    <3>1. \A s \in Sessions : row'[s] # row[s] => s = req[r].s /\ row'[s] = req[r].sid
      BY <2>2, <2>3 DEF TypeInv
    <3>2. \A x \in Clients :
            native'[x] # native[x] => x = req[r].client /\ native'[x] = req[r].sid
      BY <2>2, <2>3 DEF TypeInv
    <3> QED
      BY <2>1, <2>3, <2>4, <3>1, <3>2, HoldsAfter DEF Sessions
  <2> QED
    BY <2>1, <2>5, OwnKept, RunnersKept DEF Over
<1>6. ASSUME NEW r \in Requests, Closes(r) \/ RowDeleted(r) PROVE OwnInv'
  <2>1. PICK g : Moves(r, g) /\ g.pc \in {"done", "failed"}
    BY <1>6, EndMoves DEF Closes
  <2>2. \A s \in Sessions : row'[s] = row[s] \/ row'[s] = NoRow
    BY <1>6 DEF Closes, ProcessDies, ForkFails, RowDeleted, TypeInv
  <2>3. native' = native
    BY <1>6 DEF Closes, ProcessDies, ForkFails, RowDeleted
  <2>4. \A s \in Claude, n \in Natives : Holds(s, n)' => Holds(s, n)
    BY <1>k, <2>1, <2>2, <2>3, HoldsAfter DEF Sessions
  <2> QED
    BY <2>1, <2>4, OwnKept, RunnersKept DEF Over
<1>7. ASSUME NEW r \in Requests, ChildBuilt(r) PROVE OwnInv'
  <2> DEFINE u == req[r].s
             c == <<r, 2, u>>
  <2>1. PICK g : Moves(r, g) /\ g.pc \in {"done", "failed"}
    BY <1>7, EndMoves
  <2>2. /\ req[r].pc = "child"
        /\ native' = [native EXCEPT ![c] = u]
        /\ row' = [row EXCEPT ![u] = IF @ = NoRow THEN u ELSE @]
    BY <1>7 DEF ChildBuilt, InsertRow, At
  <2>3. u \in Claude /\ u \in Natives /\ u \in Sessions /\ c \in Clients /\ c[3] = u
    BY <1>h, <2>2 DEF Handler, Natives, Sessions, Clients
  <2> HIDE DEF c
  <2>4. \A s \in Claude, n \in Natives : Holds(s, n)' => Holds(s, n) \/ (s = u /\ n = u)
    <3>1. \A s \in Sessions : row'[s] # row[s] => s = u /\ row'[s] = u
      BY <2>2, <2>3 DEF TypeInv
    <3>2. \A x \in Clients : native'[x] # native[x] => x = c /\ native'[x] = u
      BY <2>2, <2>3 DEF TypeInv
    <3> QED
      BY <2>1, <2>3, <3>1, <3>2, HoldsAfter DEF Sessions
  <2>5. \A s \in Claude : Holds(s, u) => s = u
    BY <2>3 DEF OwnInv
  <2>6. \A x \in Requests : req[x].pc \in Over \cup {"running"} =>
                            req'[x].pc \in Over \cup {"running"}
    BY <2>1, RunnersKept DEF Over
  <2>7. u \notin Requests
    BY <1>k, <2>3
  <2> HIDE DEF u
  <2> QED
    BY <2>3, <2>4, <2>5, <2>6, <2>7, OwnGrows
<1>8. ASSUME NEW r \in Requests, NEW s \in Claude, ForkEnds(r, s) PROVE OwnInv'
  <2>1. PICK g : Moves(r, g) /\ g.pc \in {"failed", "child"}
    BY <1>8, ForkEndsMoves
  <2>2. UNCHANGED <<row, native>> /\ req[r].pc = "forking"
    BY <1>8 DEF ForkEnds, At
  <2>3. \A t \in Claude, n \in Natives : Holds(t, n)' => Holds(t, n)
    BY <2>1, <2>2, HoldsAfter
  <2> QED
    BY <2>1, <2>2, <2>3, OwnKept, RunnersKept
<1>9. ASSUME NEW r \in Requests, NEW s \in Sessions, DeleteOrphan(r, s) PROVE OwnInv'
  <2>1. PICK g : Moves(r, g) /\ g.pc = "done"
    BY <1>9, OrphanMoves
  <2>2. /\ \A t \in Sessions : row'[t] = row[t] \/ row'[t] = NoRow
        /\ native' = native
    BY <1>9 DEF DeleteOrphan, TypeInv
  <2>3. \A t \in Claude, n \in Natives : Holds(t, n)' => Holds(t, n)
    BY <1>k, <2>1, <2>2, HoldsAfter DEF Sessions
  <2> QED
    BY <2>1, <2>3, OwnKept, RunnersKept DEF Over
<1>10. ASSUME NEW r \in Requests, ClawStep(r) \/ \E s \in Claw : ClawArrival(r, s)
       PROVE  OwnInv'
  <2>1. PICK g : Elsewhere(r, g)
    BY <1>10, ClawStepElsewhere, ClawArrivalElsewhere
  <2>2. Apart
    BY <1>10, ClawStepElsewhere, ClawArrivalElsewhere
  <2>3. /\ Moves(r, g) /\ g.pc \notin {"build", "running"}
        /\ req[r].pc # "running"
    BY <2>1 DEF Elsewhere, NewRequest, Waiting, Over
  <2>4. \A t \in Claude, n \in Natives : Holds(t, n)' => Holds(t, n)
    BY <2>2, <2>3, HoldsAfter DEF Apart
  <2> QED
    BY <2>3, <2>4, OwnKept, RunnersKept
<1>11. ASSUME NEW r \in Requests, NEW s \in Claude, DeleteClaude(r, s) PROVE OwnInv'
  <2>1. PICK g, stop : Deletes(r, s, g, stop)
    BY <1>11, DeleteMoves
  <2>2. /\ \A x \in Requests : req'[x].pc \in {"build", "running"} => req'[x] = req[x]
        /\ \A x \in Requests : req[x].pc \in Over \cup {"running"} =>
                                req'[x].pc \in Over \cup {"running"}
    BY <2>1 DEF Deletes, Closed, NewRequest, Over
  <2>3. \A t \in Claude, n \in Natives : Holds(t, n)' => Holds(t, n)
    BY <2>1, <2>2 DEF Deletes, Holds
  <2> QED
    BY <2>2, <2>3, OwnKept
<1>12. CASE Restart
  <2>1. PICK up \in SUBSET {s \in Sessions : row[s] # NoRow} :
          native' = [c \in Clients |->
                      IF c[1] = Boot /\ c[2] = 1 /\ c[3] \in up THEN row[c[3]]
                      ELSE NoNative]
    BY <1>12 DEF Restart
  <2>2. row' = row
    BY <1>12 DEF Restart
  <2>3. \A x \in Requests : /\ req'[x].pc \notin {"build", "running"}
                            /\ req[x].pc \in Over \cup {"running"} =>
                               req'[x].pc \in Over \cup {"running"}
    <3>1. ASSUME NEW x \in Requests, req[x].pc = "running" PROVE req'[x].pc \in Over
      BY <1>12, <3>1 DEF Restart, Live, NewRequest, Over
    <3> QED
      BY <1>12, <3>1, RestartMoves DEF Over
  <2>4. \A t \in Claude, n \in Natives : Holds(t, n)' => Holds(t, n)
    BY <1>k, <2>1, <2>2, <2>3 DEF Holds
  <2> QED
    BY <2>3, <2>4, OwnKept
<1>13. CASE Aside
  <2>1. \A t \in Claude, n \in Natives : Holds(t, n)' => Holds(t, n)
    BY <1>13 DEF Aside, Holds
  <2> QED
    BY <1>13, <2>1, OwnKept DEF Aside
<1> QED
  BY <1>1, <1>2, <1>3, <1>4, <1>5, <1>6, <1>7, <1>8, <1>9, <1>10, <1>11, <1>12, <1>13,
     StepKinds

(* A client runs one turn at a time: _turn_lock.                            *)
MutexInv ==
  \A x, y \in Requests :
    x # y /\ req[x].pc = "running" /\ req[y].pc = "running"
      => req[x].client # req[y].client

(* Who works for the claude session s.                                      *)
Users(s) == {x \in Requests : req[x].pc \in Working /\ req[x].s = s}

(* Those who work for a session without twins use one client, the           *)
(* registered one if there is one.                                         *)
OneInv ==
  \A s \in Claude \ twins :
    /\ \A x \in Users(s) : reg[s] \in {req[x].client, NoClient}
    /\ \A x, y \in Users(s) : req[x].client = req[y].client

(* Nobody new runs, or works, and nobody changes his client.                *)
LEMMA UseKept ==
  ASSUME MutexInv, OneInv, twins \subseteq twins',
         \A s \in Claude \ twins' : reg'[s] \in {reg[s], NoClient},
         \A x \in Requests : req'[x].pc \in Working =>
           /\ req[x].pc \in Working /\ req'[x].s = req[x].s
           /\ req'[x].client = req[x].client
           /\ req'[x].pc = "running" => req[x].pc = "running"
  PROVE  MutexInv' /\ OneInv'
<1>1. MutexInv'
  BY DEF MutexInv, Working
<1>2. \A s \in Claude \ twins', x \in Requests : x \in Users(s)' => x \in Users(s)
  BY DEF Users
<1>3. OneInv'
  <2>1. ASSUME NEW s \in Claude \ twins', NEW x \in Users(s)'
        PROVE  /\ x \in Users(s) /\ s \in Claude \ twins
               /\ req'[x].client = req[x].client /\ reg'[s] \in {reg[s], NoClient}
    BY <1>2, <2>1 DEF Users
  <2>2. ASSUME NEW s \in Claude \ twins', NEW x \in Users(s)', NEW y \in Users(s)'
        PROVE  reg'[s] \in {req'[x].client, NoClient} /\ req'[x].client = req'[y].client
    <3>1. /\ x \in Users(s) /\ y \in Users(s) /\ s \in Claude \ twins
          /\ req'[x].client = req[x].client /\ req'[y].client = req[y].client
          /\ reg'[s] \in {reg[s], NoClient}
      BY <2>1
    <3> QED
      BY <3>1 DEF OneInv
  <2> QED
    BY <2>2 DEF OneInv
<1> QED
  BY <1>1, <1>3

(* What it means that s has no twins after a client was built for it.       *)
LEMMA NotMarked ==
  ASSUME TypeInv, NEW r \in Requests, NEW s, MarkTwins(r, s), s \notin twins'
  PROVE  /\ twins' = twins /\ reg[s] = NoClient
         /\ \A x \in Requests \ {r} : req[x].s = s => req[x].pc \notin {"build", "child"}
         /\ req[r].op = "fork" /\ req[r].pc = "child" => row[s] = NoRow
         /\ \A x \in Requests \ ({r} \cup req[r].before) : ~ClientOf(req[x].client, s)
BY DEF MarkTwins

LEMMA NobodyWorks ==
  ASSUME TypeInv, NEW r \in Requests, NEW s, MarkTwins(r, s), s \notin twins'
  PROVE  \A x \in Users(s) : x = r
<1> SUFFICES ASSUME NEW x \in Users(s), x # r PROVE FALSE
  OBVIOUS
<1>1. x \in Requests /\ req[x].pc \in Working /\ req[x].s = s
  BY DEF Users
<1>2. Handler(req[x]) /\ Noted(req[r])
  BY <1>1 DEF TypeInv
<1>3. x \notin req[r].before
  BY <1>1, <1>2 DEF Noted, Working, Over
<1>4. ClientOf(req[x].client, s)
  BY <1>1, <1>2 DEF Handler, ClientOf
<1> QED
  BY <1>1, <1>3, <1>4, NotMarked

LEMMA UseStep ==
  ASSUME TypeInv, MutexInv, OneInv, [Next]_vars
  PROVE  MutexInv' /\ OneInv'
<1> USE DEF claw, claude
<1>h. \A x \in Requests : Handler(req[x])
  BY DEF TypeInv
<1>c. Claude \subseteq Sessions /\ NoClient \notin Clients
  BY ClientSessionAssumption DEF Sessions
<1>m. ASSUME NEW r \in Requests, NEW h, Moves(r, h), twins' = twins,
             \A s \in Claude : reg'[s] \in {reg[s], NoClient},
             h.pc \in Working =>
               /\ req[r].pc \in Working /\ h.s = req[r].s /\ h.client = req[r].client
               /\ h.pc = "running" => req[r].pc = "running"
      PROVE  MutexInv' /\ OneInv'
  <2>1. req'[r] = h /\ \A x \in Requests \ {r} : req'[x] = req[x]
    BY <1>m DEF Moves, TypeInv
  <2> QED
    BY <1>m, <2>1, UseKept
<1>1. ASSUME NEW r \in Requests, Arrives(r) PROVE MutexInv' /\ OneInv'
  <2>1. PICK g : /\ Moves(r, g)
                 /\ \/ g.pc \in {"build", "done"}
                    \/ /\ g.pc \in {"tick", "forking"} /\ g.s \in Claude
                       /\ reg[g.s] \in Clients /\ g.client = reg[g.s]
    BY <1>1, CreateClaudeMoves, UseClaudeMoves DEF Arrives
  <2>2. UNCHANGED <<reg, twins>>
    BY <1>1 DEF Arrives, CreateClaude, UseClaude
  <2>3. CASE g.pc \in {"build", "done"}
    BY <1>m, <2>1, <2>2, <2>3 DEF Working
  <2>4. CASE g.pc \in {"tick", "forking"}
    <3>0. /\ g.s \in Claude /\ reg[g.s] \in Clients /\ g.client = reg[g.s]
          /\ g.pc \in Working /\ g.pc # "running"
      BY <2>1, <2>4 DEF Working
    <3>1. req'[r] = g /\ \A x \in Requests \ {r} : req'[x] = req[x]
      BY <2>1 DEF Moves, TypeInv
    <3>2. MutexInv'
      BY <3>0, <3>1 DEF MutexInv
    <3>3. ASSUME NEW s \in Claude \ twins', NEW x \in Users(s)', NEW y \in Users(s)'
          PROVE  /\ reg'[s] \in {req'[x].client, NoClient}
                 /\ req'[x].client = req'[y].client
      <4>1. /\ x = r => req'[x].client = reg[s]
            /\ y = r => req'[y].client = reg[s]
            /\ x = r \/ y = r => reg[s] # NoClient
        BY <1>c, <3>0, <3>1, <3>3 DEF Users
      <4>2. /\ x # r => x \in Users(s) /\ req'[x] = req[x]
            /\ y # r => y \in Users(s) /\ req'[y] = req[y]
        BY <3>1, <3>3 DEF Users
      <4> QED
        BY <2>2, <3>3, <4>1, <4>2 DEF OneInv
    <3> QED
      BY <3>2, <3>3 DEF OneInv
  <2> QED
    BY <2>1, <2>3, <2>4
<1>2. ASSUME NEW r \in Requests, ClaudeBuilt(r) PROVE MutexInv' /\ OneInv'
  <2> DEFINE u == req[r].s
             c == <<r, 1, u>>
  <2>1. PICK g : /\ Moves(r, g) /\ g.pc \in {"tick", "forking", "done"}
                 /\ g.s = u /\ g.client = c
    BY <1>2, ClaudeBuiltMoves
  <2>2. c \in Clients /\ c[3] = u /\ u \in Claude /\ req[r].pc = "build"
    BY <1>2, ClaudeBuiltMoves
  <2>3. MarkTwins(r, u) /\ reg' = [reg EXCEPT ![u] = c]
    BY <1>2 DEF ClaudeBuilt
  <2> HIDE DEF c, u
  <2>4. req'[r] = g /\ \A x \in Requests \ {r} : req'[x] = req[x]
    BY <2>1 DEF Moves, TypeInv
  <2>5. MutexInv'
    BY <2>1, <2>4 DEF MutexInv
  <2>6. /\ twins \subseteq twins' /\ twins' \subseteq twins \cup {u}
        /\ \A s \in Claude \ {u} : reg'[s] = reg[s]
        /\ reg'[u] = c
    BY <1>c, <2>2, <2>3 DEF MarkTwins, TypeInv
  <2>7. ASSUME NEW s \in Claude \ twins', NEW x \in Users(s)', NEW y \in Users(s)'
        PROVE  /\ reg'[s] \in {req'[x].client, NoClient}
               /\ req'[x].client = req'[y].client
    <3>1. CASE s = u
      <4>1. \A z \in Users(s) : z = r
        BY <2>3, <2>7, <3>1, NobodyWorks
      <4>2. \A z \in Users(s)' : z = r \/ z \in Users(s)
        BY <2>4 DEF Users
      <4>3. x = r /\ y = r
        BY <2>7, <3>1, <4>1, <4>2
      <4> QED
        BY <2>1, <2>4, <2>6, <3>1, <4>3
    <3>2. CASE s # u
      <4>1. /\ x \in Users(s) /\ y \in Users(s)
            /\ req'[x] = req[x] /\ req'[y] = req[y]
        BY <2>1, <2>4, <2>7, <3>2 DEF Users
      <4>2. s \in Claude \ twins /\ reg'[s] = reg[s]
        BY <2>6, <2>7, <3>2
      <4> QED
        BY <4>1, <4>2 DEF OneInv
    <3> QED
      BY <3>1, <3>2
  <2> QED
    BY <2>5, <2>7 DEF OneInv
<1>3. ASSUME NEW r \in Requests, TickStarted(r) PROVE MutexInv' /\ OneInv'
  <2>1. PICK g : /\ Moves(r, g) /\ g.pc = "queued" /\ g.s = req[r].s
                 /\ g.client = req[r].client /\ req[r].pc = "tick"
    BY <1>3, TickMoves
  <2>2. UNCHANGED <<reg, twins>>
    BY <1>3 DEF TickStarted
  <2> QED
    BY <1>m, <2>1, <2>2 DEF Working
<1>4. ASSUME NEW r \in Requests, SpawnLocked(r) PROVE MutexInv' /\ OneInv'
  <2>1. PICK g : /\ Moves(r, g) /\ g.pc = "running" /\ g.s = req[r].s
                 /\ g.client = req[r].client /\ req[r].pc = "queued"
    BY <1>4, SpawnMoves DEF SpawnLocked
  <2>2. UNCHANGED <<reg, twins>>
    BY <1>4 DEF SpawnLocked, Spawn
  <2>3. req'[r] = g /\ \A x \in Requests \ {r} : req'[x] = req[x]
    BY <2>1 DEF Moves, TypeInv
  <2>4. \A x \in Requests : req[x].pc = "running" => req[x].client # req[r].client
    BY <1>4 DEF SpawnLocked, At
  <2>5. MutexInv'
    BY <2>1, <2>3, <2>4 DEF MutexInv
  <2>6. \A s \in Claude : Users(s)' = Users(s)
    BY <2>1, <2>3 DEF Users, Working
  <2>7. \A x \in Requests : req'[x].client = req[x].client
    BY <2>1, <2>3
  <2>8. \A s : Users(s) \subseteq Requests
    BY DEF Users
  <2> QED
    BY <2>2, <2>5, <2>6, <2>7, <2>8 DEF OneInv
<1>5. ASSUME NEW r \in Requests, ResultArrives(r) \/ Closes(r) \/ RowDeleted(r)
      PROVE  MutexInv' /\ OneInv'
  <2>1. PICK g : Moves(r, g) /\ g.pc \in {"done", "failed"}
    BY <1>5, EndMoves DEF Closes
  <2>2. UNCHANGED <<reg, twins>>
    BY <1>5 DEF ResultArrives, Closes, ProcessDies, ForkFails, RowDeleted
  <2> QED
    BY <1>m, <2>1, <2>2 DEF Working
<1>6. ASSUME NEW r \in Requests, ChildBuilt(r) PROVE MutexInv' /\ OneInv'
  <2> DEFINE u == req[r].s
             c == <<r, 2, u>>
  <2>1. PICK g : Moves(r, g) /\ g.pc \in {"done", "failed"}
    BY <1>6, EndMoves
  <2>2. MarkTwins(r, u) /\ reg' = [reg EXCEPT ![u] = c] /\ req[r].pc = "child"
    BY <1>6 DEF ChildBuilt, At
  <2>3. u \in Claude
    BY <1>h, <2>2 DEF Handler
  <2> HIDE DEF c, u
  <2>4. req'[r] = g /\ \A x \in Requests \ {r} : req'[x] = req[x]
    BY <2>1 DEF Moves, TypeInv
  <2>5. MutexInv'
    BY <2>1, <2>4 DEF MutexInv
  <2>6. /\ twins \subseteq twins' /\ twins' \subseteq twins \cup {u}
        /\ \A s \in Claude \ {u} : reg'[s] = reg[s]
    BY <1>c, <2>2, <2>3 DEF MarkTwins, TypeInv
  <2>7. ASSUME NEW s \in Claude \ twins', NEW x \in Users(s)', NEW y \in Users(s)'
        PROVE  /\ reg'[s] \in {req'[x].client, NoClient}
               /\ req'[x].client = req'[y].client
    <3>0. /\ x \in Users(s) /\ y \in Users(s) /\ x # r
          /\ req'[x] = req[x] /\ req'[y] = req[y]
      BY <2>1, <2>4, <2>7 DEF Users, Working
    <3>1. CASE s = u
      BY <2>2, <2>7, <3>0, <3>1, NobodyWorks
    <3>2. CASE s # u
      <4>2. s \in Claude \ twins /\ reg'[s] = reg[s]
        BY <2>6, <2>7, <3>2
      <4> QED
        BY <3>0, <4>2 DEF OneInv
    <3> QED
      BY <3>1, <3>2
  <2> QED
    BY <2>5, <2>7 DEF OneInv
<1>7. ASSUME NEW r \in Requests, NEW s \in Claude, ForkEnds(r, s) PROVE MutexInv' /\ OneInv'
  <2>1. PICK g : Moves(r, g) /\ g.pc \in {"failed", "child"}
    BY <1>7, ForkEndsMoves
  <2>2. UNCHANGED <<reg, twins>>
    BY <1>7 DEF ForkEnds
  <2> QED
    BY <1>m, <2>1, <2>2 DEF Working
<1>8. ASSUME NEW r \in Requests, NEW s \in Sessions, DeleteOrphan(r, s)
      PROVE  MutexInv' /\ OneInv'
  <2>1. PICK g : Moves(r, g) /\ g.pc = "done"
    BY <1>8, OrphanMoves
  <2>2. UNCHANGED <<reg, twins>>
    BY <1>8 DEF DeleteOrphan
  <2> QED
    BY <1>m, <2>1, <2>2 DEF Working
<1>9. ASSUME NEW r \in Requests, ClawStep(r) \/ \E s \in Claw : ClawArrival(r, s)
      PROVE  MutexInv' /\ OneInv'
  <2>1. PICK g : Elsewhere(r, g)
    BY <1>9, ClawStepElsewhere, ClawArrivalElsewhere
  <2>2. Apart
    BY <1>9, ClawStepElsewhere, ClawArrivalElsewhere
  <2>3. Moves(r, g) /\ g.pc \notin Working
    BY <2>1 DEF Elsewhere, Working, Waiting, Over
  <2>4. twins' = twins /\ \A s \in Claude : reg'[s] \in {reg[s], NoClient}
    BY <2>2 DEF Apart
  <2> QED
    BY <1>m, <2>3, <2>4
<1>10. ASSUME NEW r \in Requests, NEW s \in Claude, DeleteClaude(r, s)
       PROVE  MutexInv' /\ OneInv'
  <2>1. PICK g, stop : Deletes(r, s, g, stop)
    BY <1>10, DeleteMoves
  <2>2. \A x \in Requests : req'[x].pc \in Working => req'[x] = req[x]
    BY <2>1 DEF Deletes, Closed, Working
  <2>3. /\ twins' = twins
        /\ \A t \in Claude : reg'[t] \in {reg[t], NoClient}
    BY <1>c, <2>1 DEF Deletes, TypeInv
  <2> QED
    BY <2>2, <2>3, UseKept
<1>11. CASE Restart
  <2>1. \A x \in Requests : req'[x].pc \notin Working
    BY <1>11, RestartMoves DEF Working, Over
  <2> QED
    BY <2>1 DEF MutexInv, OneInv, Users, Working
<1>12. CASE Aside
  BY <1>12 DEF Aside, MutexInv, OneInv, Users
<1> QED
  BY <1>1, <1>2, <1>3, <1>4, <1>5, <1>6, <1>7, <1>8, <1>9, <1>10, <1>11, <1>12, StepKinds

(* Two processes on one native session need a session with two clients.     *)
THEOREM TurnsPerNative == Spec => []OneTurnPerNative
<1>1. Init => OwnInv /\ MutexInv /\ OneInv
  <2> SUFFICES ASSUME Init PROVE OwnInv /\ MutexInv /\ OneInv
    OBVIOUS
  <2>1. \A x \in Requests : req[x].pc = "idle"
    BY DEF Init, NewRequest
  <2>2. \A s \in Claude, n \in Natives : Holds(s, n) => n = s
    BY <2>1, ClientSessionAssumption DEF Init, Holds, Sessions
  <2>3. OwnInv
    BY <2>2, ClientSessionAssumption DEF OwnInv, Sessions
  <2> QED
    BY <2>1, <2>3 DEF MutexInv, OneInv, Users, Working
<1>2. TypeInv /\ OwnInv /\ MutexInv /\ OneInv => OneTurnPerNative
  <2> SUFFICES ASSUME TypeInv, OwnInv, MutexInv, OneInv, NEW x \in Requests,
                      NEW y \in Requests, x # y, req[x].pc = "running",
                      req[y].pc = "running", req[x].s \notin twins,
                      req[x].sid = req[y].sid
               PROVE  FALSE
    BY DEF OneTurnPerNative, At
  <2>1. /\ req[x].s \in Claude /\ req[y].s \in Claude /\ req[x].sid \in Natives
    BY DEF TypeInv, Handler, Working
  <2>2. Holds(req[x].s, req[x].sid) /\ Holds(req[y].s, req[x].sid)
    BY DEF Holds
  <2>3. req[x].s = req[y].s
    BY <2>1, <2>2 DEF OwnInv
  <2>4. req[x].client = req[y].client
    BY <2>1, <2>3 DEF OneInv, Users, Working
  <2> QED
    BY <2>4 DEF MutexInv
<1> QED
  BY <1>1, <1>2, ClientTypes, OwnStep, UseStep, PTL DEF Spec

-------------------------------------------------------------------------------
(* Rows                                                                     *)

(* The creation x of a session is under way.                                *)
Creating(x) == req[x].pc = "build" /\ req[x].op = "create"

(* Until it is answered nobody else has its id.                             *)
CreateInv ==
  \A x \in Requests : Creating(x) =>
    /\ reg[req[x].s] = NoClient /\ row[req[x].s] = NoRow
    /\ \A y \in Requests \ {x} : req[y].s # req[x].s

(* The row from which a client is being built still says the same, or       *)
(* another client of the session was in use since.                         *)
BuildInv ==
  \A x \in Requests : req[x].pc = "build" /\ req[x].s \notin twins =>
    \/ row[req[x].s] \in {req[x].sid, NoRow}
    \/ \E y \in Requests \ ({x} \cup req[x].before) :
         req[y].pc \in Over /\ ClientOf(req[y].client, req[x].s)

LEMMA CreateKept ==
  ASSUME TypeInv, CreateInv, NEW r \in Requests, NEW h, Moves(r, h),
         ~(h.pc = "build" /\ h.op = "create"),
         h.s = req[r].s \/ \A x \in Requests : Creating(x) => req[x].s # h.s,
         \A s \in Claude : s # h.s =>
           reg'[s] \in {reg[s], NoClient} /\ row'[s] \in {row[s], NoRow}
  PROVE  CreateInv'
<1>1. req'[r] = h /\ \A x \in Requests \ {r} : req'[x] = req[x]
  BY DEF Moves, TypeInv
<1>2. ASSUME NEW x \in Requests, Creating(x)'
      PROVE  /\ reg'[req'[x].s] = NoClient /\ row'[req'[x].s] = NoRow
             /\ \A y \in Requests \ {x} : req'[y].s # req'[x].s
  <2>1. x # r /\ Creating(x) /\ req'[x] = req[x]
    BY <1>1, <1>2 DEF Creating
  <2>2. /\ reg[req[x].s] = NoClient /\ row[req[x].s] = NoRow
        /\ \A y \in Requests \ {x} : req[y].s # req[x].s
    BY <2>1 DEF CreateInv
  <2>3. req[x].s \in Claude /\ req[x].s # h.s
    BY <2>1, <2>2 DEF TypeInv, Handler, Creating
  <2> QED
    BY <1>1, <2>1, <2>2, <2>3
<1> QED
  BY <1>2 DEF CreateInv

LEMMA BuildKept ==
  ASSUME TypeInv, BuildInv, NEW r \in Requests, NEW h, Moves(r, h),
         h.pc = "build" => row'[h.s] \in {h.sid, NoRow},
         twins \subseteq twins',
         \A s \in Claude \ twins' :
           \/ row'[s] \in {row[s], NoRow}
           \/ \A x \in Requests \ {r} : req[x].s = s => req[x].pc # "build"
           \/ h.pc \in Over /\ ClientOf(h.client, s)
  PROVE  BuildInv'
<1>1. req'[r] = h /\ \A x \in Requests \ {r} : req'[x] = req[x]
  BY DEF Moves, TypeInv
<1>2. ASSUME NEW x \in Requests, req'[x].pc = "build", req'[x].s \notin twins'
      PROVE  \/ row'[req'[x].s] \in {req'[x].sid, NoRow}
             \/ \E y \in Requests \ ({x} \cup req'[x].before) :
                  req'[y].pc \in Over /\ ClientOf(req'[y].client, req'[x].s)
  <2>1. CASE x = r
    BY <1>1, <1>2, <2>1
  <2>2. CASE x # r
    <3>1. req'[x] = req[x] /\ req[x].pc = "build" /\ req[x].s \notin twins
      BY <1>1, <1>2, <2>2
    <3>2. req[x].s \in Claude \ twins' /\ req[x].before \subseteq Requests
      BY <1>2, <3>1 DEF TypeInv, Handler, Requested
    <3>3. r \notin req[x].before
      BY DEF TypeInv, Noted, Moves
    <3>4. CASE row[req[x].s] \in {req[x].sid, NoRow}
      <4>1. CASE row'[req[x].s] \in {row[req[x].s], NoRow}
        BY <3>1, <3>4, <4>1
      <4>2. CASE h.pc \in Over /\ ClientOf(h.client, req[x].s)
        BY <1>1, <2>2, <3>1, <3>3, <4>2
      <4> QED
        BY <2>2, <3>1, <3>2, <4>1, <4>2
    <3>5. CASE \E y \in Requests \ ({x} \cup req[x].before) :
                 req[y].pc \in Over /\ ClientOf(req[y].client, req[x].s)
      <4>1. PICK y \in Requests \ ({x} \cup req[x].before) :
                   req[y].pc \in Over /\ ClientOf(req[y].client, req[x].s)
        BY <3>5
      <4>2. req'[y] = req[y]
        BY <1>1, <4>1 DEF Moves
      <4> QED
        BY <3>1, <4>1, <4>2
    <3> QED
      BY <3>1, <3>4, <3>5 DEF BuildInv
  <2> QED
    BY <2>1, <2>2
<1> QED
  BY <1>2 DEF BuildInv

LEMMA RecordKept ==
  ASSUME NativeRecorded, twins \subseteq twins', unsaved' = unsaved,
         \A s \in Claude \ twins' :
           \/ reg'[s] = NoClient \/ row'[s] = NoRow
           \/ /\ reg'[s] = reg[s] /\ row'[s] = row[s]
              /\ reg[s] # NoClient => native'[reg[s]] = native[reg[s]]
  PROVE  NativeRecorded'
BY ClientSessionAssumption DEF NativeRecorded

RowsInv == CreateInv /\ BuildInv /\ NativeRecorded

LEMMA KnownNotCreating ==
  ASSUME NEW s, Known(s), NEW x \in Requests, Creating(x)
  PROVE  req[x].s # s
BY DEF Known, Creating, Live, Over

(* A handler that gets, keeps or gives up a client that is there.           *)
LEMMA RowsUntouched ==
  ASSUME TypeInv, RowsInv, NEW r \in Requests, NEW h, Moves(r, h),
         ~(h.pc = "build" /\ h.op = "create"),
         h.pc = "build" => row[h.s] = h.sid,
         h.s = req[r].s \/ \A x \in Requests : Creating(x) => req[x].s # h.s,
         UNCHANGED <<reg, row, native, twins, unsaved>>
  PROVE  RowsInv'
<1>1. CreateInv'
  BY CreateKept DEF RowsInv
<1>2. BuildInv'
  BY BuildKept DEF RowsInv
<1>3. NativeRecorded'
  BY RecordKept DEF RowsInv
<1> QED
  BY <1>1, <1>2, <1>3 DEF RowsInv

LEMMA RowsClaudeBuilt ==
  ASSUME TypeInv, RowsInv, NEW r \in Requests, ClaudeBuilt(r)
  PROVE  RowsInv'
<1> DEFINE u == req[r].s
           c == <<r, 1, u>>
<1>1. PICK g : /\ Moves(r, g) /\ g.pc \in {"tick", "forking", "done"}
               /\ g.s = u /\ g.client = c
  BY ClaudeBuiltMoves
<1>2. c \in Clients /\ c[3] = u /\ u \in Claude /\ req[r].pc = "build"
  BY ClaudeBuiltMoves
<1>3. /\ MarkTwins(r, u) /\ reg' = [reg EXCEPT ![u] = c]
      /\ native' = [native EXCEPT ![c] = req[r].sid]
      /\ row' = IF req[r].insert
                THEN [row EXCEPT ![u] = IF @ = NoRow THEN NoNative ELSE @] ELSE row
  BY DEF ClaudeBuilt, InsertRow
<1>4. req[r].insert => Creating(r) /\ req[r].sid = NoNative
  BY <1>2 DEF TypeInv, Handler, Creating
<1>c. Claude \subseteq Sessions /\ NoRow # NoNative /\ NoClient \notin Clients
  BY ClientSessionAssumption DEF Sessions
<1> HIDE DEF c
<1>5. /\ twins \subseteq twins' /\ twins' \subseteq twins \cup {u}
      /\ \A s \in Claude : s # u => reg'[s] = reg[s] /\ row'[s] = row[s]
      /\ reg'[u] = c /\ native'[c] = req[r].sid
      /\ row'[u] = row[u] \/ (req[r].insert /\ row[u] = NoRow /\ row'[u] = NoNative)
      /\ \A x \in Clients : x # c => native'[x] = native[x]
  BY <1>c, <1>2, <1>3 DEF MarkTwins, TypeInv
<1>u. unsaved' = unsaved
  BY DEF ClaudeBuilt, ChildBuilt
<1>6. CreateInv'
  BY <1>1, <1>5, CreateKept DEF RowsInv
<1>7. BuildInv'
  <2>1. ASSUME NEW s \in Claude \ twins'
        PROVE  \/ row'[s] \in {row[s], NoRow}
               \/ \A x \in Requests \ {r} : req[x].s = s => req[x].pc # "build"
    <3>1. CASE s = u
      BY <1>3, <2>1, <3>1, NotMarked
    <3>2. CASE s # u
      BY <1>5, <2>1, <3>2
    <3> QED
      BY <3>1, <3>2
  <2> QED
    BY <1>1, <1>5, <2>1, BuildKept DEF RowsInv
<1>8. NativeRecorded'
  <2>1. ASSUME u \notin twins', row'[u] # NoRow PROVE row'[u] = req[r].sid
    <3>1. /\ u \notin twins
          /\ \A x \in Requests \ ({r} \cup req[r].before) : ~ClientOf(req[x].client, u)
      BY <1>3, <2>1, NotMarked
    <3>2. row[u] \in {req[r].sid, NoRow}
      BY <1>2, <3>1 DEF RowsInv, BuildInv
    <3> QED
      BY <1>4, <1>5, <2>1, <3>2
  <2>2. ASSUME NEW s \in Claude \ twins', reg'[s] \in Clients \ unsaved', row'[s] # NoRow
        PROVE  row'[s] = native'[reg'[s]]
    <3>1. CASE s = u
      BY <1>5, <2>1, <2>2, <3>1
    <3>2. CASE s # u
      <4>1. reg[s] \in Clients \ unsaved /\ reg[s][3] = s /\ s \in Claude \ twins
        BY <1>c, <1>5, <1>u, <2>2, <3>2 DEF TypeInv
      <4>2. reg[s] # c /\ row[s] = native[reg[s]]
        BY <1>2, <1>5, <2>2, <3>2, <4>1, <1>c DEF RowsInv, NativeRecorded
      <4> QED
        BY <1>5, <2>2, <3>2, <4>1, <4>2
    <3> QED
      BY <3>1, <3>2
  <2> QED
    BY <2>2 DEF NativeRecorded
<1> QED
  BY <1>6, <1>7, <1>8 DEF RowsInv

LEMMA RowsChildBuilt ==
  ASSUME TypeInv, RowsInv, NEW r \in Requests, ChildBuilt(r)
  PROVE  RowsInv'
<1> DEFINE u == req[r].s
           c == <<r, 2, u>>
<1>1. PICK g : Moves(r, g) /\ g.pc \in {"done", "failed"} /\ g.s = u
  BY EndMoves
<1>2. /\ MarkTwins(r, u) /\ reg' = [reg EXCEPT ![u] = c] /\ req[r].pc = "child"
      /\ native' = [native EXCEPT ![c] = u]
      /\ row' = [row EXCEPT ![u] = IF @ = NoRow THEN u ELSE @]
  BY DEF ChildBuilt, InsertRow, At
<1>3. u \in Claude /\ u \in Sessions /\ req[r].op = "fork" /\ c \in Clients /\ c[3] = u
  BY <1>2 DEF TypeInv, Handler, Sessions, Clients
<1>c. Claude \subseteq Sessions /\ NoClient \notin Clients
  BY ClientSessionAssumption DEF Sessions
<1> HIDE DEF c
<1>5. /\ twins \subseteq twins' /\ twins' \subseteq twins \cup {u}
      /\ \A s \in Claude : s # u => reg'[s] = reg[s] /\ row'[s] = row[s]
      /\ reg'[u] = c /\ native'[c] = u
      /\ row[u] = NoRow => row'[u] = u
      /\ \A x \in Clients : x # c => native'[x] = native[x]
  BY <1>c, <1>2, <1>3 DEF MarkTwins, TypeInv
<1>u. unsaved' = unsaved
  BY DEF ClaudeBuilt, ChildBuilt
<1>6. CreateInv'
  BY <1>1, <1>5, CreateKept DEF RowsInv
<1>7. BuildInv'
  <2>1. ASSUME NEW s \in Claude \ twins'
        PROVE  \/ row'[s] \in {row[s], NoRow}
               \/ \A x \in Requests \ {r} : req[x].s = s => req[x].pc # "build"
    <3>1. CASE s = u
      BY <1>2, <2>1, <3>1, NotMarked
    <3>2. CASE s # u
      BY <1>5, <2>1, <3>2
    <3> QED
      BY <3>1, <3>2
  <2> QED
    BY <1>1, <1>5, <2>1, BuildKept DEF RowsInv
<1>8. NativeRecorded'
  <2>1. u \notin twins' => row'[u] = u
    BY <1>2, <1>3, <1>5, NotMarked
  <2>2. ASSUME NEW s \in Claude \ twins', reg'[s] \in Clients \ unsaved', row'[s] # NoRow
        PROVE  row'[s] = native'[reg'[s]]
    <3>1. CASE s = u
      BY <1>5, <2>1, <2>2, <3>1
    <3>2. CASE s # u
      <4>1. reg[s] \in Clients \ unsaved /\ reg[s][3] = s /\ s \in Claude \ twins
        BY <1>c, <1>5, <1>u, <2>2, <3>2 DEF TypeInv
      <4>2. reg[s] # c /\ row[s] = native[reg[s]]
        BY <1>3, <1>5, <2>2, <3>2, <4>1, <1>c DEF RowsInv, NativeRecorded
      <4> QED
        BY <1>5, <2>2, <3>2, <4>1, <4>2
    <3> QED
      BY <3>1, <3>2
  <2> QED
    BY <2>2 DEF NativeRecorded
<1> QED
  BY <1>6, <1>7, <1>8 DEF RowsInv

LEMMA RowsResult ==
  ASSUME TypeInv, OneInv, RowsInv, NEW r \in Requests, ResultArrives(r)
  PROVE  RowsInv'
<1> DEFINE u == req[r].s
           c == req[r].client
           sid == req[r].sid
<1>1. PICK g : /\ Moves(r, g) /\ g.pc \in {"done", "failed"}
               /\ g.s = u /\ g.client = c
  BY EndMoves
<1>2. /\ req[r].pc = "running" /\ UNCHANGED <<reg, twins>>
      /\ native' = [native EXCEPT ![c] = sid]
      /\ \/ native[c] = sid /\ UNCHANGED <<row, unsaved>>
         \/ /\ row' = [row EXCEPT ![u] = IF @ = NoRow THEN @ ELSE sid]
            /\ unsaved' = unsaved \ {c}
         \/ row' = row /\ unsaved' = unsaved \cup {c}
  BY DEF ResultArrives, RowTakes, At
<1>3. u \in Claude /\ u \in Sessions /\ c \in Clients /\ c[3] = u /\ r \in Users(u)
  BY <1>2 DEF TypeInv, Handler, Sessions, Working, Users
<1>c. Claude \subseteq Sessions /\ NoClient \notin Clients
  BY ClientSessionAssumption DEF Sessions
<1> HIDE DEF c, sid
<1>5. /\ \A s \in Claude : s # u => row'[s] = row[s]
      /\ native'[c] = sid
      /\ row'[u] \in {row[u], NoRow, sid}
      /\ \A x \in Clients : x # c => native'[x] = native[x]
  BY <1>c, <1>2, <1>3 DEF TypeInv
<1>6. CreateInv'
  <2>1. \A s \in Claude : s # u => reg'[s] = reg[s] /\ row'[s] = row[s]
    BY <1>2, <1>5
  <2> QED
    BY <1>1, <2>1, CreateKept DEF RowsInv
<1>7. BuildInv'
  <2>1. \A s \in Claude \ twins' :
          row'[s] = row[s] \/ (g.pc \in Over /\ ClientOf(g.client, s))
    BY <1>1, <1>3, <1>5 DEF ClientOf, Over
  <2> QED
    BY <1>1, <1>2, <2>1, BuildKept DEF RowsInv
<1>8. NativeRecorded'
  <2>2. ASSUME NEW s \in Claude \ twins', reg'[s] \in Clients \ unsaved', row'[s] # NoRow
        PROVE  row'[s] = native'[reg'[s]]
    <3>1. CASE s = u
      <4>1. reg[u] = c
        BY <1>2, <1>3, <1>c, <2>2, <3>1 DEF OneInv, c
      <4>2. c \notin unsaved'
        BY <1>2, <2>2, <3>1, <4>1
      <4>3. CASE native[c] = sid /\ UNCHANGED <<row, unsaved>>
        <5>1. row[u] = native[c]
          BY <1>2, <1>3, <2>2, <3>1, <4>1, <4>2, <4>3 DEF RowsInv, NativeRecorded
        <5> QED
          BY <1>2, <1>5, <3>1, <4>1, <4>3, <5>1
      <4>4. CASE row' = [row EXCEPT ![u] = IF @ = NoRow THEN @ ELSE sid]
        <5>1. row'[u] = sid
          BY <1>3, <2>2, <3>1, <4>4 DEF TypeInv
        <5> QED
          BY <1>2, <1>5, <3>1, <4>1, <5>1
      <4> QED
        BY <1>2, <4>2, <4>3, <4>4
    <3>2. CASE s # u
      <4>1. reg[s] \in Clients /\ reg[s][3] = s /\ s \in Claude \ twins
        BY <1>c, <1>2, <2>2, <3>2 DEF TypeInv
      <4>2. reg[s] # c /\ reg[s] \notin unsaved
        BY <1>2, <1>3, <2>2, <3>2, <4>1
      <4>3. row[s] = native[reg[s]]
        BY <1>5, <2>2, <3>2, <4>1, <4>2 DEF RowsInv, NativeRecorded
      <4> QED
        BY <1>2, <1>5, <2>2, <3>2, <4>1, <4>2, <4>3
    <3> QED
      BY <3>1, <3>2
  <2> QED
    BY <2>2 DEF NativeRecorded
<1> QED
  BY <1>6, <1>7, <1>8 DEF RowsInv

LEMMA RowsGone ==
  ASSUME TypeInv, RowsInv, NEW r \in Requests, NEW s \in Sessions,
         (RowDeleted(r) /\ s = req[r].s) \/ DeleteOrphan(r, s)
  PROVE  RowsInv'
<1>1. PICK g : Moves(r, g) /\ g.pc \in {"done", "failed"} /\ g.s = s
  BY EndMoves, OrphanMoves
<1>2. row' = [row EXCEPT ![s] = NoRow] /\ UNCHANGED <<reg, twins, native, unsaved>>
  BY DEF RowDeleted, DeleteOrphan, claw, claude
<1>3. g.s = req[r].s \/ \A x \in Requests : Creating(x) => req[x].s # g.s
  BY <1>1 DEF DeleteOrphan, RowsInv, CreateInv
<1>4. \A t \in Sessions : row'[t] \in {row[t], NoRow}
  BY <1>2 DEF TypeInv
<1>c. Claude \subseteq Sessions
  BY DEF Sessions
<1>5. CreateInv'
  BY <1>1, <1>2, <1>3, <1>4, <1>c, CreateKept DEF RowsInv
<1>6. BuildInv'
  BY <1>1, <1>2, <1>4, <1>c, BuildKept DEF RowsInv
<1>7. NativeRecorded'
  BY <1>2, <1>4, <1>c, RecordKept DEF RowsInv
<1> QED
  BY <1>5, <1>6, <1>7 DEF RowsInv

LEMMA RowsDelete ==
  ASSUME TypeInv, RowsInv, NEW r \in Requests, NEW s \in Claude, DeleteClaude(r, s)
  PROVE  RowsInv'
<1>1. PICK g, stop : Deletes(r, s, g, stop)
  BY DeleteMoves
<1>2. /\ \A x \in Requests : req'[x].pc = "build" => x # r /\ req'[x] = req[x]
      /\ \A x \in Requests : req[x].pc \in Over => req'[x] = req[x]
      /\ \A x \in Requests \ {r} : req'[x].s = req[x].s
      /\ req'[r].s = s
  BY <1>1 DEF Deletes, Closed, NewRequest, Over
<1>3. /\ UNCHANGED <<row, native, twins, unsaved>> /\ reg[s] # NoClient
      /\ \A t \in Sessions : reg'[t] \in {reg[t], NoClient}
  BY <1>1 DEF Deletes, TypeInv
<1>4. CreateInv'
  <2>1. ASSUME NEW x \in Requests, Creating(x)'
        PROVE  /\ reg'[req'[x].s] = NoClient /\ row'[req'[x].s] = NoRow
               /\ \A y \in Requests \ {x} : req'[y].s # req'[x].s
    <3>1. Creating(x) /\ req'[x] = req[x] /\ x # r
      BY <1>2, <2>1 DEF Creating
    <3>2. req[x].s \in Sessions
      BY <3>1 DEF TypeInv, Handler, Creating, Sessions
    <3>3. /\ reg[req[x].s] = NoClient /\ row[req[x].s] = NoRow
          /\ \A y \in Requests \ {x} : req[y].s # req[x].s
      BY <3>1 DEF RowsInv, CreateInv
    <3> QED
      BY <1>2, <1>3, <3>1, <3>2, <3>3
  <2> QED
    BY <2>1 DEF CreateInv
<1>5. BuildInv'
  <2>1. ASSUME NEW x \in Requests, req'[x].pc = "build", req'[x].s \notin twins'
        PROVE  \/ row'[req'[x].s] \in {req'[x].sid, NoRow}
               \/ \E y \in Requests \ ({x} \cup req'[x].before) :
                    req'[y].pc \in Over /\ ClientOf(req'[y].client, req'[x].s)
    <3>1. req'[x] = req[x]
      BY <1>2, <2>1
    <3>2. \/ row[req[x].s] \in {req[x].sid, NoRow}
          \/ \E y \in Requests \ ({x} \cup req[x].before) :
               req[y].pc \in Over /\ ClientOf(req[y].client, req[x].s)
      BY <1>3, <2>1, <3>1 DEF RowsInv, BuildInv
    <3> QED
      BY <1>2, <1>3, <3>1, <3>2
  <2> QED
    BY <2>1 DEF BuildInv
<1>6. NativeRecorded'
  BY <1>3, RecordKept DEF RowsInv, Sessions
<1> QED
  BY <1>4, <1>5, <1>6 DEF RowsInv

LEMMA RowsStep ==
  ASSUME TypeInv, OneInv, RowsInv, [Next]_vars
  PROVE  RowsInv'
<1> USE DEF claw, claude
<1>1. ASSUME NEW r \in Requests, NEW s \in Claude, CreateClaude(r, s) PROVE RowsInv'
  <2>1. PICK g : /\ Moves(r, g) /\ g.op = "create" /\ g.s = s /\ g.pc = "build"
                 /\ g.sid = NoNative
    BY <1>1, CreateClaudeMoves
  <2>2. /\ reg[s] = NoClient /\ row[s] = NoRow /\ \A x \in Requests : req[x].s # s
        /\ UNCHANGED <<reg, row, native, twins, unsaved>>
    BY <1>1 DEF CreateClaude
  <2>3. req'[r] = g /\ \A x \in Requests \ {r} : req'[x] = req[x]
    BY <2>1 DEF Moves, TypeInv
  <2>4. CreateInv'
    <3>1. ASSUME NEW x \in Requests, Creating(x)'
          PROVE  /\ reg'[req'[x].s] = NoClient /\ row'[req'[x].s] = NoRow
                 /\ \A y \in Requests \ {x} : req'[y].s # req'[x].s
      <4>1. CASE x = r
        BY <2>1, <2>2, <2>3, <4>1
      <4>2. CASE x # r
        <5>1. Creating(x)
          BY <2>3, <3>1, <4>2 DEF Creating
        <5> QED
          BY <2>1, <2>2, <2>3, <4>2, <5>1 DEF RowsInv, CreateInv
      <4> QED
        BY <4>1, <4>2
    <3> QED
      BY <3>1 DEF CreateInv
  <2>5. BuildInv'
    BY <2>1, <2>2, BuildKept DEF RowsInv
  <2>6. NativeRecorded'
    BY <2>2, RecordKept DEF RowsInv
  <2> QED
    BY <2>4, <2>5, <2>6 DEF RowsInv
<1>2. ASSUME NEW r \in Requests, NEW s \in Claude, NEW op \in {"turn", "fork", "spawn"},
             NEW ask \in BOOLEAN, UseClaude(r, s, op, ask)
      PROVE  RowsInv'
  <2>1. PICK g : /\ Moves(r, g) /\ g.op = op /\ g.s = s
                 /\ g.pc = "build" => row[g.s] = g.sid
    BY <1>2, UseClaudeMoves
  <2>2. UNCHANGED <<reg, row, native, twins, unsaved>> /\ Known(s)
    BY <1>2 DEF UseClaude
  <2>3. \A x \in Requests : Creating(x) => req[x].s # g.s
    BY <2>1, <2>2, KnownNotCreating
  <2> QED
    BY <2>1, <2>2, <2>3, RowsUntouched
<1>3. ASSUME NEW r \in Requests, TickStarted(r) \/ SpawnLocked(r) \/ Closes(r)
      PROVE  RowsInv'
  <2>1. PICK g : Moves(r, g) /\ g.pc # "build" /\ g.s = req[r].s
    BY <1>3, TickMoves, SpawnMoves, EndMoves DEF SpawnLocked, Closes
  <2>2. UNCHANGED <<reg, row, native, twins, unsaved>>
    BY <1>3 DEF TickStarted, SpawnLocked, Spawn, Closes, ProcessDies, ForkFails
  <2> QED
    BY <2>1, <2>2, RowsUntouched
<1>4. ASSUME NEW r \in Requests, NEW s \in Claude, ForkEnds(r, s) PROVE RowsInv'
  <2>1. PICK g : Moves(r, g) /\ g.pc # "build" /\ g.s \in {req[r].s, s}
    BY <1>4, ForkEndsMoves
  <2>2. UNCHANGED <<reg, row, native, twins, unsaved>> /\ Known(s)
    BY <1>4 DEF ForkEnds
  <2>3. g.s = req[r].s \/ \A x \in Requests : Creating(x) => req[x].s # g.s
    BY <2>1, <2>2, KnownNotCreating
  <2> QED
    BY <2>1, <2>2, <2>3, RowsUntouched
<1>5. ASSUME NEW r \in Requests, ClawStep(r) \/ \E s \in Claw : ClawArrival(r, s)
      PROVE  RowsInv'
  <2>1. PICK g : Elsewhere(r, g)
    BY <1>5, ClawStepElsewhere, ClawArrivalElsewhere
  <2>2. Apart
    BY <1>5, ClawStepElsewhere, ClawArrivalElsewhere
  <2>3. Moves(r, g) /\ g.pc # "build" /\ g.s \in Claw
    BY <2>1 DEF Elsewhere, Waiting, Over
  <2>4. \A x \in Requests : Creating(x) => req[x].s # g.s
    BY <2>3, ClientSessionAssumption DEF TypeInv, Handler, Creating
  <2>5. /\ UNCHANGED <<twins, native, unsaved>>
        /\ \A s \in Claude : reg'[s] = reg[s] /\ row'[s] = row[s]
    BY <2>2 DEF Apart
  <2>6. CreateInv'
    BY <2>3, <2>4, <2>5, CreateKept DEF RowsInv
  <2>7. BuildInv'
    BY <2>3, <2>5, BuildKept DEF RowsInv
  <2>8. NativeRecorded'
    BY <2>5, RecordKept DEF RowsInv
  <2> QED
    BY <2>6, <2>7, <2>8 DEF RowsInv
<1>6. CASE Restart
  <2>1. \A x \in Requests : req'[x].pc # "build"
    BY <1>6, RestartMoves DEF Over
  <2>2. PICK up \in SUBSET {s \in Sessions : row[s] # NoRow} :
          /\ reg' = [s \in Sessions |-> IF s \in up THEN <<Boot, 1, s>> ELSE NoClient]
          /\ native' = [c \in Clients |->
                          IF c[1] = Boot /\ c[2] = 1 /\ c[3] \in up THEN row[c[3]]
                          ELSE NoNative]
    BY <1>6 DEF Restart
  <2>3. row' = row
    BY <1>6 DEF Restart
  <2>4. ASSUME NEW s \in Claude, reg'[s] \in Clients PROVE row'[s] = native'[reg'[s]]
    <3>1. s \in up /\ reg'[s] = <<Boot, 1, s>> /\ <<Boot, 1, s>> \in Clients
      BY <2>2, <2>4, ClientSessionAssumption DEF Sessions, Clients
    <3> QED
      BY <2>2, <2>3, <3>1
  <2>5. NativeRecorded'
    BY <2>4 DEF NativeRecorded
  <2> QED
    BY <2>1, <2>5 DEF RowsInv, CreateInv, BuildInv, Creating
<1>7. CASE Aside
  BY <1>7 DEF Aside, RowsInv, CreateInv, BuildInv, NativeRecorded, Creating
<1>8. ASSUME NEW r \in Requests, RowDeleted(r) PROVE RowsInv'
  <2>1. req[r].s \in Sessions
    BY <1>8 DEF RowDeleted, At, TypeInv, Handler
  <2> QED
    BY <1>8, <2>1, RowsGone
<1>9. ASSUME NEW r \in Requests, Arrives(r) PROVE RowsInv'
  BY <1>1, <1>2, <1>9 DEF Arrives
<1> QED
  BY <1>3, <1>4, <1>5, <1>6, <1>7, <1>8, <1>9, StepKinds, RowsClaudeBuilt, RowsChildBuilt,
     RowsResult, RowsGone, RowsDelete

(* As long as a session has one client, its row and the client name the same *)
(* native session, so a restart resumes the conversation it had, unless the *)
(* client's last on_native_sid failed.                                     *)
THEOREM RowsNameTheSession == Spec => []NativeRecorded
<1>1. Init => MutexInv /\ OneInv /\ RowsInv
  <2> SUFFICES ASSUME Init PROVE MutexInv /\ OneInv /\ RowsInv
    OBVIOUS
  <2>1. \A x \in Requests : req[x].pc = "idle"
    BY DEF Init, NewRequest
  <2>2. ASSUME NEW s \in Claude, reg[s] \in Clients PROVE row[s] = native[reg[s]]
    <3>1. s \in Restored /\ reg[s] = <<Boot, 1, s>> /\ <<Boot, 1, s>> \in Clients
      BY <2>2, ClientSessionAssumption DEF Init, Sessions, Clients
    <3> QED
      BY <3>1 DEF Init, Sessions
  <2>3. NativeRecorded
    BY <2>2 DEF NativeRecorded
  <2> QED
    BY <2>1, <2>3 DEF MutexInv, OneInv, Users, Working, RowsInv, CreateInv, BuildInv,
                      Creating
<1>2. RowsInv => NativeRecorded
  BY DEF RowsInv
<1> QED
  BY <1>1, <1>2, ClientTypes, UseStep, RowsStep, PTL DEF Spec
================================================================================
