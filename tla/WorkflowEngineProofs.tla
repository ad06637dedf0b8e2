------------------------- MODULE WorkflowEngineProofs -------------------------
(***************************************************************************)
(* Theorems about the pipeline of the workflow engine, for any number of     *)
(* stages, items and slots, and about its journal, for any runs, nodes, keys *)
(* and number of deaths.  What needs more says so: DistinctKeys, that no two *)
(* nodes of a run have the same cache key; Runs = {q}, that the run has the  *)
(* database to itself.  The two specifications share nothing.               *)
(***************************************************************************)
EXTENDS WorkflowPipeline, WorkflowJournal, SequenceTheorems, FiniteSetTheorems,
        TLAPS

Queued == Message \cup {Pill}
Busy(s) == worker[s] \in {"sem", "run", "dead"}
Running == {s \in Stages : worker[s] = "run"}

(* What the chain holds of an item, wherever the item is.                   *)
Entry(i) == [item |-> i, value |-> ok[i]]

(* The items stand in line: p[s] is the number of those that left queue s.  *)
Line(p) ==
  /\ p[N] = Len(results)
  /\ p[0] + Len(queues[0]) = M
  /\ \A s \in Stages :
       p[s] = p[s + 1] + Len(queues[s + 1]) + (IF Busy(s) THEN 1 ELSE 0)
  /\ \A s, t \in 0..N : s < t =>
       /\ p[t] + Len(queues[t]) <= p[s]
       /\ Busy(s) => p[t] + Len(queues[t]) < p[s]
  /\ \A s \in 0..N : \A j \in 1..Len(queues[s]) : queues[s][j] = Entry(p[s] + j)
  /\ \A s \in Stages : Busy(s) => current[s] = Entry(p[s])

Collecting ==
  /\ \A s \in Stages : worker[s] # "exited"
  /\ \E p \in [0..N -> Nat] : Line(p)

(* Once every item is out, the pill is the only message, and the workers    *)
(* before it have gone.                                                     *)
PillAt(q) ==
  /\ \A s \in 0..N : queues[s] = IF s = q THEN <<Pill>> ELSE <<>>
  /\ \A s \in Stages : worker[s] = IF s < q THEN "exited" ELSE "idle"
  /\ main = "returned" => q = N

Closing == \E q \in 0..N : PillAt(q)

ResultsInv == \A k \in 1..Len(results) : results[k] = Entry(k)
SlotsInv == free \in Nat /\ free + Cardinality(Running) = Concurrency

ChainInv ==
  /\ main = "collect" => Collecting
  /\ main # "collect" => Closing
  /\ ResultsInv

LEMMA Shape ==
  /\ N \in Nat \ {0} /\ M \in Nat \ {0} /\ Concurrency \in Nat \ {0}
  /\ \A s \in Stages : s \in 0..N /\ s + 1 \in 0..N /\ s < N /\ s \in Nat
  /\ \A s \in 0..N : s \in Stages \/ s = N
  /\ \A s, t \in 0..N : s < t => s \in Stages
  /\ 0 \in Stages /\ N \in 0..N /\ 0 \in 0..N
  /\ \A m \in Message : m # Pill
BY WorkflowPipelineAssumption DEF Stages, Message, Pill, Items

LEMMA Popped ==
  ASSUME NEW q \in Seq(Queued), q # <<>>
  PROVE  /\ Tail(q) \in Seq(Queued) /\ Head(q) \in Queued /\ Head(q) = q[1]
         /\ Len(q) \in Nat \ {0} /\ Len(Tail(q)) = Len(q) - 1
         /\ \A j \in 1..Len(Tail(q)) : Tail(q)[j] = q[j + 1]
<1>1. Len(q) \in Nat \ {0}
  BY EmptySeq
<1> QED
  BY <1>1, HeadTailProperties

LEMMA Pushed ==
  ASSUME NEW S, NEW q \in Seq(S), NEW m \in S
  PROVE  /\ Append(q, m) \in Seq(S) /\ Len(Append(q, m)) = Len(q) + 1 /\ Len(q) \in Nat
         /\ \A j \in 1..Len(Append(q, m)) :
              Append(q, m)[j] = IF j = Len(q) + 1 THEN m ELSE q[j]
<1>1. Len(q) \in Nat
  BY LenProperties
<1> QED
  BY <1>1, AppendProperties

LEMMA ValueReplaced ==
  ASSUME NEW K, NEW V, NEW m \in [item : K, value : V], NEW w \in V
  PROVE  [m EXCEPT !.value = w] = [item |-> m.item, value |-> w]
OBVIOUS

(* Every message of the line is that of an item, and no two are of one.     *)
LEMMA LineHoldsItems ==
  ASSUME PipelineTypeOK, NEW p \in [0..N -> Nat], Line(p)
  PROVE  /\ \A s \in 0..N : Len(queues[s]) \in Nat /\ p[s] + Len(queues[s]) <= M
         /\ \A s \in 0..N : \A j \in 1..Len(queues[s]) : p[s] + j \in Items
         /\ \A s \in Stages : Busy(s) => p[s] \in Items /\ Len(results) < p[s]
         /\ Len(results) \in Nat /\ Len(results) <= M
         /\ \A i \in Items : Entry(i) \in Message
<1>1. \A s \in 0..N : queues[s] \in Seq(Queued) /\ Len(queues[s]) \in Nat /\ p[s] \in Nat
  BY LenProperties DEF PipelineTypeOK, Queued
<1>0. N \in Nat \ {0} /\ M \in Nat /\ 0 \in 0..N /\ N \in 0..N
  BY Shape
<1>2. ASSUME NEW s \in 0..N PROVE p[s] + Len(queues[s]) <= M
  <2>1. CASE s = 0
    BY <1>1, <1>0, <2>1 DEF Line
  <2>2. CASE s # 0
    <3>1. 0 < s
      BY <2>2
    <3>2. p[s] + Len(queues[s]) <= p[0] /\ p[0] + Len(queues[0]) = M
      BY <1>0, <3>1 DEF Line
    <3>3. /\ p[s] \in Nat /\ p[0] \in Nat
          /\ Len(queues[s]) \in Nat /\ Len(queues[0]) \in Nat
      BY <1>0, <1>1
    <3> QED
      BY <1>0, <3>2, <3>3, SMTT(30)
  <2> QED
    BY <2>1, <2>2
<1>3. Len(results) \in Nat /\ p[N] = Len(results)
  BY LenProperties DEF PipelineTypeOK, Line
<1>4. ASSUME NEW s \in Stages, Busy(s) PROVE Len(results) < p[s] /\ p[s] \in Nat
  <2>1. s \in 0..N /\ s < N
    BY Shape
  <2>2. p[N] + Len(queues[N]) < p[s]
    BY <1>0, <1>4, <2>1 DEF Line
  <2>3. p[N] \in Nat /\ p[s] \in Nat /\ Len(queues[N]) \in Nat
    BY <1>0, <1>1, <2>1
  <2> QED
    BY <1>3, <2>2, <2>3
<1>5. \A i \in Items : Entry(i) \in Message
  BY DEF PipelineTypeOK, Entry, Message
<1>6. ASSUME NEW s \in 0..N, NEW j \in 1..Len(queues[s]) PROVE p[s] + j \in Items
  BY <1>0, <1>1, <1>2 DEF Items
<1>7. ASSUME NEW s \in Stages, Busy(s) PROVE p[s] \in Items
  <2>1. p[s] + Len(queues[s]) <= M /\ Len(queues[s]) \in Nat
    BY <1>1, <1>2, Shape
  <2> QED
    BY <1>0, <1>3, <1>4, <1>7, <2>1 DEF Items
<1>8. Len(results) <= M
  BY <1>0, <1>1, <1>2, <1>3
<1> QED
  BY <1>1, <1>2, <1>3, <1>4, <1>5, <1>6, <1>7, <1>8
-----------------------------------------------------------------------------
LEMMA TakeItemStep ==
  ASSUME PipelineTypeOK, ChainInv, NEW s \in Stages, TakeItem(s)
  PROVE  PipelineTypeOK' /\ ChainInv'
<1> DEFINE q == queues[s]
<1>1. /\ s \in 0..N /\ q \in Seq(Queued) /\ q # <<>> /\ Head(q) # Pill
      /\ \A u \in 0..N : Len(queues[u]) \in Nat
  BY Shape, LenProperties DEF TakeItem, PipelineTypeOK, Queued
<1>2. /\ Tail(q) \in Seq(Queued) /\ Head(q) = q[1] /\ Len(q) \in Nat \ {0}
      /\ Len(Tail(q)) = Len(q) - 1 /\ Head(q) \in Queued
      /\ \A j \in 1..Len(Tail(q)) : Tail(q)[j] = q[j + 1]
  BY <1>1, Popped
<1>3. /\ queues' = [queues EXCEPT ![s] = Tail(q)]
      /\ current' = [current EXCEPT ![s] = Head(q)]
      /\ worker' = [worker EXCEPT ![s] = "sem"] /\ worker[s] = "idle"
      /\ UNCHANGED <<free, results, main, ok>>
  BY DEF TakeItem
<1>4. PipelineTypeOK'
  BY <1>1, <1>2, <1>3 DEF PipelineTypeOK, Queued
<1>5. main = "collect"
  <2> SUFFICES ASSUME main # "collect" PROVE FALSE
    OBVIOUS
  <2>1. PICK u \in 0..N : PillAt(u)
    BY DEF ChainInv, Closing
  <2> QED
    BY <1>1, <2>1 DEF PillAt
<1>6. PICK p \in [0..N -> Nat] : Line(p)
  BY <1>5 DEF ChainInv, Collecting
<1> DEFINE p2 == [p EXCEPT ![s] = @ + 1]
<1>7. p2 \in [0..N -> Nat] /\ p2[s] = p[s] + 1 /\ \A u \in 0..N \ {s} : p2[u] = p[u]
  BY <1>1
<1>8. Line(p2)'
  <2>1. /\ \A u \in 0..N \ {s} : queues'[u] = queues[u]
        /\ queues'[s] = Tail(q)
        /\ \A u \in 0..N : p[u] \in Nat /\ p2[u] + Len(queues'[u]) = p[u] + Len(queues[u])
    <3>1. (\A u \in 0..N \ {s} : queues'[u] = queues[u]) /\ queues'[s] = Tail(q)
      BY <1>1, <1>3 DEF PipelineTypeOK
    <3> HIDE DEF p2
    <3>2. p2[s] + Len(queues'[s]) = p[s] + Len(queues[s])
      <4>1. Len(queues'[s]) = Len(queues[s]) - 1 /\ Len(queues[s]) \in Nat
        BY <1>2, <3>1
      <4>2. p2[s] = p[s] + 1 /\ p[s] \in Nat
        BY <1>1, <1>7
      <4>3. \A a, b \in Nat : (a + 1) + (b - 1) = a + b
        OBVIOUS
      <4> QED
        BY <4>1, <4>2, <4>3
    <3> QED
      BY <1>7, <3>1, <3>2
  <2>2. /\ \A u \in Stages \ {s} : worker'[u] = worker[u] /\ current'[u] = current[u]
        /\ current'[s] = q[1] /\ ~Busy(s)
    BY <1>2, <1>3 DEF PipelineTypeOK, Busy
  <2>3. \A i : Entry(i)' = Entry(i)
    BY <1>3 DEF Entry
  <2>4. p2[N] = Len(results') /\ p2[0] + Len(queues'[0]) = M
    <3>1. s # N /\ N \in 0..N
      BY Shape
    <3> QED
      BY <1>3, <1>6, <1>7, <2>1, <3>1, Shape DEF Line
  <2>5. ASSUME NEW u \in 0..N, NEW t \in 0..N, u < t
        PROVE  /\ p2[t] + Len(queues'[t]) <= p2[u]
               /\ Busy(u)' => p2[t] + Len(queues'[t]) < p2[u]
    <3>1. /\ p[t] + Len(queues[t]) <= p[u]
          /\ Busy(u) => p[t] + Len(queues[t]) < p[u]
          /\ u \in Stages
      BY <1>6, <2>5, Shape DEF Line
    <3>0. /\ p2[t] + Len(queues'[t]) = p[t] + Len(queues[t])
          /\ p[t] + Len(queues[t]) \in Nat /\ p[u] \in Nat
      BY <1>1, <2>1, SMTT(30)
    <3>2. CASE u = s
      <4>1. p2[u] = p[u] + 1
        BY <1>7, <3>2
      <4> QED
        BY <3>0, <3>1, <4>1
    <3>3. CASE u # s
      BY <1>1, <1>7, <2>1, <2>2, <3>1, <3>3 DEF Busy
    <3> QED
      BY <3>2, <3>3
  <2>6. ASSUME NEW u \in 0..N, NEW j \in 1..Len(queues'[u])
        PROVE  queues'[u][j] = Entry(p2[u] + j)'
    <3>1. CASE u = s
      <4>1. queues'[u][j] = q[j + 1] /\ j + 1 \in 1..Len(q)
        <5>1. queues'[u] = Tail(q) /\ j \in 1..Len(Tail(q)) /\ Len(q) \in Nat
          BY <1>2, <2>1, <3>1
        <5> HIDE DEF q
        <5> QED
          BY <1>2, <5>1
      <4>2. p2[u] + j = p[s] + (j + 1)
        <5>1. p2[u] = p[s] + 1 /\ p[s] \in Nat /\ j \in Int
          BY <1>1, <1>7, <2>1, <3>1
        <5> HIDE DEF p2
        <5> QED
          BY <5>1
      <4> QED
        BY <1>1, <1>6, <2>3, <4>1, <4>2 DEF Line
    <3>2. CASE u # s
      <4>1. queues'[u] = queues[u] /\ p2[u] = p[u] /\ j \in 1..Len(queues[u])
        BY <1>7, <2>1, <2>6, <3>2
      <4>2. queues[u][j] = Entry(p[u] + j)
        BY <1>6, <4>1 DEF Line
      <4>3. Entry(p2[u] + j)' = Entry(p[u] + j)
        BY <2>3, <4>1
      <4> QED
        BY <4>1, <4>2, <4>3
    <3> QED
      BY <3>1, <3>2
  <2>7. ASSUME NEW u \in Stages, Busy(u)' PROVE current'[u] = Entry(p2[u])'
    <3>1. CASE u = s
      <4>1. q[1] = Entry(p[s] + 1)
        BY <1>1, <1>2, <1>6 DEF Line
      <4> QED
        BY <1>7, <2>2, <2>3, <3>1, <4>1
    <3>2. CASE u # s
      BY <1>6, <1>7, <2>2, <2>3, <2>7, <3>2, Shape DEF Line, Busy
    <3> QED
      BY <3>1, <3>2
  <2>8. ASSUME NEW u \in Stages
        PROVE  p2[u] = p2[u + 1] + Len(queues'[u + 1]) + (IF Busy(u)' THEN 1 ELSE 0)
    <3>1. /\ p[u] = p[u + 1] + Len(queues[u + 1]) + (IF Busy(u) THEN 1 ELSE 0)
          /\ u \in 0..N /\ u + 1 \in 0..N
      BY <1>6, Shape DEF Line
    <3>2. p2[u + 1] + Len(queues'[u + 1]) = p[u + 1] + Len(queues[u + 1])
      BY <2>1, <3>1
    <3>3. CASE u = s
      <4>1. Busy(u)' /\ ~Busy(u)
        BY <1>3, <2>2, <3>3 DEF PipelineTypeOK, Busy
      <4>2. p2[u] = p[u] + 1 /\ p[u + 1] \in Nat /\ Len(queues[u + 1]) \in Nat
        BY <1>1, <1>7, <3>1, <3>3
      <4> QED
        BY <3>1, <3>2, <4>1, <4>2
    <3>4. CASE u # s
      <4>1. p2[u] = p[u] /\ Busy(u)' = Busy(u)
        BY <1>7, <2>2, <3>1, <3>4 DEF Busy
      <4> QED
        BY <3>1, <3>2, <4>1
    <3> QED
      BY <3>3, <3>4
  <2> HIDE DEF p2
  <2> QED
    BY <2>4, <2>5, <2>6, <2>7, <2>8 DEF Line
<1>9. Collecting'
  <2>1. \A u \in Stages : worker'[u] # "exited"
    BY <1>3, <1>5 DEF PipelineTypeOK, ChainInv, Collecting
  <2> HIDE DEF p2
  <2> QED
    BY <1>7, <1>8, <2>1 DEF Collecting
<1>10. ResultsInv'
  BY <1>3 DEF ChainInv, ResultsInv, Entry
<1> QED
  BY <1>3, <1>4, <1>5, <1>9, <1>10 DEF ChainInv

(* A slot was free: the worker runs the item, or died with it.              *)
LEMMA SpawnStep ==
  ASSUME PipelineTypeOK, ChainInv, NEW s \in Stages, Spawn(s) \/ BuildRaises(s),
         free' \in 0..Concurrency
  PROVE  PipelineTypeOK' /\ ChainInv'
<1>1. /\ worker[s] = "sem" /\ UNCHANGED <<queues, current, results, main, ok>>
      /\ \/ worker' = [worker EXCEPT ![s] = "run"]
         \/ worker' = [worker EXCEPT ![s] = "dead"]
  BY DEF Spawn, BuildRaises
<1>2. PipelineTypeOK'
  BY <1>1 DEF PipelineTypeOK
<1>3. main = "collect"
  BY <1>1 DEF ChainInv, Closing, PillAt
<1>4. PICK p \in [0..N -> Nat] : Line(p)
  BY <1>3 DEF ChainInv, Collecting
<1>5. \A u \in Stages : Busy(u)' = Busy(u) /\ worker'[u] # "exited"
  BY <1>1, <1>3 DEF PipelineTypeOK, Busy, ChainInv, Collecting
<1>6. Line(p)'
  <2>1. \A u, t \in 0..N : u < t => Busy(u)' = Busy(u)
    BY <1>5, Shape
  <2> QED
    BY <1>1, <1>4, <1>5, <2>1 DEF Line, Entry
<1> QED
  BY <1>1, <1>2, <1>3, <1>5, <1>6 DEF ChainInv, Collecting, ResultsInv, Entry

(* The item goes on with the value that the stages up to this one made.     *)
LEMMA SpawnEndsStep ==
  ASSUME PipelineTypeOK, ChainInv, NEW s \in Stages, NEW msg, SpawnEnds(s, msg),
         free' \in 0..Concurrency,
         ok' \in [Items -> SUBSET Stages],
         \A i \in Items : i # current[s].item => ok'[i] = ok[i],
         current[s] \in Message => msg = [item |-> current[s].item,
                                          value |-> ok'[current[s].item]]
  PROVE  PipelineTypeOK' /\ ChainInv'
<1> DEFINE q == queues[s + 1]
<1>0. /\ s \in 0..N /\ s + 1 \in 0..N /\ s < s + 1 /\ s \in Nat /\ s # N
      /\ \A t \in 0..N : s < t => t = s + 1 \/ s + 1 < t
  BY Shape
<1>1. /\ worker[s] = "run" /\ UNCHANGED <<current, results, main>>
      /\ worker' = [worker EXCEPT ![s] = "idle"]
      /\ queues' = [queues EXCEPT ![s + 1] = Append(q, msg)]
  BY DEF SpawnEnds, Moved
<1>2. main = "collect"
  BY <1>1 DEF ChainInv, Closing, PillAt
<1>3. PICK p \in [0..N -> Nat] : Line(p)
  BY <1>2 DEF ChainInv, Collecting
<1> DEFINE i == p[s]
<1>4. current[s] = Entry(i) /\ i \in Items /\ Entry(i) \in Message /\ Busy(s)
  <2>1. Busy(s)
    BY <1>1 DEF Busy
  <2> QED
    BY <1>3, <2>1, LineHoldsItems DEF Line
<1>5. msg = Entry(i)' /\ msg \in Message /\ \A k \in Items : k # i => Entry(k)' = Entry(k)
  BY <1>4 DEF Entry, Message
<1>6. /\ q \in Seq(Queued) /\ msg \in Queued
      /\ \A u \in 0..N : Len(queues[u]) \in Nat /\ p[u] \in Nat
  BY <1>0, <1>5, LenProperties DEF PipelineTypeOK, Queued
<1>7. /\ Append(q, msg) \in Seq(Queued) /\ Len(Append(q, msg)) = Len(q) + 1
      /\ \A j \in 1..Len(Append(q, msg)) :
           Append(q, msg)[j] = IF j = Len(q) + 1 THEN msg ELSE q[j]
  BY <1>6, Pushed
<1>8. PipelineTypeOK'
  BY <1>0, <1>1, <1>7 DEF PipelineTypeOK, Queued
<1>9. /\ \A u \in 0..N \ {s + 1} : queues'[u] = queues[u]
      /\ queues'[s + 1] = Append(q, msg) /\ Len(queues'[s + 1]) = Len(queues[s + 1]) + 1
      /\ \A u \in Stages \ {s} : worker'[u] = worker[u] /\ Busy(u)' = Busy(u)
      /\ ~Busy(s)'
  BY <1>0, <1>1, <1>7 DEF PipelineTypeOK, Busy
<1>10. /\ i = p[s + 1] + Len(q) + 1
       /\ \A k \in Items : k # i => Entry(k)' = Entry(k)
       /\ i \in Nat /\ Len(q) \in Nat /\ p[s + 1] \in Nat
  BY <1>0, <1>3, <1>4, <1>5, <1>6 DEF Line
<1>11. Line(p)'
  <2> HIDE DEF q, i
  <2>1. p[N] = Len(results') /\ p[0] + Len(queues'[0]) = M
    <3>1. 0 # s + 1 /\ 0 \in 0..N
      BY <1>0, Shape
    <3> QED
      BY <1>1, <1>3, <1>9, <3>1 DEF Line
  <2>2. ASSUME NEW u \in Stages
        PROVE  p[u] = p[u + 1] + Len(queues'[u + 1]) + (IF Busy(u)' THEN 1 ELSE 0)
    <3>1. /\ p[u] = p[u + 1] + Len(queues[u + 1]) + (IF Busy(u) THEN 1 ELSE 0)
          /\ u \in 0..N /\ u + 1 \in 0..N /\ u \in Nat
      BY <1>3, Shape DEF Line
    <3>2. CASE u = s
      <4>1. Len(queues[u + 1]) \in Nat /\ p[u + 1] \in Nat
        BY <1>6, <3>1
      <4>2. Busy(u) /\ ~Busy(u)'
        BY <1>4, <1>9, <3>2 DEF Busy
      <4>3. Len(queues'[u + 1]) = Len(queues[u + 1]) + 1
        BY <1>9, <3>2
      <4> QED
        BY <3>1, <4>1, <4>2, <4>3
    <3>3. CASE u # s
      <4>1. u + 1 # s + 1
        BY <1>0, <3>1, <3>3
      <4> QED
        BY <1>9, <3>1, <3>3, <4>1
    <3> QED
      BY <3>2, <3>3
  <2>3. ASSUME NEW u \in 0..N, NEW t \in 0..N, u < t
        PROVE  /\ p[t] + Len(queues'[t]) <= p[u]
               /\ Busy(u)' => p[t] + Len(queues'[t]) < p[u]
    <3>1. /\ p[t] + Len(queues[t]) <= p[u]
          /\ Busy(u) => p[t] + Len(queues[t]) < p[u]
          /\ u \in Stages
      BY <1>3, <2>3, Shape DEF Line
    <3>2. CASE t # s + 1
      BY <1>9, <3>1, <3>2
    <3>3. CASE t = s + 1 /\ u = s
      BY <1>0, <1>6, <1>9, <1>10, <3>3 DEF q, i
    <3>4. CASE t = s + 1 /\ u # s
      <4>1. u < s
        BY <1>0, <2>3, <3>4
      <4>2. /\ p[s] + Len(queues[s]) <= p[u]
            /\ Busy(u) => p[s] + Len(queues[s]) < p[u]
        BY <1>0, <1>3, <4>1 DEF Line
      <4>3. /\ p[t] + Len(queues'[t]) = p[s] /\ Busy(u)' = Busy(u)
            /\ Len(queues[s]) \in Nat /\ p[s] \in Nat /\ p[u] \in Nat
        <5>1. p[t] + Len(queues'[t]) = p[s]
          <6>1. Len(queues'[t]) = Len(queues[t]) + 1
            BY <1>9, <3>4
          <6>2. p[s] = p[t] + Len(queues[t]) + 1
            BY <1>10, <3>4 DEF q, i
          <6>3. p[t] \in Nat /\ Len(queues[t]) \in Nat
            BY <1>6
          <6> QED
            BY <6>1, <6>2, <6>3
        <5>2. Busy(u)' = Busy(u)
          BY <1>9, <3>1, <3>4
        <5> QED
          BY <1>0, <1>6, <5>1, <5>2
      <4> QED
        BY SMTT(30), <4>2, <4>3
    <3> QED
      BY <3>2, <3>3, <3>4
  <2>4. ASSUME NEW u \in 0..N, NEW j \in 1..Len(queues[u])
        PROVE  p[u] + j # i /\ p[u] + j \in Items /\ Entry(p[u] + j)' = Entry(p[u] + j)
    <3>1. p[u] + j \in Items
      BY <1>3, LineHoldsItems
    <3>2. Len(queues[u]) \in Nat /\ p[u] \in Nat
      BY <1>6
    <3>3. p[u] + j # i
      <4>1. CASE s < u
        <5>1. p[u] + Len(queues[u]) < p[s]
          BY <1>0, <1>3, <1>4, <4>1 DEF Line
        <5> QED
          BY <1>10, <3>2, <5>1 DEF i
      <4>2. CASE u = s
        BY <3>2, <4>2 DEF i
      <4>3. CASE u < s
        <5>1. p[s] + Len(queues[s]) <= p[u] /\ Len(queues[s]) \in Nat /\ p[s] \in Nat
          BY <1>0, <1>3, <1>6, <4>3 DEF Line
        <5> QED
          BY <3>2, <5>1 DEF i
      <4> QED
        BY <1>0, <4>1, <4>2, <4>3
    <3> QED
      BY <1>10, <3>1, <3>3
  <2>5. ASSUME NEW u \in 0..N, NEW j \in 1..Len(queues'[u])
        PROVE  queues'[u][j] = Entry(p[u] + j)'
    <3>1. CASE u # s + 1
      BY SMTT(30), <1>3, <1>9, <2>4, <2>5, <3>1 DEF Line
    <3>2. CASE u = s + 1 /\ j = Len(q) + 1
      <4>1. p[u] + j = i
        BY <1>10, <3>2
      <4> QED
        BY <1>5, <1>7, <1>9, <2>5, <3>2, <4>1
    <3>3. CASE u = s + 1 /\ j # Len(q) + 1
      <4>1. j \in 1..Len(q) /\ queues'[u][j] = q[j] /\ q = queues[u]
        <5>1. queues'[u] = Append(q, msg) /\ q = queues[u]
          BY <1>9, <3>3 DEF q
        <5>2. j \in 1..(Len(q) + 1)
          BY <1>7, <5>1
        <5> QED
          BY <1>7, <1>10, <3>3, <5>1, <5>2
      <4> QED
        BY <1>3, <2>4, <4>1 DEF Line
    <3> QED
      BY <3>1, <3>2, <3>3
  <2>6. ASSUME NEW u \in Stages, Busy(u)' PROVE current'[u] = Entry(p[u])'
    <3>1. u # s /\ Busy(u) /\ u \in 0..N
      BY <1>9, <2>6, Shape
    <3>2. p[u] \in Items /\ current'[u] = Entry(p[u])
      BY <1>1, <1>3, <3>1, LineHoldsItems DEF Line
    <3>3. p[u] # p[s]
      <4>1. CASE u < s
        <5>1. p[s] + Len(queues[s]) < p[u] /\ Len(queues[s]) \in Nat /\ p[s] \in Nat
          BY <1>0, <1>3, <1>6, <3>1, <4>1 DEF Line
        <5> QED
          BY <1>6, <3>1, <5>1
      <4>2. CASE s < u
        <5>1. p[u] + Len(queues[u]) < p[s] /\ Len(queues[u]) \in Nat /\ p[u] \in Nat
          BY <1>0, <1>3, <1>4, <1>6, <3>1, <4>2 DEF Line
        <5> QED
          BY <1>6, <1>0, <5>1
      <4> QED
        BY <1>0, <3>1, <4>1, <4>2
    <3> QED
      BY <1>10, <3>2, <3>3 DEF i
  <2> QED
    BY <2>1, <2>2, <2>3, <2>5, <2>6 DEF Line
<1>12. ResultsInv'
  <2>1. Len(results) \in Nat /\ Len(results) < i /\ Len(results) <= M
    BY <1>3, <1>4, LineHoldsItems
  <2>m. M \in Nat
    BY Shape
  <2>2. ASSUME NEW k \in 1..Len(results) PROVE k \in Items /\ k # i
    <3>1. k \in Nat /\ 1 <= k /\ k <= Len(results)
      BY <2>1
    <3> HIDE DEF i
    <3> QED
      BY <1>10, <2>1, <2>m, <3>1 DEF Items
  <2> QED
    BY <1>1, <1>5, <2>2 DEF ChainInv, ResultsInv
<1>13. \A u \in Stages : worker'[u] # "exited"
  BY <1>1, <1>2 DEF PipelineTypeOK, ChainInv, Collecting
<1> QED
  BY <1>1, <1>2, <1>8, <1>11, <1>12, <1>13 DEF ChainInv, Collecting

(* The sink's next message is that of the next item.                        *)
LEMMA CollectStep ==
  ASSUME PipelineTypeOK, ChainInv, Collect
  PROVE  PipelineTypeOK' /\ ChainInv'
<1> DEFINE q == queues[N]
<1>0. N \in 0..N /\ N \in Nat \ {0} /\ N \notin Stages /\ 0 \in 0..N
  BY Shape DEF Stages
<1>1. /\ q \in Seq(Queued) /\ q # <<>> /\ main = "collect"
      /\ queues' = [queues EXCEPT ![N] = Tail(q)]
      /\ results' = Append(results, Head(q))
      /\ UNCHANGED <<worker, current, free, main, ok>>
      /\ \A u \in 0..N : Len(queues[u]) \in Nat
  BY <1>0, LenProperties DEF Collect, PipelineTypeOK, Queued
<1>2. /\ Tail(q) \in Seq(Queued) /\ Head(q) = q[1] /\ Len(q) \in Nat \ {0}
      /\ Len(Tail(q)) = Len(q) - 1
      /\ \A j \in 1..Len(Tail(q)) : Tail(q)[j] = q[j + 1]
  BY <1>1, Popped
<1>3. PICK p \in [0..N -> Nat] : Line(p)
  BY <1>1 DEF ChainInv, Collecting
<1> DEFINE p2 == [p EXCEPT ![N] = @ + 1]
<1>4. /\ p2 \in [0..N -> Nat] /\ p2[N] = p[N] + 1 /\ p[N] \in Nat
      /\ \A u \in 0..N \ {N} : p2[u] = p[u]
  BY <1>0
<1>5. /\ Head(q) = Entry(Len(results) + 1) /\ Head(q) \in Message
      /\ Len(results) + 1 \in Items
  <2>1. 1 \in 1..Len(q)
    BY <1>2
  <2>2. q[1] = Entry(p[N] + 1) /\ p[N] + 1 \in Items /\ p[N] = Len(results)
    BY <1>0, <1>3, <2>1, LineHoldsItems DEF Line
  <2> QED
    BY <1>2, <1>3, <2>2, LineHoldsItems
<1>6. /\ results' \in Seq(Message) /\ Len(results') = Len(results) + 1
      /\ Len(results) \in Nat
      /\ \A j \in 1..Len(results') :
           results'[j] = IF j = Len(results) + 1 THEN Head(q) ELSE results[j]
  BY <1>1, <1>5, Pushed DEF PipelineTypeOK
<1>7. PipelineTypeOK'
  BY <1>0, <1>1, <1>2, <1>6 DEF PipelineTypeOK, Queued
<1>8. Line(p2)'
  <2>1. /\ \A u \in 0..N \ {N} : queues'[u] = queues[u]
        /\ queues'[N] = Tail(q)
    BY <1>0, <1>1 DEF PipelineTypeOK
  <2>2. \A u \in 0..N : p2[u] + Len(queues'[u]) = p[u] + Len(queues[u])
    <3> HIDE DEF p2
    <3>1. Len(queues'[N]) = Len(queues[N]) - 1 /\ Len(queues[N]) \in Nat
      BY <1>2, <2>1
    <3>2. p2[N] + Len(queues'[N]) = p[N] + Len(queues[N])
      <4>1. p2[N] = p[N] + 1 /\ p[N] \in Nat
        BY <1>4
      <4> DEFINE a == p2[N]  b == p[N]  c == Len(queues'[N])  d == Len(queues[N])
      <4>2. a = b + 1 /\ b \in Nat /\ c = d - 1 /\ d \in Nat
        BY <3>1, <4>1
      <4> HIDE DEF a, b, c, d
      <4>3. a + c = b + d
        BY <4>2
      <4> QED
        BY <4>3 DEF a, b, c, d
    <3> QED
      BY <1>4, <2>1, <3>2
  <2>3. \A i : Entry(i)' = Entry(i)
    BY <1>1 DEF Entry
  <2>4. \A u \in Stages : p2[u] = p[u] /\ Busy(u)' = Busy(u) /\ u \in 0..N /\ u + 1 \in 0..N
    BY <1>0, <1>1, <1>4, Shape DEF Busy
  <2>5. p2[N] = Len(results') /\ p2[0] + Len(queues'[0]) = M
    BY <1>0, <1>3, <1>4, <1>6, <2>2 DEF Line
  <2>6. ASSUME NEW u \in Stages
        PROVE  p2[u] = p2[u + 1] + Len(queues'[u + 1]) + (IF Busy(u)' THEN 1 ELSE 0)
    <3>1. p[u] = p[u + 1] + Len(queues[u + 1]) + (IF Busy(u) THEN 1 ELSE 0)
      BY <1>3 DEF Line
    <3>2. p2[u + 1] + Len(queues'[u + 1]) = p[u + 1] + Len(queues[u + 1])
      BY <2>2, <2>4
    <3> QED
      BY <2>4, <3>1, <3>2
  <2>7. ASSUME NEW u \in 0..N, NEW t \in 0..N, u < t
        PROVE  /\ p2[t] + Len(queues'[t]) <= p2[u]
               /\ Busy(u)' => p2[t] + Len(queues'[t]) < p2[u]
    <3>1. /\ p[t] + Len(queues[t]) <= p[u]
          /\ Busy(u) => p[t] + Len(queues[t]) < p[u]
          /\ u \in Stages
      BY <1>3, <2>7, Shape DEF Line
    <3> QED
      BY <2>2, <2>4, <3>1
  <2>8. ASSUME NEW u \in 0..N, NEW j \in 1..Len(queues'[u])
        PROVE  queues'[u][j] = Entry(p2[u] + j)'
    <3>1. CASE u = N
      <4>1. queues'[u][j] = q[j + 1] /\ j + 1 \in 1..Len(q)
        <5>1. queues'[u] = Tail(q) /\ j \in 1..Len(Tail(q)) /\ Len(q) \in Nat
          BY <1>2, <2>1, <3>1
        <5> HIDE DEF q
        <5> QED
          BY <1>2, <5>1
      <4>2. p2[u] + j = p[N] + (j + 1)
        <5>1. p2[u] = p[N] + 1 /\ p[N] \in Nat /\ j \in Int
          BY <1>4, <3>1
        <5> HIDE DEF p2
        <5> QED
          BY <5>1
      <4> QED
        BY <1>0, <1>3, <2>3, <4>1, <4>2 DEF Line
    <3>2. CASE u # N
      BY <1>3, <1>4, <2>1, <2>3, <2>8, <3>2 DEF Line
    <3> QED
      BY <3>1, <3>2
  <2>9. ASSUME NEW u \in Stages, Busy(u)' PROVE current'[u] = Entry(p2[u])'
    BY <1>1, <1>3, <2>3, <2>4, <2>9 DEF Line
  <2> HIDE DEF p2
  <2> QED
    BY <2>5, <2>6, <2>7, <2>8, <2>9 DEF Line
<1>9. Collecting'
  <2>1. \A u \in Stages : worker'[u] # "exited"
    BY <1>1 DEF ChainInv, Collecting
  <2> HIDE DEF p2
  <2> QED
    BY <1>4, <1>8, <2>1 DEF Collecting
<1>10. ResultsInv'
  <2>1. \A k \in 1..Len(results) : results[k] = Entry(k)
    BY DEF ChainInv, ResultsInv
  <2>2. \A i : Entry(i)' = Entry(i)
    BY <1>1 DEF Entry
  <2> QED
    BY <1>5, <1>6, <2>1, <2>2 DEF ResultsInv
<1> QED
  BY <1>1, <1>7, <1>9, <1>10 DEF ChainInv

(* With all items out nothing is in the chain, where the pill starts.       *)
LEMMA SendPillStep ==
  ASSUME PipelineTypeOK, ChainInv, SendPill
  PROVE  PipelineTypeOK' /\ ChainInv'
<1>1. /\ main = "collect" /\ Len(results) = M /\ main' = "join"
      /\ queues' = [queues EXCEPT ![0] = Append(@, Pill)]
      /\ UNCHANGED <<worker, current, free, results, ok>>
  BY DEF SendPill, AllOut
<1>2. PICK p \in [0..N -> Nat] : Line(p)
  BY <1>1 DEF ChainInv, Collecting
<1>3. M \in Nat /\ N \in 0..N /\ 0 \in 0..N /\ 0 < N
  BY Shape
<1>4. \A s \in 0..N :
         /\ queues[s] \in Seq(Queued) /\ Len(queues[s]) \in Nat /\ p[s] \in Nat
         /\ p[s] + Len(queues[s]) <= M
  BY <1>2, LineHoldsItems DEF PipelineTypeOK, Queued
<1>5. ASSUME NEW s \in 0..N PROVE queues[s] = <<>>
  <2>1. p[N] = M
    BY <1>1, <1>2 DEF Line
  <2>2. p[N] <= p[s]
    <3>1. CASE s = N
      BY <1>4, <3>1
    <3>2. CASE s # N
      <4>1. s < N
        BY <1>3, <3>2
      <4>2. p[N] + Len(queues[N]) <= p[s] /\ Len(queues[N]) \in Nat /\ p[N] \in Nat
        BY <1>2, <1>3, <1>4, <4>1 DEF Line
      <4> QED
        BY <1>4, <4>2
    <3> QED
      BY <3>1, <3>2
  <2>3. Len(queues[s]) = 0
    BY <1>3, <1>4, <2>1, <2>2
  <2> QED
    BY <1>4, <2>3, EmptySeq
<1>6. ASSUME NEW s \in Stages PROVE worker[s] = "idle"
  <2>1. s \in 0..N /\ (Busy(s) => Len(results) < p[s])
    BY <1>2, LineHoldsItems, Shape
  <2>2. p[s] + Len(queues[s]) <= M /\ p[s] \in Nat /\ Len(queues[s]) \in Nat
    BY <1>4, <2>1
  <2>3. ~Busy(s)
    BY <1>1, <1>3, <2>1, <2>2
  <2> QED
    BY <1>1, <2>3 DEF ChainInv, Collecting, PipelineTypeOK, Busy
<1>7. PipelineTypeOK'
  <2>1. Append(queues[0], Pill) \in Seq(Queued)
    BY <1>3, <1>4, Pushed DEF Queued
  <2> QED
    BY <1>1, <1>3, <2>1 DEF PipelineTypeOK, Queued
<1>8. PillAt(0)'
  <2>1. Append(<<>>, Pill) = <<Pill>>
    OBVIOUS
  <2>2. \A s \in 0..N : queues'[s] = IF s = 0 THEN <<Pill>> ELSE <<>>
    BY <1>1, <1>3, <1>5, <2>1 DEF PipelineTypeOK
  <2>3. \A s \in Stages : ~(s < 0)
    BY Shape
  <2> QED
    BY <1>1, <1>6, <2>2, <2>3 DEF PillAt
<1> QED
  BY <1>1, <1>3, <1>7, <1>8 DEF ChainInv, Closing, ResultsInv, Entry

(* The pill moves on, and the worker that had it is gone.                   *)
LEMMA TakePillStep ==
  ASSUME PipelineTypeOK, ChainInv, NEW s \in Stages, TakePill(s)
  PROVE  PipelineTypeOK' /\ ChainInv'
<1>0. /\ s \in 0..N /\ s + 1 \in 0..N /\ s # s + 1 /\ s < N /\ s \in Nat
      /\ N \in Nat
  BY Shape
<1>1. /\ worker[s] = "idle" /\ queues[s] # <<>> /\ Head(queues[s]) = Pill
      /\ queues' = [queues EXCEPT ![s] = Tail(@), ![s + 1] = Append(@, Pill)]
      /\ worker' = [worker EXCEPT ![s] = "exited"]
      /\ UNCHANGED <<current, free, results, main, ok>>
  BY DEF TakePill
<1>2. main # "collect"
  <2> SUFFICES ASSUME main = "collect" PROVE FALSE
    OBVIOUS
  <2>1. PICK p \in [0..N -> Nat] : Line(p)
    BY DEF ChainInv, Collecting
  <2>2. queues[s] \in Seq(Queued)
    BY <1>0 DEF PipelineTypeOK, Queued
  <2>3. Head(queues[s]) = queues[s][1] /\ 1 \in 1..Len(queues[s])
    BY <1>1, <2>2, Popped
  <2>4. Head(queues[s]) = Entry(p[s] + 1)
    BY <1>0, <2>1, <2>3 DEF Line
  <2>5. p[s] + 1 \in Items /\ \A i \in Items : Entry(i) \in Message
    BY <1>0, <2>1, <2>3, LineHoldsItems
  <2> QED
    BY <1>1, <2>4, <2>5, Shape
<1>3. PICK q \in 0..N : PillAt(q)
  BY <1>2 DEF ChainInv, Closing
<1>4. q = s
  BY <1>0, <1>1, <1>3 DEF PillAt
<1>5. /\ queues[s] = <<Pill>> /\ queues[s + 1] = <<>>
      /\ Tail(queues[s]) = <<>> /\ Append(queues[s + 1], Pill) = <<Pill>>
  <2>1. queues[s] = <<Pill>> /\ queues[s + 1] = <<>>
    BY <1>0, <1>3, <1>4 DEF PillAt
  <2>2. Tail(<<Pill>>) = <<>> /\ Append(<<>>, Pill) = <<Pill>>
    OBVIOUS
  <2> QED
    BY <2>1, <2>2
<1>6. \A u \in 0..N : queues'[u] = IF u = s + 1 THEN <<Pill>> ELSE <<>>
  BY <1>0, <1>1, <1>3, <1>4, <1>5 DEF PipelineTypeOK, PillAt
<1>7. PillAt(s + 1)'
  <2>1. \A u \in Stages : worker'[u] = IF u < s + 1 THEN "exited" ELSE "idle"
    <3>1. worker' = [worker EXCEPT ![s] = "exited"] /\ DOMAIN worker = Stages
      BY <1>1 DEF PipelineTypeOK
    <3>2. \A u \in Stages : worker[u] = IF u < s THEN "exited" ELSE "idle"
      BY <1>0, <1>3, <1>4 DEF PillAt
    <3>3. \A u \in Stages : u # s => (u < s + 1 <=> u < s)
      BY DEF Stages
    <3>4. s < s + 1
      BY DEF Stages
    <3> QED
      BY <3>1, <3>2, <3>3, <3>4
  <2>2. main' # "returned"
    BY <1>0, <1>1, <1>3, <1>4 DEF PillAt
  <2> QED
    BY <1>6, <2>1, <2>2 DEF PillAt
<1>8. PipelineTypeOK'
  <2>1. <<>> \in Seq(Queued) /\ <<Pill>> \in Seq(Queued)
    BY DEF Queued
  <2>2. DOMAIN queues' = 0..N /\ queues' = [u \in 0..N |-> queues'[u]]
    BY <1>1 DEF PipelineTypeOK
  <2>3. queues' \in [0..N -> Seq(Queued)]
    BY <1>6, <2>1, <2>2
  <2> QED
    BY <1>1, <2>3 DEF PipelineTypeOK, Queued
<1> QED
  BY <1>0, <1>1, <1>2, <1>7, <1>8 DEF ChainInv, Closing, ResultsInv, Entry

LEMMA ReturnStep ==
  ASSUME PipelineTypeOK, ChainInv, Return
  PROVE  PipelineTypeOK' /\ ChainInv'
<1>1. /\ main = "join" /\ main' = "returned"
      /\ \A s \in Stages : worker[s] \in {"exited", "dead"}
      /\ UNCHANGED <<queues, worker, current, free, results, ok>>
  BY DEF Return
<1>2. PICK q \in 0..N : PillAt(q)
  BY <1>1 DEF ChainInv, Closing
<1>3. q = N
  <2> SUFFICES ASSUME q # N PROVE FALSE
    OBVIOUS
  <2>1. q \in Stages /\ ~(q < q)
    BY Shape
  <2> QED
    BY <1>1, <1>2, <2>1 DEF PillAt
<1>4. PipelineTypeOK'
  BY <1>1 DEF PipelineTypeOK
<1>5. PillAt(q)'
  BY <1>1, <1>2, <1>3 DEF PillAt
<1> QED
  BY <1>1, <1>4, <1>5 DEF ChainInv, Closing, ResultsInv, Entry
-----------------------------------------------------------------------------
(* A slot is inside a worker or on the semaphore.                           *)
LEMMA SlotsInvStep ==
  ASSUME PipelineTypeOK, SlotsInv, [PipelineNext]_pipelineVars
  PROVE  SlotsInv' /\ free' \in 0..Concurrency
<1>0. /\ free \in Nat /\ Concurrency \in Nat /\ worker \in [Stages -> {"idle", "sem", "run",
                                                              "exited", "dead"}]
      /\ free + Cardinality(Running) = Concurrency
  BY Shape DEF SlotsInv, PipelineTypeOK
<1>1. IsFiniteSet(Running) /\ Cardinality(Running) \in Nat
  <2>1. IsFiniteSet(Stages)
    BY FS_Interval, Shape DEF Stages
  <2> QED
    BY <2>1, FS_Subset, FS_CardinalityType DEF Running
<1>2. ASSUME Running' = Running, free' = free PROVE SlotsInv'
  BY <1>2 DEF SlotsInv
<1>3. ASSUME NEW s \in Stages, WorkerStep(s) PROVE SlotsInv'
  <2>1. CASE TakeItem(s) \/ TakePill(s) \/ BuildRaises(s)
    <3>1. Running' = Running /\ free' = free
      BY <1>0, <2>1 DEF TakeItem, TakePill, BuildRaises, Running
    <3> QED
      BY <1>2, <3>1
  <2>2. CASE Spawn(s)
    <3>1. Running' = Running \cup {s} /\ s \notin Running /\ free' = free - 1 /\ free > 0
      BY <1>0, <2>2 DEF Spawn, Running
    <3>2. Cardinality(Running') = Cardinality(Running) + 1
      BY <1>1, <3>1, FS_AddElement
    <3> QED
      BY <1>0, <1>1, <3>1, <3>2 DEF SlotsInv
  <2>3. CASE \E msg : SpawnEnds(s, msg)
    <3>1. Running' = Running \ {s} /\ s \in Running /\ free' = free + 1
      BY <1>0, <2>3 DEF SpawnEnds, Running
    <3>2. Cardinality(Running') = Cardinality(Running) - 1
      BY <1>1, <3>1, FS_RemoveElement
    <3> QED
      BY <1>0, <1>1, <3>1, <3>2 DEF SlotsInv
  <2> QED
    BY <1>3, <2>1, <2>2, <2>3 DEF WorkerStep, Succeed, PassOn
<1>4. ASSUME Collect \/ SendPill \/ Return \/ UNCHANGED pipelineVars
      PROVE  SlotsInv'
  <2>1. Running' = Running /\ free' = free
    BY <1>4 DEF Collect, SendPill, Return, pipelineVars, Running
  <2> QED
    BY <1>2, <2>1
<1>5. SlotsInv'
  BY <1>3, <1>4 DEF PipelineNext
<1>6. Cardinality(Running') \in Nat
  <2>1. IsFiniteSet(Stages)
    BY FS_Interval, Shape DEF Stages
  <2> QED
    BY <2>1, FS_Subset, FS_CardinalityType DEF Running
<1> QED
  BY <1>0, <1>5, <1>6 DEF SlotsInv

LEMMA ChainInvStep ==
  ASSUME PipelineTypeOK, ChainInv, SlotsInv, [PipelineNext]_pipelineVars
  PROVE  PipelineTypeOK' /\ ChainInv'
<1>1. free' \in 0..Concurrency
  BY SlotsInvStep
<1>2. ASSUME NEW s \in Stages, Succeed(s) PROVE PipelineTypeOK' /\ ChainInv'
  <2> DEFINE i == current[s].item
             msg == [current[s] EXCEPT !.value = @ \cup {s}]
  <2>1. SpawnEnds(s, msg) /\ ok' = [ok EXCEPT ![i] = @ \cup {s}] /\ worker[s] = "run"
    BY <1>2 DEF Succeed, SpawnEnds
  <2>2. ok' \in [Items -> SUBSET Stages]
    BY <2>1 DEF PipelineTypeOK
  <2>3. \A k \in Items : k # i => ok'[k] = ok[k]
    BY <2>1 DEF PipelineTypeOK
  <2>4. ASSUME current[s] \in Message PROVE msg = [item |-> i, value |-> ok'[i]]
    <3>1. main = "collect"
      BY <2>1 DEF ChainInv, Closing, PillAt
    <3>2. PICK p \in [0..N -> Nat] : Line(p)
      BY <3>1 DEF ChainInv, Collecting
    <3>3. current[s] = Entry(p[s]) /\ p[s] \in Items
      BY <2>1, <3>2, LineHoldsItems DEF Line, Busy
    <3>4. i = p[s] /\ current[s].value = ok[i] /\ i \in Items
      BY <3>3 DEF Entry
    <3>5. ok'[i] = ok[i] \cup {s}
      BY <2>1, <3>4 DEF PipelineTypeOK
    <3>6. msg = [item |-> p[s], value |-> ok[p[s]] \cup {s}]
      <4>1. current[s].value \cup {s} \in SUBSET Stages
        BY <2>4 DEF Message
      <4>2. msg = [item |-> current[s].item, value |-> current[s].value \cup {s}]
        <5>1. \A w \in SUBSET Stages : [current[s] EXCEPT !.value = w]
                                         = [item |-> current[s].item, value |-> w]
          <6> SUFFICES ASSUME NEW w \in SUBSET Stages
                       PROVE  [current[s] EXCEPT !.value = w]
                              = [item |-> current[s].item, value |-> w]
            OBVIOUS
          <6>1. current[s] \in [item : Items, value : SUBSET Stages]
            BY <2>4 DEF Message
          <6> HIDE DEF msg
          <6> QED
            BY <6>1, ValueReplaced
        <5> QED
          BY <4>1, <5>1
      <4> HIDE DEF msg
      <4> QED
        BY <3>4, <4>2
    <3> QED
      BY <3>4, <3>5, <3>6
  <2> HIDE DEF msg
  <2> QED
    BY <1>1, <2>1, <2>2, <2>3, <2>4, SpawnEndsStep
<1>3. ASSUME NEW s \in Stages, PassOn(s) PROVE PipelineTypeOK' /\ ChainInv'
  <2>1. SpawnEnds(s, current[s]) /\ ok' = ok /\ worker[s] = "run"
    BY <1>3 DEF PassOn, SpawnEnds
  <2>2. ok' \in [Items -> SUBSET Stages] /\ \A i \in Items : ok'[i] = ok[i]
    BY <2>1 DEF PipelineTypeOK
  <2>3. current[s] = [item |-> current[s].item, value |-> ok'[current[s].item]]
    <3>1. main = "collect"
      BY <2>1 DEF ChainInv, Closing, PillAt
    <3>2. PICK p \in [0..N -> Nat] : Line(p)
      BY <3>1 DEF ChainInv, Collecting
    <3>3. current[s] = Entry(p[s])
      BY <2>1, <3>2 DEF Line, Busy
    <3> QED
      BY <2>1, <3>3 DEF Entry
  <2> QED
    BY <1>1, <2>1, <2>2, <2>3, SpawnEndsStep
<1>4. ASSUME NEW s \in Stages, WorkerStep(s) PROVE PipelineTypeOK' /\ ChainInv'
  BY <1>1, <1>2, <1>3, <1>4, TakeItemStep, TakePillStep, SpawnStep DEF WorkerStep
<1>5. CASE UNCHANGED pipelineVars
  <2> USE <1>5 DEF pipelineVars
  <2>1. PipelineTypeOK' /\ ResultsInv'
    BY DEF PipelineTypeOK, ChainInv, ResultsInv, Entry
  <2>2. Collecting => Collecting'
    BY DEF Collecting, Line, Entry, Busy
  <2>3. Closing => Closing'
    BY DEF Closing, PillAt
  <2> QED
    BY <2>1, <2>2, <2>3 DEF ChainInv
<1> QED
  BY <1>4, <1>5, CollectStep, SendPillStep, ReturnStep DEF PipelineNext

LEMMA ChainInvStarts ==
  ASSUME PipelineInit
  PROVE  PipelineTypeOK /\ ChainInv /\ SlotsInv
<1> DEFINE p == [s \in 0..N |-> 0]
           first == [i \in Items |-> [item |-> i, value |-> {}]]
<1>0. /\ N \in Nat /\ M \in Nat \ {0} /\ Concurrency \in Nat /\ 0 \in 0..N /\ N \in 0..N
      /\ \A s \in Stages : s + 1 \in 0..N /\ s + 1 # 0
      /\ \A s, t \in 0..N : s < t => t # 0
  BY Shape
<1>1. first \in Seq(Queued) /\ Len(first) = M
  BY <1>0 DEF Items, Queued, Message
<1>2. /\ queues[0] = first /\ \A s \in 0..N : s # 0 => queues[s] = <<>>
      /\ queues \in [0..N -> Seq(Queued)]
  <2>1. queues = [s \in 0..N |-> IF s = 0 THEN first ELSE <<>>]
    BY DEF PipelineInit
  <2> HIDE DEF first
  <2> QED
    BY <1>0, <1>1, <2>1
<1>3. PipelineTypeOK
  <2>1. results \in Seq(Message) /\ free \in 0..Concurrency
    BY <1>0 DEF PipelineInit
  <2>2. /\ worker \in [Stages -> {"idle", "sem", "run", "exited", "dead"}]
        /\ current \in [Stages -> Queued]
        /\ main \in {"collect", "join", "returned"}
        /\ ok \in [Items -> SUBSET Stages]
    BY DEF PipelineInit, Queued
  <2> QED
    BY <1>2, <2>1, <2>2 DEF PipelineTypeOK, Queued
<1>4. p \in [0..N -> Nat] /\ \A s \in 0..N : p[s] = 0
  OBVIOUS
<1>5. \A s \in Stages : ~Busy(s) /\ worker[s] = "idle"
  BY DEF PipelineInit, Busy
<1>6. \A s, t \in 0..N : s < t => s \in Stages
  BY Shape
<1>7. Line(p)
  <2>1. p[N] = Len(results) /\ p[0] + Len(queues[0]) = M
    BY <1>0, <1>1, <1>2, <1>4 DEF PipelineInit
  <2>2. ASSUME NEW s \in Stages
        PROVE  p[s] = p[s + 1] + Len(queues[s + 1]) + (IF Busy(s) THEN 1 ELSE 0)
    <3>1. queues[s + 1] = <<>> /\ p[s + 1] = 0 /\ p[s] = 0 /\ ~Busy(s)
      BY <1>0, <1>2, <1>4, <1>5, Shape
    <3> HIDE DEF p
    <3> QED
      BY <3>1
  <2>3. ASSUME NEW s \in 0..N, NEW t \in 0..N, s < t
        PROVE  p[t] + Len(queues[t]) <= p[s] /\ ~Busy(s)
    <3>1. queues[t] = <<>> /\ p[t] = 0 /\ p[s] = 0 /\ ~Busy(s)
      BY <1>0, <1>2, <1>4, <1>5, <1>6, <2>3
    <3> HIDE DEF p
    <3> QED
      BY <3>1
  <2>4. ASSUME NEW s \in 0..N, NEW j \in 1..Len(queues[s])
        PROVE  queues[s][j] = Entry(p[s] + j)
    <3>1. CASE s = 0
      <4>1. j \in Items /\ first[j] = [item |-> j, value |-> {}] /\ ok[j] = {}
        BY <1>1, <1>2, <2>4, <3>1 DEF Items, PipelineInit
      <4>2. p[s] + j = j
        BY <1>4, <4>1 DEF Items
      <4> QED
        BY <1>2, <3>1, <4>1, <4>2 DEF Entry
    <3>2. CASE s # 0
      BY <1>2, <2>4, <3>2
    <3> QED
      BY <3>1, <3>2
  <2> HIDE DEF p
  <2> QED
    BY <1>5, <2>1, <2>2, <2>3, <2>4 DEF Line
<1>8. ChainInv
  <2>1. Collecting
    <3> HIDE DEF p
    <3> QED
      BY <1>4, <1>5, <1>7 DEF Collecting
  <2> QED
    BY <2>1 DEF ChainInv, ResultsInv, PipelineInit
<1>9. SlotsInv
  <2>1. Running = {} /\ free = Concurrency
    BY <1>5 DEF Running, PipelineInit
  <2> QED
    BY <1>0, <2>1, FS_EmptySet DEF SlotsInv
<1> QED
  BY <1>3, <1>8, <1>9

LEMMA PipelineInv == PipelineSpec => [](PipelineTypeOK /\ ChainInv /\ SlotsInv)
<1>1. PipelineTypeOK /\ ChainInv /\ SlotsInv /\ [PipelineNext]_pipelineVars
      => (PipelineTypeOK /\ ChainInv /\ SlotsInv)'
  BY ChainInvStep, SlotsInvStep
<1> QED
  BY <1>1, ChainInvStarts, PTL DEF PipelineSpec

(* What is queued, held and collected is an item of the call, the pill, or  *)
(* nothing, whatever the numbers of stages, items and slots.                *)
THEOREM PipelineIsTyped == PipelineSpec => []PipelineTypeOK
BY PipelineInv, PTL

(* pipeline() returns results in item order because the sink is in order.   *)
THEOREM ItemsLeaveInOrder == PipelineSpec => []SinkInOrder
<1>1. PipelineTypeOK /\ ChainInv => SinkInOrder
  <2> SUFFICES ASSUME PipelineTypeOK, ChainInv, NEW k \in DOMAIN results
               PROVE  results[k].item = k
    BY DEF SinkInOrder
  <2>1. results[k] = Entry(k)
    BY LenProperties DEF PipelineTypeOK, ChainInv, ResultsInv
  <2> QED
    BY <2>1 DEF Entry
<1> QED
  BY <1>1, PipelineInv, PTL

(* A failing stage neither drops nor adds to what an item carries out.      *)
THEOREM ValuesAreKept == PipelineSpec => []ResultsKeepSuccesses
<1>1. PipelineTypeOK /\ ChainInv => ResultsKeepSuccesses
  <2> SUFFICES ASSUME PipelineTypeOK, ChainInv, NEW k \in DOMAIN results
               PROVE  results[k].value = ok[results[k].item]
    BY DEF ResultsKeepSuccesses
  <2>1. results[k] = Entry(k)
    BY LenProperties DEF PipelineTypeOK, ChainInv, ResultsInv
  <2> QED
    BY <2>1 DEF Entry
<1> QED
  BY <1>1, PipelineInv, PTL

(* When gather() has the workers, the pill has been through every queue and *)
(* every slot is back.                                                      *)
THEOREM PillEmptiesTheChain == PipelineSpec => []NothingLeftBehind
<1>1. PipelineTypeOK /\ ChainInv /\ SlotsInv => NothingLeftBehind
  <2> SUFFICES ASSUME PipelineTypeOK, ChainInv, SlotsInv, main = "returned"
               PROVE  /\ free = Concurrency
                      /\ \A s \in Stages : worker[s] = "exited" /\ queues[s] = <<>>
                      /\ queues[N] = <<Pill>>
    BY DEF NothingLeftBehind
  <2>1. PillAt(N)
    BY DEF ChainInv, Closing, PillAt
  <2>2. \A s \in Stages : worker[s] = "exited" /\ queues[s] = <<>>
    BY <2>1, Shape DEF PillAt
  <2>3. queues[N] = <<Pill>>
    BY <2>1, Shape DEF PillAt
  <2>4. Running = {}
    BY <2>2 DEF Running
  <2>5. free = Concurrency
    BY <2>4, FS_EmptySet DEF SlotsInv
  <2> QED
    BY <2>2, <2>3, <2>5
<1> QED
  BY <1>1, PipelineInv, PTL
-------------------------------------------------------------------------------
(* The journal.                                                             *)

DistinctKeys ==
  \A m, n \in Nodes : RunOf[m] = RunOf[n] /\ Key[m] = Key[n] => m = n

Typing ==
  /\ row \in [Runs -> {"absent", "running", "completed"}]
  /\ events \subseteq Event
  /\ conn \in [Runs -> {"clean", "open", "pinned", "stale", "writer"}]
  /\ call \in [Runs -> {"new", "live", "dead", "returned"}]
  /\ pc \in [Nodes -> {"idle", "pending", "running"}]
  /\ settled \subseteq Nodes
  /\ raised \subseteq Nodes
  /\ bounded \subseteq Runs
  /\ skipped \subseteq Nodes

(* A result row is about a node that has settled, under its own key.       *)
RowsAreTrue ==
  \A e \in events :
    e.type = "result" =>
      e.node \in settled /\ e.run = RunOf[e.node] /\ e.key = Key[e.node]

(* A live call has nothing to do for a node only if the node is over.      *)
IdleIsOver ==
  \A n \in Nodes :
    call[RunOf[n]] = "live" /\ pc[n] = "idle" =>
      n \in settled \cup raised \cup skipped

(* Only a call made with a budget or an abort skips: resume's is not.       *)
SkipsAreBounded == \A n \in skipped : RunOf[n] \in bounded

(* What a completed run skipped stays as it was: no call follows.           *)
CompletedIsOver ==
  \A r \in Runs : row[r] = "completed" => call[r] = "returned"

ParkedIsIdle == \A n \in Nodes : call[RunOf[n]] # "live" => pc[n] = "idle"

CoverInv ==
  /\ Typing /\ RowsAreTrue
  /\ IdleIsOver /\ ParkedIsIdle /\ SkipsAreBounded
  /\ CompletedIsOver /\ CompletedCoversAll

(* Some live calls end, by Cancel or a crash, and their nodes with them.    *)
CallsEnd ==
  /\ UNCHANGED <<row, bounded, settled, raised>>
  /\ \A r \in Runs :
       call'[r] = call[r] \/ (call[r] = "live" /\ call'[r] = "dead")
  /\ skipped' \subseteq skipped
  /\ \A n \in Nodes :
       IF call[RunOf[n]] = call'[RunOf[n]]
       THEN pc'[n] = pc[n] /\ (n \in skipped => n \in skipped')
       ELSE pc'[n] = "idle"

(* What an append can do to the events, wherever the connection stands.    *)
LEMMA AppendAddsAtMostOne ==
  ASSUME Typing, NEW r \in Runs, NEW e \in Event, AppendEvent(r, e)
  PROVE  /\ events' \in {events, events \cup {e}}
         /\ conn' \in [Runs -> {"clean", "open", "pinned", "stale", "writer"}]
  BY DEF Typing, AppendEvent, AfterBusyAppend, AfterCommit

LEMMA EventOfIsEvent ==
  ASSUME NEW n \in Nodes, NEW t \in {"started", "result"},
         NEW s \in {"success", "error"}
  PROVE  EventOf(n, t, s) \in Event
  BY WorkflowJournalAssumption DEF EventOf, Event

LEMMA CoverInit == Init => CoverInv
  BY WorkflowJournalAssumption
  DEF Init, CoverInv, Typing, RowsAreTrue, IdleIsOver, ParkedIsIdle,
      SkipsAreBounded, CompletedIsOver, CompletedCoversAll

(* The types, and the truth of the rows, need neither distinct keys nor the *)
(* other invariants.                                                       *)
LEMMA RowsStep ==
  ASSUME Typing, RowsAreTrue, [Next]_vars
  PROVE  Typing' /\ RowsAreTrue'
  <1> USE WorkflowJournalAssumption
  <1>1. ASSUME NEW r \in Runs, Start(r) \/ Finish(r) \/ Resume(r) \/ Cancel(r)
        PROVE  Typing' /\ RowsAreTrue'
    <2>1. CASE Start(r)
      BY <2>1
      DEF Typing, RowsAreTrue, Start, AfterBusy, AfterCommit, limits, history
    <2>2. CASE Finish(r)
      BY <2>2 DEF Typing, RowsAreTrue, Finish, AfterCommit, limits, history
    <2>3. CASE Resume(r)
      BY <2>3 DEF Typing, RowsAreTrue, Resume, Pending, AfterBusy, stored, history
    <2>4. CASE Cancel(r)
      BY <2>4 DEF Typing, RowsAreTrue, Cancel, stored, history
    <2> QED BY <1>1, <2>1, <2>2, <2>3, <2>4
  <1>2. CASE Crash
    BY <1>2 DEF Typing, RowsAreTrue, Crash, stored, history
  <1>3. ASSUME NEW n \in Nodes, NodeStep(n) PROVE Typing' /\ RowsAreTrue'
    <2>1. CASE NodeRaise(n)
      BY <2>1 DEF Typing, RowsAreTrue, NodeRaise, limits, stored
    <2>6. CASE NodeSkip(n)
      BY <2>6 DEF Typing, RowsAreTrue, NodeSkip, history, stored
    <2>2. CASE NodeStart(n)
      <3>1. EventOf(n, "started", "success") \in Event BY EventOfIsEvent
      <3>2. /\ \/ events' = events
               \/ events' = events \cup {EventOf(n, "started", "success")}
            /\ conn' \in [Runs -> {"clean", "open", "pinned", "stale", "writer"}]
        BY <2>2, <3>1, AppendAddsAtMostOne DEF NodeStart
      <3>3. Typing'
        BY <2>2, <3>1, <3>2 DEF Typing, NodeStart, limits, history
      <3>4. RowsAreTrue'
        BY <2>2, <3>2 DEF RowsAreTrue, EventOf, NodeStart, limits, history
      <3> QED BY <3>3, <3>4
    <2>3. ASSUME NEW s \in {"success", "error"}, pc[n] = "running",
                 AppendEvent(RunOf[n], EventOf(n, "result", s)),
                 pc' = [pc EXCEPT ![n] = "idle"], settled' = settled \cup {n},
                 UNCHANGED <<row, call, limits, raised>>
          PROVE  Typing' /\ RowsAreTrue'
      <3>1. EventOf(n, "result", s) \in Event BY EventOfIsEvent
      <3>2. /\ events' \in {events, events \cup {EventOf(n, "result", s)}}
            /\ conn' \in [Runs -> {"clean", "open", "pinned", "stale", "writer"}]
        BY <2>3, <3>1, AppendAddsAtMostOne
      <3>3. Typing'
        BY <2>3, <3>1, <3>2 DEF Typing, limits
      <3>4. RowsAreTrue'
        BY <2>3, <3>2 DEF RowsAreTrue, EventOf
      <3> QED BY <3>3, <3>4
    <2>4. CASE NodeSucceed(n) BY <2>3, <2>4 DEF NodeSucceed
    <2>5. CASE NodeFail(n) BY <2>3, <2>5 DEF NodeFail
    <2> QED BY <1>3, <2>1, <2>2, <2>4, <2>5, <2>6 DEF NodeStep
  <1>4. CASE UNCHANGED vars
    BY <1>4 DEF Typing, RowsAreTrue, vars
  <1> QED BY <1>1, <1>2, <1>3, <1>4 DEF Next, Progress, Quiescent

(* Every step keeps CoverInv; only Resume and Finish need distinct keys or *)
(* the barrier.                                                            *)
LEMMA CoverStep ==
  ASSUME DistinctKeys, CoverInv, [Next]_vars
  PROVE  CoverInv'
  <1> USE WorkflowJournalAssumption
  <1>0. Typing' /\ RowsAreTrue' BY RowsStep DEF CoverInv
  <1>1. ASSUME NEW r \in Runs, Start(r) PROVE CoverInv'
    <2>3. IdleIsOver'
      BY <1>1
      DEF CoverInv, Typing, IdleIsOver, ParkedIsIdle, Start, limits, history
    <2>4. ParkedIsIdle'
      BY <1>1 DEF CoverInv, Typing, ParkedIsIdle, Start
    <2>5. CompletedIsOver' /\ CompletedCoversAll' /\ SkipsAreBounded'
      BY <1>1
      DEF CoverInv, Typing, CompletedIsOver, CompletedCoversAll,
          SkipsAreBounded, NodesOf, Start, limits, history
    <2> QED BY <1>0, <2>3, <2>4, <2>5 DEF CoverInv
  <1>2. ASSUME NEW r \in Runs, Finish(r) PROVE CoverInv'
    <2>3. IdleIsOver'
      BY <1>2 DEF CoverInv, Typing, IdleIsOver, Finish, limits, history
    <2>4. ParkedIsIdle'
      BY <1>2 DEF CoverInv, Typing, ParkedIsIdle, Finish, Joined, NodesOf
    <2>5. \A n \in NodesOf(r) :
            n \in settled \cup raised \/ (r \in bounded /\ n \in skipped)
      BY <1>2
      DEF CoverInv, IdleIsOver, SkipsAreBounded, Finish, Joined, NodesOf
    <2>6. CompletedCoversAll'
      BY <1>2, <2>5
      DEF CoverInv, Typing, CompletedCoversAll, NodesOf, Finish, limits, history
    <2>7. CompletedIsOver' /\ SkipsAreBounded'
      BY <1>2
      DEF CoverInv, Typing, CompletedIsOver, SkipsAreBounded, Finish, limits
    <2> QED BY <1>0, <2>3, <2>4, <2>6, <2>7 DEF CoverInv
  <1>3. ASSUME NEW r \in Runs, Resume(r) PROVE CoverInv'
    <2>3. ASSUME NEW n \in NodesOf(r), Key[n] \in CachedKeys(r)
          PROVE  n \in settled
      <3>1. PICK e \in ResultRows(r) : e.key = Key[n]
        BY <2>3 DEF CachedKeys
      <3>2. e \in events /\ e.type = "result" /\ e.run = r /\ e.node \in Nodes
        BY <3>1 DEF ResultRows, CoverInv, Typing, Event
      <3>3. e.node \in settled /\ RunOf[e.node] = r /\ Key[e.node] = Key[n]
        BY <3>1, <3>2 DEF CoverInv, RowsAreTrue
      <3>4. n \in Nodes /\ RunOf[n] = r BY DEF NodesOf
      <3> QED BY <3>2, <3>3, <3>4 DEF DistinctKeys
    <2>4. IdleIsOver'
      BY <1>3, <2>3
      DEF CoverInv, Typing, IdleIsOver, Resume, Pending, NodesOf, history
    <2>5. ParkedIsIdle'
      BY <1>3 DEF CoverInv, Typing, ParkedIsIdle, Resume, Pending, NodesOf
    <2>6. SkipsAreBounded'
      BY <1>3 DEF CoverInv, Typing, SkipsAreBounded, Resume, NodesOf
    <2>7. CompletedIsOver' /\ CompletedCoversAll'
      BY <1>3
      DEF CoverInv, Typing, CompletedIsOver, CompletedCoversAll, NodesOf,
          Resume, stored, history
    <2> QED BY <1>0, <2>4, <2>5, <2>6, <2>7 DEF CoverInv
  <1>d. ASSUME CallsEnd PROVE CoverInv'
    <2>1. IdleIsOver' /\ ParkedIsIdle' /\ SkipsAreBounded'
      BY <1>d DEF CallsEnd, CoverInv, Typing, IdleIsOver, ParkedIsIdle, SkipsAreBounded
    <2>2. CompletedIsOver'
      BY <1>d DEF CallsEnd, CoverInv, CompletedIsOver
    <2>3. CompletedCoversAll'
      BY <1>d DEF CallsEnd, CoverInv, Typing, CompletedIsOver, CompletedCoversAll, NodesOf
    <2> QED BY <1>0, <2>1, <2>2, <2>3 DEF CoverInv
  <1>4. ASSUME NEW r \in Runs, Cancel(r) PROVE CoverInv'
    <2>1. UNCHANGED <<row, bounded, settled, raised>>
      BY <1>4 DEF Cancel, stored, history
    <2>2. ASSUME NEW q \in Runs
          PROVE  call'[q] = call[q] \/ (call[q] = "live" /\ call'[q] = "dead")
      BY <1>4 DEF CoverInv, Typing, Cancel
    <2>3. skipped' \subseteq skipped
      BY <1>4 DEF Cancel
    <2>4. ASSUME NEW n \in Nodes
          PROVE  IF call[RunOf[n]] = call'[RunOf[n]]
                 THEN pc'[n] = pc[n] /\ (n \in skipped => n \in skipped')
                 ELSE pc'[n] = "idle"
      <3>1. CASE RunOf[n] = r
        BY <1>4, <3>1, WorkflowJournalAssumption DEF CoverInv, Typing, Cancel
      <3>2. CASE RunOf[n] # r
        BY <1>4, <3>2, WorkflowJournalAssumption
        DEF CoverInv, Typing, Cancel, NodesOf
      <3> QED BY <3>1, <3>2
    <2>5. CallsEnd
      BY <2>1, <2>2, <2>3, <2>4 DEF CallsEnd
    <2> QED BY <1>d, <2>5
  <1>5. CASE Crash
    <2>1. UNCHANGED <<row, bounded, settled, raised>>
      BY <1>5 DEF Crash, stored, history
    <2>2. ASSUME NEW q \in Runs
          PROVE  call'[q] = call[q] \/ (call[q] = "live" /\ call'[q] = "dead")
      BY <1>5 DEF CoverInv, Typing, Crash
    <2>3. skipped' \subseteq skipped
      BY <1>5 DEF Crash
    <2>4. ASSUME NEW n \in Nodes
          PROVE  IF call[RunOf[n]] = call'[RunOf[n]]
                 THEN pc'[n] = pc[n] /\ (n \in skipped => n \in skipped')
                 ELSE pc'[n] = "idle"
      <3>1. CASE call[RunOf[n]] = "live"
        BY <1>5, <3>1, WorkflowJournalAssumption DEF CoverInv, Typing, Crash
      <3>2. CASE call[RunOf[n]] # "live"
        BY <1>5, <3>2, WorkflowJournalAssumption
        DEF CoverInv, Typing, ParkedIsIdle, Crash
      <3> QED BY <3>1, <3>2
    <2>5. CallsEnd
      BY <2>1, <2>2, <2>3, <2>4 DEF CallsEnd
    <2> QED BY <1>d, <2>5
  <1>6. ASSUME NEW n \in Nodes, NodeStep(n) PROVE CoverInv'
    <2>0. ASSUME pc[n] # "idle", UNCHANGED <<row, call, bounded>>,
                 \/ pc' = [pc EXCEPT ![n] = "running"]
                 \/ /\ pc' = [pc EXCEPT ![n] = "idle"]
                    /\ \/ n \in settled' \cup raised'
                       \/ n \in skipped' /\ RunOf[n] \in bounded,
                 settled \subseteq settled', raised \subseteq raised',
                 skipped \subseteq skipped', skipped' \subseteq skipped \cup {n},
                 n \in skipped' => n \in skipped \/ RunOf[n] \in bounded
          PROVE  CoverInv'
      <3>1. call[RunOf[n]] = "live"
        BY <2>0 DEF CoverInv, ParkedIsIdle
      <3>2. IdleIsOver' /\ ParkedIsIdle'
        BY <2>0, <3>1 DEF CoverInv, Typing, IdleIsOver, ParkedIsIdle
      <3>3. SkipsAreBounded' /\ CompletedIsOver'
        BY <2>0 DEF CoverInv, SkipsAreBounded, CompletedIsOver
      <3>4. CompletedCoversAll'
        BY <2>0 DEF CoverInv, CompletedCoversAll, NodesOf
      <3> QED BY <1>0, <3>2, <3>3, <3>4 DEF CoverInv
    <2>1. CASE NodeRaise(n)
      BY <2>0, <2>1 DEF NodeRaise, limits, stored
    <2>2. CASE NodeStart(n)
      BY <2>0, <2>2 DEF NodeStart, limits, history
    <2>3. CASE NodeSkip(n)
      BY <2>0, <2>3 DEF NodeSkip, stored, history
    <2>4. CASE NodeSucceed(n)
      BY <2>0, <2>4 DEF NodeSucceed, limits
    <2>5. CASE NodeFail(n)
      BY <2>0, <2>5 DEF NodeFail, limits
    <2> QED BY <1>6, <2>1, <2>2, <2>3, <2>4, <2>5 DEF NodeStep
  <1>7. CASE UNCHANGED vars
    BY <1>0, <1>7 DEF CoverInv, Typing, IdleIsOver, ParkedIsIdle, SkipsAreBounded,
                CompletedIsOver, CompletedCoversAll, NodesOf, vars
  <1> QED
    BY <1>1, <1>2, <1>3, <1>4, <1>5, <1>6, <1>7 DEF Next, Progress, Quiescent

(* For any number of runs on one database, whatever crashes, cancelled     *)
(* calls, blocked writes and resumes happen: mark_completed is reached     *)
(* only when every node of the run has settled, could not be built, or was *)
(* skipped by the call that completes it, which is the first of the run.    *)
THEOREM CompletedRunsAreCovered ==
  ASSUME DistinctKeys PROVE Spec => []CompletedCoversAll
  <1>1. Init => CoverInv BY CoverInit
  <1>2. CoverInv /\ [Next]_vars => CoverInv' BY CoverStep
  <1>3. CoverInv => CompletedCoversAll BY DEF CoverInv
  <1> QED BY <1>1, <1>2, <1>3, PTL DEF Spec
-------------------------------------------------------------------------------
(* With no sibling on the database, every settled node has its result row: *)
(* its append is never blocked, and with distinct keys never a duplicate.  *)
SettledIsRecorded ==
  \A n \in settled : \E e \in events :
    e.type = "result" /\ e.run = RunOf[n] /\ e.key = Key[n]

SettledIsIdle == \A n \in settled : pc[n] = "idle"

NeverStale == \A r \in Runs : conn[r] # "stale"

NewIsUnsettled == \A n \in settled : call[RunOf[n]] # "new"

AloneInv ==
  /\ CoverInv
  /\ SettledIsRecorded
  /\ SettledIsIdle
  /\ NewIsUnsettled
  /\ NeverStale

(* The only connection is never blocked, so an append either finds its row *)
(* there or adds it.                                                       *)
LEMMA AloneAppendLands ==
  ASSUME NEW q, Runs = {q}, AloneInv, NEW r \in Runs, NEW e \in Event,
         AppendEvent(r, e)
  PROVE  /\ events \subseteq events'
         /\ NeverStale'
         /\ e \in events' \/ Duplicate(e)
  <1>1. ~Blocked(r)
    BY DEF AloneInv, NeverStale, Blocked
  <1>2. conn \in [Runs -> {"clean", "open", "pinned", "stale", "writer"}]
    BY DEF AloneInv, CoverInv, Typing
  <1> QED
    BY <1>1, <1>2 DEF AppendEvent, AfterCommit, AloneInv, NeverStale

LEMMA AloneStep ==
  ASSUME DistinctKeys, NEW q, Runs = {q}, AloneInv, [Next]_vars
  PROVE  AloneInv'
  <1> USE WorkflowJournalAssumption
  <1>0. CoverInv' BY CoverStep DEF AloneInv
  <1>t. CoverInv /\ Typing BY DEF AloneInv, CoverInv
  <1>a. \A r \in Runs : ~Blocked(r)
    BY DEF AloneInv, NeverStale, Blocked
  <1>1. ASSUME NEW r \in Runs, Start(r) PROVE AloneInv'
    BY <1>0, <1>t, <1>a, <1>1
    DEF AloneInv, SettledIsRecorded, SettledIsIdle, NewIsUnsettled,
        NeverStale, Typing, Start, AfterCommit, history
  <1>2. ASSUME NEW r \in Runs, Finish(r) PROVE AloneInv'
    BY <1>0, <1>t, <1>a, <1>2
    DEF AloneInv, SettledIsRecorded, SettledIsIdle, NewIsUnsettled,
        NeverStale, Typing, Finish, AfterCommit, history
  <1>3. ASSUME NEW r \in Runs, Resume(r) PROVE AloneInv'
    <2>1. \A n \in settled : RunOf[n] = r => Key[n] \in CachedKeys(r)
      BY DEF AloneInv, SettledIsRecorded, CachedKeys, ResultRows
    <2>2. SettledIsIdle'
      BY <1>3, <1>t, <2>1
      DEF AloneInv, SettledIsIdle, Typing, Resume, Pending, NodesOf, history
    <2>3. SettledIsRecorded' /\ NewIsUnsettled' /\ NeverStale'
      BY <1>3, <1>t, <1>a
      DEF AloneInv, SettledIsRecorded, NewIsUnsettled, NeverStale, Typing,
          Resume, stored, history
    <2> QED BY <1>0, <2>2, <2>3 DEF AloneInv
  <1>4. ASSUME NEW r \in Runs, Cancel(r) PROVE AloneInv'
    BY <1>0, <1>t, <1>4
    DEF AloneInv, SettledIsRecorded, SettledIsIdle, NewIsUnsettled,
        NeverStale, Typing, Cancel, stored, history
  <1>5. CASE Crash
    BY <1>0, <1>t, <1>5
    DEF AloneInv, SettledIsRecorded, SettledIsIdle, NewIsUnsettled,
        NeverStale, Typing, Crash, stored, history
  <1>6. ASSUME NEW n \in Nodes, NodeStep(n) PROVE AloneInv'
    <2>0. RunOf[n] \in Runs /\ (pc[n] # "idle" => call[RunOf[n]] = "live")
      BY <1>t DEF CoverInv, ParkedIsIdle
    <2>1. CASE NodeRaise(n)
      BY <1>0, <1>t, <2>1
      DEF AloneInv, SettledIsRecorded, SettledIsIdle, NewIsUnsettled,
          NeverStale, Typing, NodeRaise, stored
    <2>6. CASE NodeSkip(n)
      BY <1>0, <1>t, <2>6
      DEF AloneInv, SettledIsRecorded, SettledIsIdle, NewIsUnsettled,
          NeverStale, Typing, NodeSkip, stored, history
    <2>2. CASE NodeStart(n)
      <3>1. EventOf(n, "started", "success") \in Event BY EventOfIsEvent
      <3>2. events \subseteq events' /\ NeverStale'
        BY <2>0, <2>2, <3>1, AloneAppendLands DEF NodeStart
      <3> QED
        BY <1>0, <1>t, <2>2, <3>2
        DEF AloneInv, SettledIsRecorded, SettledIsIdle, NewIsUnsettled,
            Typing, NodeStart, history
    <2>3. ASSUME NEW s \in {"success", "error"}, pc[n] = "running",
                 AppendEvent(RunOf[n], EventOf(n, "result", s)),
                 pc' = [pc EXCEPT ![n] = "idle"], settled' = settled \cup {n},
                 UNCHANGED call
          PROVE  AloneInv'
      <3> DEFINE e == EventOf(n, "result", s)
      <3>1. e \in Event BY EventOfIsEvent
      <3>2. /\ events \subseteq events'
            /\ NeverStale'
            /\ e \in events' \/ Duplicate(e)
        BY <2>0, <2>3, <3>1, AloneAppendLands
      <3>3. e.type = "result" /\ e.run = RunOf[n] /\ e.key = Key[n]
        BY DEF EventOf
      <3>4. \E f \in events' :
              f.type = "result" /\ f.run = RunOf[n] /\ f.key = Key[n]
        BY <3>2, <3>3 DEF Duplicate
      <3>5. SettledIsRecorded'
        BY <2>3, <3>2, <3>4 DEF AloneInv, SettledIsRecorded
      <3>6. SettledIsIdle' /\ NewIsUnsettled'
        BY <1>t, <2>0, <2>3 DEF AloneInv, SettledIsIdle, NewIsUnsettled, Typing
      <3> QED BY <1>0, <3>2, <3>5, <3>6 DEF AloneInv
    <2>4. CASE NodeSucceed(n) BY <2>3, <2>4 DEF NodeSucceed
    <2>5. CASE NodeFail(n) BY <2>3, <2>5 DEF NodeFail
    <2> QED BY <1>6, <2>1, <2>2, <2>4, <2>5, <2>6 DEF NodeStep
  <1>7. CASE UNCHANGED vars
    BY <1>0, <1>7
    DEF AloneInv, SettledIsRecorded, SettledIsIdle, NewIsUnsettled,
        NeverStale, vars
  <1> QED
    BY <1>1, <1>2, <1>3, <1>4, <1>5, <1>6, <1>7 DEF Next, Progress, Quiescent

(* A call that has the database to itself, killed and resumed any number   *)
(* of times at any point: resume never runs an agent that had ended.       *)
THEOREM AloneNeverReruns ==
  ASSUME DistinctKeys, NEW q, Runs = {q} PROVE Spec => SettledNeverRerun
  <1>1. Init => AloneInv
    BY CoverInit
    DEF Init, AloneInv, SettledIsRecorded, SettledIsIdle, NewIsUnsettled,
        NeverStale
  <1>2. AloneInv /\ [Next]_vars => AloneInv' BY AloneStep
  <1>3. AloneInv /\ [Next]_vars =>
          [\A n \in settled : pc[n] # "running" => pc'[n] # "running"]_vars
    <2> SUFFICES ASSUME AloneInv, Next, NEW n \in settled, pc'[n] = "running"
                 PROVE  FALSE
      BY DEF AloneInv, SettledIsIdle
    <2>1. /\ n \in Nodes /\ pc[n] = "idle"
        /\ pc \in [Nodes -> {"idle", "pending", "running"}]
      BY DEF AloneInv, SettledIsIdle, CoverInv, Typing
    <2>2. \A m \in Nodes : ~NodeStep(m) \/ pc'[n] # "running"
      BY <2>1 DEF NodeStep, NodeStart, NodeRaise, NodeSkip, NodeSucceed, NodeFail
    <2>3. \A r \in Runs : ~(Start(r) \/ Finish(r) \/ Resume(r) \/ Cancel(r))
      BY <2>1 DEF Start, Finish, Resume, Cancel
    <2>4. ~Crash /\ ~Quiescent
      BY <2>1 DEF Crash, Quiescent, vars
    <2> QED BY <2>2, <2>3, <2>4 DEF Next, Progress
  <1> QED BY <1>1, <1>2, <1>3, PTL DEF Spec, SettledNeverRerun
-------------------------------------------------------------------------------
(* Usage.  The UNIQUE index: a run has one row of a type under a key.       *)
OneRowEach ==
  \A e, f \in events :
    e.run = f.run /\ e.key = f.key /\ e.type = f.type => e = f

Counts ==
  /\ rowUse \in [Runs -> [Nodes -> Nat]]
  /\ total \in [Runs -> [Nodes -> Nat]]
  /\ spent \in [Runs -> [Nodes -> Nat]]

(* What a call counts, a row reports or a resume reads back was spent.      *)
CountsSpent ==
  \A r \in Runs, n \in Nodes :
    /\ SuccessRows(r, n) # {} => spent[r][n] > 0
    /\ total[r][n] <= spent[r][n]
    /\ rowUse[r][n] <= spent[r][n]

UseInv == Typing /\ RowsAreTrue /\ OneRowEach /\ Counts /\ CountsSpent

(* Rows of one run and node have the node's key, and so are one row.        *)
LEMMA SuccessIsOneRow ==
  ASSUME RowsAreTrue, OneRowEach, NEW r \in Runs, NEW n \in Nodes
  PROVE  Cardinality(SuccessRows(r, n)) =
           IF SuccessRows(r, n) = {} THEN 0 ELSE 1
  <1>1. CASE SuccessRows(r, n) = {}
    BY <1>1, FS_EmptySet
  <1>2. ASSUME NEW e \in SuccessRows(r, n)
        PROVE  Cardinality(SuccessRows(r, n)) = 1
    <2>1. \A f \in SuccessRows(r, n) : f = e
      BY DEF SuccessRows, ResultRows, RowsAreTrue, OneRowEach
    <2>2. SuccessRows(r, n) = {e} BY <2>1
    <2> QED BY <2>2, FS_Singleton
  <1> QED BY <1>1, <1>2

LEMMA AppendKeepsOneRow ==
  ASSUME OneRowEach, NEW r \in Runs, NEW e, AppendEvent(r, e)
  PROVE  OneRowEach'
  BY DEF OneRowEach, AppendEvent, Duplicate

LEMMA UseStep ==
  ASSUME UseInv, [Next]_vars
  PROVE  UseInv'
  <1> USE WorkflowJournalAssumption
  <1>0. Typing' /\ RowsAreTrue' BY RowsStep DEF UseInv
  <1>c. Counts BY DEF UseInv
  <1>a. ASSUME UNCHANGED <<events, rowUse, total, spent>> PROVE UseInv'
    BY <1>0, <1>a
    DEF UseInv, OneRowEach, Counts, CountsSpent, SuccessRows, ResultRows
  <1>1. ASSUME NEW r \in Runs, Start(r) \/ Cancel(r) PROVE UseInv'
    BY <1>1, <1>a DEF Start, Cancel, history, stored
  <1>2. ASSUME NEW r \in Runs, Finish(r) PROVE UseInv'
    <2>1. /\ UNCHANGED <<events, total, spent>>
          /\ rowUse' \in {rowUse, [rowUse EXCEPT ![r] = total[r]]}
      BY <1>2 DEF Finish, history
    <2>2. Counts' BY <1>c, <2>1 DEF Counts
    <2>3. CountsSpent'
      BY <1>c, <2>1 DEF UseInv, Counts, CountsSpent, SuccessRows, ResultRows
    <2> QED BY <1>0, <2>1, <2>2, <2>3 DEF UseInv, OneRowEach
  <1>3. ASSUME NEW r \in Runs, Resume(r) PROVE UseInv'
    <2>1. /\ UNCHANGED <<events, rowUse, spent>>
          /\ total' = [total EXCEPT ![r] = MergedUsage(r)]
      BY <1>3 DEF Resume, stored, history
    <2>2. ASSUME NEW n \in Nodes
          PROVE  MergedUsage(r)[n] \in Nat /\ MergedUsage(r)[n] <= spent[r][n]
      <3>1. MergedUsage(r)[n] = IF SuccessRows(r, n) = {} THEN 0 ELSE 1
        BY SuccessIsOneRow DEF UseInv, MergedUsage
      <3>2. SuccessRows(r, n) # {} => spent[r][n] > 0
        BY DEF UseInv, CountsSpent
      <3>3. spent[r][n] \in Nat BY <1>c DEF Counts
      <3> QED BY <3>1, <3>2, <3>3
    <2>3. MergedUsage(r) \in [Nodes -> Nat]
      BY <2>2 DEF MergedUsage
    <2>4. Counts' BY <1>c, <2>1, <2>3 DEF Counts
    <2>5. ASSUME NEW q \in Runs, NEW n \in Nodes
          PROVE  total'[q][n] <= spent[q][n]
      BY <1>c, <2>1, <2>2 DEF UseInv, Counts, CountsSpent
    <2>6. CountsSpent'
      BY <2>1, <2>5 DEF UseInv, CountsSpent, SuccessRows, ResultRows
    <2> QED BY <1>0, <2>1, <2>4, <2>6 DEF UseInv, OneRowEach
  <1>4. CASE Crash
    BY <1>4, <1>a DEF Crash, history, stored
  <1>5. ASSUME NEW n \in Nodes, NodeStep(n) PROVE UseInv'
    <2>1. CASE NodeRaise(n)
      BY <1>a, <2>1 DEF NodeRaise, stored
    <2>5. CASE NodeSkip(n)
      BY <1>a, <2>5 DEF NodeSkip, stored, history
    <2>2. CASE NodeStart(n)
      <3> DEFINE e == EventOf(n, "started", "success")
      <3>1. OneRowEach'
        BY <2>2, AppendKeepsOneRow DEF UseInv, NodeStart
      <3>2. events' \in {events, events \cup {e}} /\ e.type = "started"
        BY <2>2 DEF NodeStart, AppendEvent, EventOf
      <3> HIDE DEF e
      <3>3. \A q \in Runs, m \in Nodes : SuccessRows(q, m)' = SuccessRows(q, m)
        BY <3>2 DEF SuccessRows, ResultRows
      <3>4. UNCHANGED <<rowUse, total, spent>>
        BY <2>2 DEF NodeStart, history
      <3> QED
        BY <1>0, <3>1, <3>3, <3>4 DEF UseInv, Counts, CountsSpent
    <2>3. CASE NodeFail(n)
      <3> DEFINE e == EventOf(n, "result", "error")
      <3>1. OneRowEach'
        BY <2>3, AppendKeepsOneRow DEF UseInv, NodeFail
      <3>2. events' \in {events, events \cup {e}} /\ e.status = "error"
        BY <2>3 DEF NodeFail, AppendEvent, EventOf
      <3> HIDE DEF e
      <3>3. \A q \in Runs, m \in Nodes : SuccessRows(q, m)' = SuccessRows(q, m)
        BY <3>2 DEF SuccessRows, ResultRows
      <3>4. UNCHANGED <<rowUse, total, spent>>
        BY <2>3 DEF NodeFail
      <3> QED
        BY <1>0, <3>1, <3>3, <3>4 DEF UseInv, Counts, CountsSpent
    <2>4. CASE NodeSucceed(n)
      <3> DEFINE e == EventOf(n, "result", "success")
                 r == RunOf[n]
      <3>1. OneRowEach'
        BY <2>4, AppendKeepsOneRow DEF UseInv, NodeSucceed
      <3>2. events' \in {events, events \cup {e}} /\ e.run = r /\ e.node = n
        BY <2>4 DEF NodeSucceed, AppendEvent, EventOf
      <3>3. /\ total' = [total EXCEPT ![r][n] = @ + 1]
            /\ spent' = [spent EXCEPT ![r][n] = @ + 1]
            /\ rowUse' = rowUse /\ r \in Runs
        BY <2>4 DEF NodeSucceed
      <3> HIDE DEF e, r
      <3>4. \A q \in Runs, m \in Nodes :
              q # r \/ m # n => SuccessRows(q, m)' = SuccessRows(q, m)
        BY <3>2 DEF SuccessRows, ResultRows
      <3>5. Counts' BY <1>c, <3>3 DEF Counts
      <3>6. ASSUME NEW q \in Runs, NEW m \in Nodes
            PROVE  /\ SuccessRows(q, m)' # {} => spent'[q][m] > 0
                   /\ total'[q][m] <= spent'[q][m]
                   /\ rowUse'[q][m] <= spent'[q][m]
        <4>1. CASE q = r /\ m = n
          BY <1>c, <3>3, <4>1 DEF UseInv, Counts, CountsSpent
        <4>2. CASE q # r \/ m # n
          <5>1. spent'[q][m] = spent[q][m] /\ total'[q][m] = total[q][m]
            BY <1>c, <3>3, <4>2 DEF Counts
          <5> QED
            BY <3>3, <3>4, <4>2, <5>1 DEF UseInv, CountsSpent
        <4> QED BY <4>1, <4>2
      <3> QED
        BY <1>0, <3>1, <3>5, <3>6 DEF UseInv, CountsSpent
    <2> QED BY <1>5, <2>1, <2>2, <2>3, <2>4, <2>5 DEF NodeStep
  <1>6. CASE UNCHANGED vars
    BY <1>6, <1>a DEF vars
  <1> QED
    BY <1>1, <1>2, <1>3, <1>4, <1>5, <1>6 DEF Next, Progress, Quiescent

LEMMA UseAlways == Spec => []UseInv
  <1>1. Init => UseInv
    BY CoverInit
    DEF Init, CoverInv, UseInv, OneRowEach, Counts, CountsSpent, NoUse,
        SuccessRows, ResultRows
  <1>2. UseInv /\ [Next]_vars => UseInv' BY UseStep
  <1> QED BY <1>1, <1>2, PTL DEF Spec

(* However many runs share the database, whatever keys their nodes have and  *)
(* whichever writes are refused: a run never reports an agent run it did    *)
(* not make, nor one of them twice.                                        *)
NeverOvercounted ==
  \A r \in Runs, n \in Nodes : rowUse[r][n] <= spent[r][n]

THEOREM UsageIsNeverTooHigh == Spec => []NeverOvercounted
  <1>1. UseInv => NeverOvercounted
    BY DEF UseInv, CountsSpent, NeverOvercounted
  <1> QED BY <1>1, UseAlways, PTL

(* Alone on the database nothing is refused, so nothing is missed either:   *)
(* the rows hold what was spent, and a call that is at work counts it.      *)
ExactInv ==
  /\ \A r \in Runs, n \in Nodes :
       spent[r][n] = IF SuccessRows(r, n) = {} THEN 0 ELSE 1
  /\ \A r \in Runs :
       /\ call[r] \in {"new", "live"} => total[r] = spent[r]
       /\ row[r] = "completed" =>
            rowUse[r] = spent[r] /\ call[r] \in {"dead", "returned"}

LEMMA ExactStep ==
  ASSUME DistinctKeys, NEW q, Runs = {q}, AloneInv, UseInv, ExactInv,
         [Next]_vars
  PROVE  ExactInv'
  <1> USE WorkflowJournalAssumption
  <1>t. Typing /\ CoverInv BY DEF AloneInv, CoverInv
  <1>c. Counts /\ Counts' BY UseStep DEF UseInv
  <1>b. \A r \in Runs : ~Blocked(r)
    BY DEF AloneInv, NeverStale, Blocked
  <1>a. ASSUME UNCHANGED events
        PROVE  \A r \in Runs, n \in Nodes :
                 SuccessRows(r, n)' = SuccessRows(r, n)
    BY <1>a DEF SuccessRows, ResultRows
  <1>1. ASSUME NEW r \in Runs, Start(r) PROVE ExactInv'
    BY <1>1, <1>a, <1>b, <1>t DEF Start, ExactInv, Typing, history
  <1>2. ASSUME NEW r \in Runs, Finish(r) PROVE ExactInv'
    <2>1. /\ UNCHANGED <<events, total, spent>> /\ call[r] = "live"
          /\ call' = [call EXCEPT ![r] = "returned"]
          /\ \/ UNCHANGED <<row, rowUse>>
             \/ /\ row' = [row EXCEPT ![r] = "completed"]
                /\ rowUse' = [rowUse EXCEPT ![r] = total[r]]
      BY <1>2 DEF Finish, history
    <2> QED BY <1>a, <1>c, <1>t, <2>1 DEF ExactInv, Typing, Counts
  <1>3. ASSUME NEW r \in Runs, Resume(r) PROVE ExactInv'
    <2>1. /\ UNCHANGED <<events, row, rowUse, spent>> /\ row[r] = "running"
          /\ call' = [call EXCEPT ![r] = "live"]
          /\ total' = [total EXCEPT ![r] = MergedUsage(r)]
      BY <1>3 DEF Resume, stored, history
    <2>2. \A n \in Nodes : MergedUsage(r)[n] = spent[r][n]
      BY SuccessIsOneRow DEF UseInv, ExactInv, MergedUsage
    <2>3. MergedUsage(r) = spent[r]
      BY <1>c, <2>2 DEF Counts, MergedUsage
    <2> QED BY <1>a, <1>c, <1>t, <2>1, <2>3 DEF ExactInv, Typing, Counts
  <1>4. ASSUME NEW r \in Runs, Cancel(r) PROVE ExactInv'
    BY <1>4, <1>a, <1>t DEF Cancel, ExactInv, Typing, stored, history
  <1>5. CASE Crash
    BY <1>5, <1>a, <1>t DEF Crash, ExactInv, Typing, stored, history
  <1>6. ASSUME NEW n \in Nodes, NodeStep(n) PROVE ExactInv'
    <2>1. CASE NodeRaise(n)
      BY <1>a, <2>1 DEF NodeRaise, ExactInv, stored
    <2>6. CASE NodeSkip(n)
      BY <1>a, <2>6 DEF NodeSkip, ExactInv, stored, history
    <2>2. ASSUME NEW e, NEW t, events' \in {events, events \cup {e}},
                 e.type = "started" \/ e.status = "error",
                 UNCHANGED <<row, rowUse, call, total, spent>>
          PROVE  ExactInv'
      <3>1. \A r \in Runs, m \in Nodes : SuccessRows(r, m)' = SuccessRows(r, m)
        BY <2>2 DEF SuccessRows, ResultRows
      <3> QED BY <2>2, <3>1 DEF ExactInv
    <2>3. CASE NodeStart(n)
      BY <2>2, <2>3 DEF NodeStart, AppendEvent, EventOf, history
    <2>4. CASE NodeFail(n)
      BY <2>2, <2>4 DEF NodeFail, AppendEvent, EventOf
    <2>5. CASE NodeSucceed(n)
      <3> DEFINE e == EventOf(n, "result", "success")
                 r == RunOf[n]
      <3>0. /\ e.run = r /\ e.key = Key[n] /\ e.type = "result"
            /\ e.node = n /\ e.status = "success" /\ r \in Runs
        BY DEF EventOf
      <3>1. n \notin settled /\ call[r] = "live"
        BY <1>t, <2>5
        DEF NodeSucceed, AloneInv, SettledIsIdle, CoverInv, ParkedIsIdle
      <3>2. ~Duplicate(e)
        BY <1>t, <3>0, <3>1
        DEF Duplicate, CoverInv, Typing, Event, RowsAreTrue, DistinctKeys
      <3>3. events' = events \cup {e}
        BY <1>b, <2>5, <3>0, <3>2 DEF NodeSucceed, AppendEvent
      <3>4. SuccessRows(r, n) = {}
        BY <1>t, <3>1 DEF SuccessRows, ResultRows, CoverInv, RowsAreTrue
      <3>5. /\ total' = [total EXCEPT ![r][n] = @ + 1]
            /\ spent' = [spent EXCEPT ![r][n] = @ + 1]
            /\ UNCHANGED <<row, rowUse, call>>
        BY <2>5 DEF NodeSucceed
      <3> HIDE DEF e, r
      <3>6. e \in SuccessRows(r, n)'
        BY <3>0, <3>3 DEF SuccessRows, ResultRows
      <3>7. \A p \in Runs, m \in Nodes :
              p # r \/ m # n => SuccessRows(p, m)' = SuccessRows(p, m)
        BY <3>0, <3>3 DEF SuccessRows, ResultRows
      <3>8. ASSUME NEW p \in Runs, NEW m \in Nodes
            PROVE  spent'[p][m] = IF SuccessRows(p, m)' = {} THEN 0 ELSE 1
        <4>1. CASE p = r /\ m = n
          BY <1>c, <3>4, <3>5, <3>6, <4>1 DEF ExactInv, Counts
        <4>2. CASE p # r \/ m # n
          <5>1. spent'[p][m] = spent[p][m]
            BY <1>c, <3>5, <4>2 DEF Counts
          <5> QED BY <3>7, <4>2, <5>1 DEF ExactInv
        <4> QED BY <4>1, <4>2
      <3>9. ASSUME NEW p \in Runs
            PROVE  /\ call'[p] \in {"new", "live"} => total'[p] = spent'[p]
                   /\ row'[p] = "completed" =>
                        rowUse'[p] = spent'[p] /\ call'[p] \in {"dead", "returned"}
        BY <1>c, <3>1, <3>5 DEF ExactInv, Counts
      <3> QED BY <3>8, <3>9 DEF ExactInv
    <2> QED BY <1>6, <2>1, <2>3, <2>4, <2>5, <2>6 DEF NodeStep
  <1>7. CASE UNCHANGED vars
    BY <1>7, <1>a DEF vars, ExactInv
  <1> QED
    BY <1>1, <1>2, <1>3, <1>4, <1>5, <1>6, <1>7 DEF Next, Progress, Quiescent

(* A run that has the database to itself reports, when it is completed, the  *)
(* usage of every agent run that succeeded and each once, through any       *)
(* crashes, cancellations and resumes.                                     *)
THEOREM AloneUsageIsExact ==
  ASSUME DistinctKeys, NEW q, Runs = {q} PROVE Spec => []UsageExact
  <1>1. Init => AloneInv /\ ExactInv
    BY CoverInit
    DEF Init, AloneInv, SettledIsRecorded, SettledIsIdle, NewIsUnsettled,
        NeverStale, ExactInv, NoUse, SuccessRows, ResultRows
  <1>2. AloneInv /\ UseInv /\ ExactInv /\ [Next]_vars => AloneInv' /\ ExactInv'
    BY AloneStep, ExactStep
  <1>3. ExactInv => UsageExact BY DEF ExactInv, UsageExact
  <1> QED BY <1>1, <1>2, <1>3, UseAlways, PTL DEF Spec

(* The types of the journal's state, whatever runs share the database.      *)
THEOREM JournalTypeOK == Spec => []TypeOK
  <1>1. Init => deaths \in 0..MaxDeaths
    BY WorkflowJournalAssumption DEF Init
  <1>2. deaths \in 0..MaxDeaths /\ [Next]_vars => (deaths \in 0..MaxDeaths)'
    <2> SUFFICES ASSUME deaths \in 0..MaxDeaths, [Next]_vars
                 PROVE  deaths' \in 0..MaxDeaths
      OBVIOUS
    <2>1. ASSUME NEW r \in Runs, Finish(r) \/ Resume(r) \/ Start(r)
          PROVE  deaths' = deaths
      BY <2>1 DEF Finish, Resume, Start
    <2>2. ASSUME NEW n \in Nodes, NodeStep(n)
          PROVE  deaths' = deaths
      BY <2>2 DEF NodeStep, NodeStart, NodeRaise, NodeSkip, NodeSucceed, NodeFail
    <2>3. ASSUME deaths < MaxDeaths, deaths' = deaths + 1
          PROVE  deaths' \in 0..MaxDeaths
      BY <2>3, WorkflowJournalAssumption
    <2>4. ASSUME NEW r \in Runs, Cancel(r)
          PROVE  deaths' \in 0..MaxDeaths
      BY <2>3, <2>4 DEF Cancel
    <2>5. CASE Crash
      BY <2>3, <2>5 DEF Crash
    <2>6. CASE UNCHANGED vars
      BY <2>6 DEF vars
    <2> QED
      BY <2>1, <2>2, <2>4, <2>5, <2>6 DEF Next, Progress, Quiescent
  <1>3. deaths \in 0..MaxDeaths /\ UseInv => TypeOK
    BY DEF UseInv, Typing, Counts, TypeOK
  <1> QED BY <1>1, <1>2, <1>3, UseAlways, PTL DEF Spec
===============================================================================
