------------------------ MODULE MemoryWriteQueueProofs ------------------------
(***************************************************************************)
(* The per-agent order of the pool, for any calls, agents and concurrency: *)
(* whatever is cancelled, fails or is still waiting at a shutdown, writes  *)
(* of one agent go through the pool in the order they were submitted.      *)
(***************************************************************************)
EXTENDS MemoryWriteQueue, SequenceTheorems, TLAPS

Distinct(q) == \A i, j \in 1..Len(q) : q[i] = q[j] => i = j

(* w is q without its k-th element.                                        *)
Closes(w, q, k) ==
  /\ Len(w) = Len(q) - 1
  /\ \A i \in 1..(Len(q) - 1) : w[i] = IF i < k THEN q[i] ELSE q[i + 1]

(* A departure closes the gap it leaves and moves nothing else.            *)
LEMMA WithoutCloses ==
  ASSUME NEW S, NEW q \in Seq(S), NEW k \in 1..Len(q), Distinct(q)
  PROVE  Without(q, q[k]) \in Seq(S) /\ Closes(Without(q, q[k]), q, k)
<1> DEFINE e == q[k]
<1> USE DEF Distinct
<1> DEFINE left == SubSeq(q, 1, k - 1)
           right == SubSeq(q, k + 1, Len(q))
<1>1. Contains(q, e) BY DEF Contains
<1>2. (CHOOSE i \in 1..Len(q) : q[i] = e) = k OBVIOUS
<1>3. Without(q, e) = left \o right BY <1>1, <1>2 DEF Without, RemoveAt
<1>4. /\ left \in Seq(S) /\ Len(left) = k - 1
      /\ \A i \in 1..(k - 1) : left[i] = q[i]
  BY SubSeqProperties
<1>5. /\ right \in Seq(S) /\ Len(right) = Len(q) - k
      /\ \A i \in 1..(Len(q) - k) : right[i] = q[k + i]
  BY SubSeqProperties
<1> HIDE DEF left, right
<1>6. /\ left \o right \in Seq(S)
      /\ Len(left \o right) = Len(q) - 1
  <2>0. left \in Seq(S) /\ right \in Seq(S)
    BY <1>4, <1>5
  <2>1. left \o right \in Seq(S)
    BY <2>0
  <2>2. Len(left \o right) = Len(left) + Len(right)
    BY <2>0
  <2>3. Len(q) \in Nat
    OBVIOUS
  <2> QED BY <1>4, <1>5, <2>1, <2>2, <2>3
<1>7. ASSUME NEW i \in 1..(Len(q) - 1)
      PROVE  (left \o right)[i] = IF i < k THEN q[i] ELSE q[i + 1]
  <2>1. i \in 1..(Len(left) + Len(right)) BY <1>4, <1>5
  <2>2. (left \o right)[i] = IF i <= Len(left) THEN left[i]
                             ELSE right[i - Len(left)]
    BY <1>4, <1>5, <2>1, ConcatProperties
  <2>3. CASE i < k
    BY <1>4, <2>2, <2>3
  <2>4. CASE ~(i < k)
    <3>1. i - (k - 1) \in 1..(Len(q) - k) BY <2>4
    <3>2. right[i - (k - 1)] = q[k + (i - (k - 1))] BY <1>5, <3>1
    <3> QED BY <1>4, <2>2, <2>4, <3>2
  <2> QED BY <2>3, <2>4
<1> QED BY <1>3, <1>6, <1>7 DEF Closes

LEMMA WithoutSplits ==
  ASSUME NEW S, NEW q \in Seq(S), NEW e, Distinct(q)
  PROVE  \/ /\ Without(q, e) = q
            /\ ~Contains(q, e)
         \/ \E k \in 1..Len(q) :
              /\ q[k] = e
              /\ Without(q, e) \in Seq(S)
              /\ Closes(Without(q, e), q, k)
<1>1. CASE Contains(q, e)
  <2>1. PICK k \in 1..Len(q) : q[k] = e BY <1>1 DEF Contains
  <2>2. Without(q, q[k]) \in Seq(S) /\ Closes(Without(q, q[k]), q, k)
    BY WithoutCloses
  <2> QED BY <2>1, <2>2
<1>2. CASE ~Contains(q, e)
  BY <1>2 DEF Without
<1> QED BY <1>1, <1>2
-------------------------------------------------------------------------------
Queued == {"lock", "slot", "write"}

(* Each lock's queue holds the unfinished calls of its agent, once each.   *)
LocksType ==
  /\ pc \in [Calls -> Where]
  /\ locks \in [Agents -> Seq(Calls)]
  /\ log \in Seq(Calls)

QueuedOnce == \A a \in Agents : Distinct(locks[a])

QueuedExactly ==
  \A a \in Agents, c \in Calls :
    Contains(locks[a], c) <=> AgentOf[c] = a /\ pc[c] \in Queued

(* Who has passed the lock is at the head of its queue.                    *)
HeadHolds ==
  \A c \in Calls :
    pc[c] \in {"slot", "write"} => locks[AgentOf[c]][1] = c

(* The log holds each pooled call once, in the order of the queues.        *)
LogOnce ==
  /\ \A i \in 1..Len(log) : pc[log[i]] \in Queued \cup {"done", "cancelled"}
  /\ \A i, j \in 1..Len(log) : log[i] = log[j] => i = j

SameOrder ==
  \A a \in Agents : \A i, j \in 1..Len(log) :
    \A x, y \in 1..Len(locks[a]) :
      i < j /\ locks[a][x] = log[i] /\ locks[a][y] = log[j] => x < y

OrderInv ==
  /\ LocksType /\ QueuedOnce /\ QueuedExactly /\ HeadHolds
  /\ LogOnce /\ SameOrder /\ WritesInOrder

(* An earlier call that is not over would stand before the head.           *)
LEMMA HeadIsEarliest ==
  ASSUME OrderInv, NEW i \in 1..Len(log), NEW j \in 1..Len(log), i < j,
         AgentOf[log[i]] = AgentOf[log[j]],
         locks[AgentOf[log[j]]][1] = log[j],
         pc[log[j]] \in Queued
  PROVE  Settled(log[i])
<1> USE DEF OrderInv, LocksType
<1>1. log[i] \in Calls /\ log[j] \in Calls OBVIOUS
<1> DEFINE a == AgentOf[log[j]]
<1>2. a \in Agents BY <1>1, MemoryWriteQueueAssumption DEF Calls
<1>3. SUFFICES ASSUME ~Settled(log[i]) PROVE FALSE OBVIOUS
<1>4. pc[log[i]] \in Queued BY <1>3 DEF LogOnce, Settled
<1>5. PICK x \in 1..Len(locks[a]) : locks[a][x] = log[i]
  BY SMTT(30), <1>1, <1>2, <1>4 DEF QueuedExactly, Contains
<1>6. 1 \in 1..Len(locks[a]) /\ locks[a][1] = log[j] BY <1>5, <1>2
<1>7. x < 1 BY <1>2, <1>5, <1>6 DEF SameOrder
<1> QED BY <1>5, <1>7

(* A call enters the pool at the end of its lock's queue.                  *)
LEMMA EnterKeeps ==
  ASSUME OrderInv, NEW c \in Calls, pc[c] \in {"new", "fired", "sem"},
         NEW at \in Queued, at = "lock" \/ locks[AgentOf[c]] = <<>>,
         pc' = [pc EXCEPT ![c] = at],
         locks' = [locks EXCEPT ![AgentOf[c]] = Append(@, c)],
         log' = Append(log, c)
  PROVE  OrderInv'
<1> USE DEF OrderInv, LocksType
<1> DEFINE a == AgentOf[c]
           q == locks[a]
<1>1. a \in Agents BY MemoryWriteQueueAssumption DEF Calls
<1>2. /\ q \in Seq(Calls) /\ Len(q) \in Nat
      /\ locks'[a] = Append(q, c)
      /\ Len(locks'[a]) = Len(q) + 1
      /\ \A x \in 1..Len(q) : locks'[a][x] = q[x] /\ q[x] # c
      /\ locks'[a][Len(q) + 1] = c
  <2>1. q \in Seq(Calls) /\ Len(q) \in Nat BY <1>1
  <2>2. locks'[a] = Append(q, c) BY <1>1
  <2>3. ~Contains(q, c) BY <1>1 DEF QueuedExactly, Queued
  <2>4. \A x \in 1..Len(q) : q[x] # c BY <2>3 DEF Contains
  <2> HIDE DEF q
  <2> QED BY <2>1, <2>2, <2>4
<1>3. \A b \in Agents \ {a} : locks'[b] = locks[b]
  BY <1>1
<1>4. /\ Len(log) \in Nat
      /\ Len(log') = Len(log) + 1
      /\ \A i \in 1..Len(log) : log'[i] = log[i] /\ log[i] # c
      /\ log'[Len(log) + 1] = c
  <2>1. Len(log) \in Nat OBVIOUS
  <2>2. Len(log') = Len(log) + 1 /\ log'[Len(log) + 1] = c OBVIOUS
  <2>3. \A i \in 1..Len(log) : log'[i] = log[i] OBVIOUS
  <2>4. \A i \in 1..Len(log) : log[i] # c BY DEF LogOnce, Queued
  <2> QED BY <2>1, <2>2, <2>3, <2>4
<1>5. LocksType'
  BY <1>1 DEF Where, Queued
<1>6. QueuedOnce'
  BY <1>2, <1>3 DEF QueuedOnce, Distinct
<1>7. QueuedExactly'
  <2>1. ASSUME NEW b \in Agents, NEW d \in Calls, b # a
        PROVE  Contains(locks[b], d)' <=> AgentOf[d] = b /\ pc'[d] \in Queued
    BY <1>3, <2>1 DEF QueuedExactly, Contains
  <2>2. ASSUME NEW d \in Calls
        PROVE  Contains(locks[a], d)' <=> AgentOf[d] = a /\ pc'[d] \in Queued
    <3>1. Contains(locks[a], d)' <=> Contains(q, d) \/ d = c
      BY <1>2 DEF Contains
    <3> QED BY <1>1, <3>1 DEF QueuedExactly
  <2> QED BY <2>1, <2>2 DEF QueuedExactly
<1>8. HeadHolds'
  <2>1. ASSUME NEW d \in Calls, d # c, pc[d] \in {"slot", "write"}
        PROVE  locks'[AgentOf[d]][1] = d
    <3>1. AgentOf[d] \in Agents BY MemoryWriteQueueAssumption DEF Calls
    <3>2. Contains(locks[AgentOf[d]], d)
      BY <2>1, <3>1 DEF QueuedExactly, Queued
    <3>3. 1 \in 1..Len(locks[AgentOf[d]]) BY <3>1, <3>2 DEF Contains
    <3>4. locks[AgentOf[d]][1] = d BY <2>1 DEF HeadHolds
    <3> QED BY <1>2, <1>3, <3>1, <3>3, <3>4
  <2>2. q = <<>> => locks'[a][1] = c BY <1>2
  <2> QED BY <2>1, <2>2 DEF HeadHolds
<1>9. LogOnce'
  BY <1>4 DEF LogOnce
<1>10. SameOrder'
  <2> SUFFICES ASSUME NEW b \in Agents,
                      NEW i \in 1..Len(log'), NEW j \in 1..Len(log'),
                      NEW x \in 1..Len(locks'[b]), NEW y \in 1..Len(locks'[b])
               PROVE  i < j /\ locks'[b][x] = log'[i] /\ locks'[b][y] = log'[j]
                        => x < y
    BY DEF SameOrder
  <2> HAVE i < j /\ locks'[b][x] = log'[i] /\ locks'[b][y] = log'[j]
  <2>1. i \in 1..Len(log) /\ log'[i] = log[i] /\ log[i] # c BY <1>4
  <2>2. CASE b # a
    <3>1. j # Len(log) + 1
      BY <1>1, <1>3, <1>4, <2>2 DEF QueuedExactly, Contains
    <3>a. j \in 1..(Len(log) + 1) BY <1>4
    <3>2. j \in 1..Len(log) /\ log'[j] = log[j] BY <1>4, <3>a, <3>1
    <3>3. locks'[b] = locks[b] BY <1>3, <2>2
    <3>4. x \in 1..Len(locks[b]) /\ y \in 1..Len(locks[b])
          /\ locks[b][x] = log[i] /\ locks[b][y] = log[j]
      BY <2>1, <3>2, <3>3
    <3> QED BY <2>1, <3>2, <3>4 DEF SameOrder
  <2>3. CASE b = a
    <3>1. x \in 1..Len(q) /\ q[x] = log[i] BY <1>2, <2>1, <2>3
    <3>2. CASE j = Len(log) + 1
      BY <1>2, <1>4, <2>3, <3>1, <3>2
    <3>3. CASE j # Len(log) + 1
      <4>1. j \in 1..Len(log) /\ log'[j] = log[j] /\ log[j] # c
        BY <1>4, <3>3
      <4>2. y \in 1..Len(q) /\ q[y] = log[j] BY <1>2, <2>3, <4>1
      <4> QED BY <1>1, <2>1, <3>1, <4>1, <4>2 DEF SameOrder
    <3> QED BY <3>2, <3>3
  <2> QED BY <2>2, <2>3
<1>11. WritesInOrder'
  <2> SUFFICES ASSUME NEW i \in 1..Len(log'), NEW j \in 1..Len(log'), i < j,
                      AgentOf[log'[i]] = AgentOf[log'[j]],
                      pc'[log'[j]] \in {"write", "done"}
               PROVE  pc'[log'[i]] \in {"done", "cancelled"}
    BY DEF WritesInOrder, Settled
  <2>1. i \in 1..Len(log) /\ log'[i] = log[i] /\ log[i] # c /\ log[i] \in Calls
    BY <1>4
  <2>2. CASE j = Len(log) + 1
    <3>1. q = <<>> BY <1>4, <2>2 DEF Queued
    <3>2. ~Contains(q, log[i]) BY <3>1 DEF Contains
    <3>3. pc[log[i]] \notin Queued
      BY <1>1, <1>4, <2>1, <2>2, <3>2 DEF QueuedExactly
    <3> QED BY <2>1, <3>3 DEF LogOnce, Settled
  <2>3. CASE j # Len(log) + 1
    <3>0. j \in 1..(Len(log) + 1) BY <1>4
    <3>1. j \in 1..Len(log) /\ log'[j] = log[j] /\ log[j] # c
      BY <1>4, <2>3, <3>0
    <3>2. Settled(log[i]) BY <2>1, <3>1 DEF WritesInOrder
    <3> QED BY <2>1, <3>2 DEF Settled
  <2> QED BY <2>2, <2>3
<1> QED BY <1>5, <1>6, <1>7, <1>8, <1>9, <1>10, <1>11

(* A call that is not in a lock's queue moves on outside of it.            *)
LEMMA OutsideKeeps ==
  ASSUME OrderInv, NEW c \in Calls, pc[c] \in {"new", "fired", "sem"},
         NEW at \in {"fired", "sem", "inline", "late"},
         pc' = [pc EXCEPT ![c] = at], UNCHANGED <<locks, log>>
  PROVE  OrderInv'
<1> USE DEF OrderInv, LocksType
<1>1. \A i \in 1..Len(log) : log[i] # c BY DEF LogOnce, Queued
<1>2. LocksType' BY DEF Where
<1>7. QueuedOnce' /\ SameOrder' BY DEF QueuedOnce, Distinct, SameOrder
<1>3. QueuedExactly' BY DEF QueuedExactly, Contains, Queued
<1>4. HeadHolds' BY DEF HeadHolds
<1>5. LogOnce' BY <1>1 DEF LogOnce
<1>6. WritesInOrder'
  <2> SUFFICES ASSUME NEW i \in 1..Len(log), NEW j \in 1..Len(log), i < j,
                      AgentOf[log[i]] = AgentOf[log[j]],
                      pc'[log[j]] \in {"write", "done"}
               PROVE  pc'[log[i]] \in {"done", "cancelled"}
    BY DEF WritesInOrder, Settled
  <2> QED BY <1>1 DEF WritesInOrder, Settled
<1> QED BY <1>2, <1>3, <1>4, <1>5, <1>6, <1>7

(* The head of a lock's queue moves on to its write.                       *)
LEMMA HeadMoves ==
  ASSUME OrderInv, NEW c \in Calls, pc[c] \in {"lock", "slot"},
         locks[AgentOf[c]][1] = c,
         NEW at \in {"slot", "write"},
         pc' = [pc EXCEPT ![c] = at], UNCHANGED <<locks, log>>
  PROVE  OrderInv'
<1> USE DEF OrderInv, LocksType
<1>2. LocksType' BY DEF Where
<1>7. QueuedOnce' /\ SameOrder' BY DEF QueuedOnce, Distinct, SameOrder
<1>3. QueuedExactly' BY DEF QueuedExactly, Contains, Queued
<1>4. HeadHolds' BY DEF HeadHolds
<1>5. LogOnce' BY DEF LogOnce, Queued
<1>6. WritesInOrder'
  <2> SUFFICES ASSUME NEW i \in 1..Len(log), NEW j \in 1..Len(log), i < j,
                      AgentOf[log[i]] = AgentOf[log[j]],
                      pc'[log[j]] \in {"write", "done"}
               PROVE  pc'[log[i]] \in {"done", "cancelled"}
    BY DEF WritesInOrder, Settled
  <2>1. log[i] \in Calls /\ log[j] \in Calls OBVIOUS
  <2>2. Settled(log[i])
    <3>1. CASE log[j] = c BY <3>1, HeadIsEarliest DEF Queued
    <3>2. CASE log[j] # c BY <2>1, <3>2 DEF WritesInOrder
    <3> QED BY <3>1, <3>2
  <2> QED BY <2>1, <2>2 DEF Settled
<1> QED BY <1>2, <1>3, <1>4, <1>5, <1>6, <1>7

(* A call that is over leaves its lock's queue, from wherever it stands.   *)
LEMMA LeaveKeeps ==
  ASSUME OrderInv, NEW c \in Calls, NEW at \in {"done", "cancelled"},
         at = "done" => pc[c] \in {"write", "inline", "late"},
         pc' = [pc EXCEPT ![c] = at],
         locks' = [locks EXCEPT ![AgentOf[c]] = Without(@, c)],
         UNCHANGED log
  PROVE  OrderInv'
<1> USE DEF OrderInv, LocksType
<1> DEFINE a == AgentOf[c]
           q == locks[a]
           w == Without(q, c)
<1>1. a \in Agents /\ q \in Seq(Calls) /\ Len(q) \in Nat
  BY MemoryWriteQueueAssumption DEF Calls
<1> HIDE DEF w
<1>2. locks'[a] = w /\ \A b \in Agents \ {a} : locks'[b] = locks[b]
  BY <1>1 DEF w
<1>d. Distinct(q) BY <1>1 DEF QueuedOnce
<1>q. \A x, y \in 1..Len(q) : q[x] = q[y] => x = y BY <1>d DEF Distinct
<1>3. PICK k \in 1..(Len(q) + 1) :
        /\ w \in Seq(Calls)
        /\ k > Len(q) => w = q /\ ~Contains(q, c)
        /\ k <= Len(q) => q[k] = c /\ Closes(w, q, k)
  <2>1. \/ w = q /\ ~Contains(q, c)
        \/ \E k \in 1..Len(q) : q[k] = c /\ w \in Seq(Calls) /\ Closes(w, q, k)
    BY <1>1, <1>d, WithoutSplits DEF w
  <2> HIDE DEF q
  <2>2. CASE w = q /\ ~Contains(q, c)
    <3>1. Len(q) + 1 \in 1..(Len(q) + 1) /\ ~(Len(q) + 1 <= Len(q)) BY <1>1
    <3> QED BY <1>1, <2>2, <3>1
  <2>3. ASSUME NEW k \in 1..Len(q), q[k] = c, w \in Seq(Calls), Closes(w, q, k)
        PROVE  \E m \in 1..(Len(q) + 1) :
                 /\ w \in Seq(Calls)
                 /\ m > Len(q) => w = q /\ ~Contains(q, c)
                 /\ m <= Len(q) => q[m] = c /\ Closes(w, q, m)
    <3>1. k \in 1..(Len(q) + 1) /\ ~(k > Len(q)) BY <1>1
    <3> QED BY <2>3, <3>1
  <2> QED BY <2>1, <2>2, <2>3
<1> USE DEF Closes
<1> DEFINE old(x) == IF x < k THEN x ELSE x + 1
<1>4. \A x \in 1..Len(w) :
        old(x) \in 1..Len(q) /\ w[x] = q[old(x)] /\ w[x] # c
  <2> SUFFICES ASSUME NEW x \in 1..Len(w)
               PROVE  old(x) \in 1..Len(q) /\ w[x] = q[old(x)] /\ w[x] # c
    OBVIOUS
  <2>1. CASE k > Len(q)
    BY <1>1, <1>3, <2>1 DEF Contains
  <2>2. CASE k <= Len(q)
    <3>1. x \in 1..(Len(q) - 1) BY <1>3, <2>2
    <3>2. old(x) \in 1..Len(q) /\ old(x) # k BY <1>1, <3>1
    <3>3. w[x] = q[old(x)] BY <1>3, <2>2, <3>1
    <3>4. k \in 1..Len(q) /\ q[k] = c BY <1>1, <1>3, <2>2
    <3> QED BY <1>q, <3>2, <3>3, <3>4
  <2> QED BY <1>1, <2>1, <2>2
<1>5. \A y \in 1..Len(q) : q[y] # c => \E x \in 1..Len(w) : old(x) = y
  <2> SUFFICES ASSUME NEW y \in 1..Len(q), q[y] # c
               PROVE  \E x \in 1..Len(w) : old(x) = y
    OBVIOUS
  <2>1. CASE k > Len(q) BY <1>1, <1>3, <2>1
  <2>2. CASE k <= Len(q)
    <3>1. y # k BY <1>3, <2>2
    <3>2. CASE y < k BY <1>1, <1>3, <2>2, <3>2
    <3>3. CASE y > k
      <4>1. y - 1 \in 1..Len(w) /\ old(y - 1) = y
        BY <1>1, <1>3, <2>2, <3>3
      <4> QED BY <4>1
    <3> QED BY <1>1, <3>1, <3>2, <3>3
  <2> QED BY <1>1, <2>1, <2>2
<1>o. \A x, y \in 1..Len(w) :
        /\ old(x) = old(y) => x = y
        /\ old(x) < old(y) => x < y
        /\ old(x) = 1 => x = 1
  BY <1>3
<1> HIDE DEF old
<1>6. LocksType'
  BY <1>1, <1>3 DEF Where, w
<1>7. QueuedOnce'
  <2> SUFFICES ASSUME NEW b \in Agents,
                      NEW x \in 1..Len(locks'[b]), NEW y \in 1..Len(locks'[b])
               PROVE  locks'[b][x] = locks'[b][y] => x = y
    BY DEF QueuedOnce, Distinct
  <2>1. CASE b # a BY <1>2, <2>1 DEF QueuedOnce, Distinct
  <2>2. CASE b = a
    <3>1. x \in 1..Len(w) /\ y \in 1..Len(w) BY <1>2, <2>2
    <3>2. w[x] = w[y] => old(x) = old(y) BY <1>4, <1>q, <3>1
    <3>3. old(x) = old(y) => x = y BY <1>o, <3>1
    <3> QED BY <1>2, <2>2, <3>2, <3>3
  <2> QED BY <2>1, <2>2
<1>8. QueuedExactly'
  <2>1. ASSUME NEW b \in Agents, NEW d \in Calls, b # a
        PROVE  Contains(locks[b], d)' <=> AgentOf[d] = b /\ pc'[d] \in Queued
    <3>1. locks'[b] = locks[b] BY <1>2, <2>1
    <3>2. Contains(locks[b], d)' <=> Contains(locks[b], d)
      BY <3>1 DEF Contains
    <3>3. Contains(locks[b], d) <=> AgentOf[d] = b /\ pc[d] \in Queued
      BY DEF QueuedExactly
    <3>4. AgentOf[d] = b => d # c BY <2>1
    <3> QED BY <3>2, <3>3, <3>4
  <2>2. ASSUME NEW d \in Calls
        PROVE  Contains(locks[a], d)' <=> AgentOf[d] = a /\ pc'[d] \in Queued
    <3>1. Contains(locks[a], d)' <=> \E x \in 1..Len(w) : w[x] = d
      BY <1>2 DEF Contains
    <3>3. (\E x \in 1..Len(w) : w[x] = d) => Contains(q, d) /\ d # c
      BY <1>4 DEF Contains
    <3>4. Contains(q, d) /\ d # c => \E x \in 1..Len(w) : w[x] = d
      BY <1>4, <1>5 DEF Contains
    <3>2. pc'[c] \notin Queued BY DEF Queued
    <3>5. Contains(q, d) <=> AgentOf[d] = a /\ pc[d] \in Queued
      BY <1>1 DEF QueuedExactly
    <3> QED BY <3>1, <3>2, <3>3, <3>4, <3>5
  <2> QED BY <2>1, <2>2 DEF QueuedExactly
<1>9. HeadHolds'
  <2> SUFFICES ASSUME NEW d \in Calls, pc'[d] \in {"slot", "write"}
               PROVE  locks'[AgentOf[d]][1] = d
    BY DEF HeadHolds
  <2>1. d # c /\ pc[d] \in {"slot", "write"} OBVIOUS
  <2>2. AgentOf[d] \in Agents /\ locks[AgentOf[d]][1] = d
    BY <2>1, MemoryWriteQueueAssumption DEF HeadHolds, Calls
  <2>3. CASE AgentOf[d] # a BY <1>2, <2>2, <2>3
  <2>4. CASE AgentOf[d] = a
    <3>1. Contains(q, d) BY <1>1, <2>1, <2>4 DEF QueuedExactly, Queued
    <3>2. 1 \in 1..Len(q) /\ q[1] = d BY <1>1, <2>2, <2>4, <3>1 DEF Contains
    <3>3. PICK x \in 1..Len(w) : old(x) = 1 BY <1>5, <2>1, <3>2
    <3>4. x = 1 BY <1>o, <3>3
    <3> QED BY <1>2, <1>4, <2>4, <3>2, <3>3, <3>4
  <2> QED BY <2>3, <2>4
<1>10. LogOnce'
  BY DEF LogOnce
<1>11. SameOrder'
  <2> SUFFICES ASSUME NEW b \in Agents,
                      NEW i \in 1..Len(log'), NEW j \in 1..Len(log'),
                      NEW x \in 1..Len(locks'[b]), NEW y \in 1..Len(locks'[b])
               PROVE  i < j /\ locks'[b][x] = log'[i] /\ locks'[b][y] = log'[j]
                        => x < y
    BY DEF SameOrder
  <2> HAVE i < j /\ locks'[b][x] = log'[i] /\ locks'[b][y] = log'[j]
  <2>1. CASE b # a
    <3>1. locks'[b] = locks[b] BY <1>2, <2>1
    <3>2. x \in 1..Len(locks[b]) /\ y \in 1..Len(locks[b])
          /\ locks[b][x] = log[i] /\ locks[b][y] = log[j]
      BY <3>1
    <3> QED BY <3>2 DEF SameOrder
  <2>2. CASE b = a
    <3>1. x \in 1..Len(w) /\ y \in 1..Len(w) BY <1>2, <2>2
    <3>2. /\ old(x) \in 1..Len(q) /\ q[old(x)] = log[i]
          /\ old(y) \in 1..Len(q) /\ q[old(y)] = log[j]
      BY <1>2, <1>4, <2>2, <3>1
    <3>3. old(x) < old(y)
      <4>1. \A u, v \in 1..Len(locks[a]) :
              locks[a][u] = log[i] /\ locks[a][v] = log[j] => u < v
        BY <1>1 DEF SameOrder
      <4> HIDE DEF q
      <4>2. \A u, v \in 1..Len(q) : q[u] = log[i] /\ q[v] = log[j] => u < v
        BY <4>1 DEF q
      <4> QED BY <3>2, <4>2
    <3> QED BY <1>o, <3>1, <3>3
  <2> QED BY <2>1, <2>2
<1>12. WritesInOrder'
  <2> SUFFICES ASSUME NEW i \in 1..Len(log), NEW j \in 1..Len(log), i < j,
                      AgentOf[log[i]] = AgentOf[log[j]],
                      pc'[log[j]] \in {"write", "done"}
               PROVE  pc'[log[i]] \in {"done", "cancelled"}
    BY DEF WritesInOrder, Settled
  <2>1. log[i] \in Calls /\ log[j] \in Calls OBVIOUS
  <2>2. pc[log[j]] \in {"write", "done"}
    BY <2>1 DEF LogOnce, Queued
  <2> QED BY <2>1, <2>2 DEF WritesInOrder, Settled
<1> QED BY <1>6, <1>7, <1>8, <1>9, <1>10, <1>11, <1>12
-------------------------------------------------------------------------------
LEMMA SubmitKeeps ==
  ASSUME OrderInv, NEW c \in Calls, pc[c] \in {"new", "fired", "sem"},
         NEW queue, Submit(c, queue)
  PROVE  OrderInv'
<1>1. CASE shut
  BY <1>1, OutsideKeeps DEF Submit, GoTo
<1>2. CASE ~shut /\ locks[AgentOf[c]] = <<>>
  <2>1. /\ locks' = [locks EXCEPT ![AgentOf[c]] = Append(@, c)]
        /\ log' = Append(log, c)
        /\ \E at \in {"slot", "write"} : pc' = [pc EXCEPT ![c] = at]
    BY <1>2 DEF Submit, AskLock, AskSlot, GoTo
  <2> QED BY <1>2, <2>1, EnterKeeps DEF Queued
<1>3. CASE ~shut /\ locks[AgentOf[c]] # <<>>
  <2>1. /\ locks' = [locks EXCEPT ![AgentOf[c]] = Append(@, c)]
        /\ log' = Append(log, c)
        /\ pc' = [pc EXCEPT ![c] = "lock"]
    BY <1>3 DEF Submit, AskLock, GoTo
  <2> QED BY <2>1, EnterKeeps DEF Queued
<1> QED BY <1>1, <1>2, <1>3

LEMMA OrderStep ==
  ASSUME OrderInv, [Next]_vars
  PROVE  OrderInv'
<1>1. ASSUME NEW t \in Turns, SubmitTurn(t) PROVE OrderInv'
  BY <1>1, SubmitKeeps DEF SubmitTurn, Calls
<1>2. ASSUME NEW f \in Fires, Fire(f) PROVE OrderInv'
  BY <1>2, OutsideKeeps DEF Fire, GoTo, Calls
<1>3. ASSUME NEW f \in Fires, FireBegin(f) PROVE OrderInv'
  <2>1. CASE Len(slots) < Concurrency
    BY <1>3, <2>1, SubmitKeeps DEF FireBegin, Calls
  <2>2. CASE ~(Len(slots) < Concurrency)
    BY <1>3, <2>2, OutsideKeeps DEF FireBegin, GoTo, Calls
  <2> QED BY <2>1, <2>2
<1>4. ASSUME NEW f \in Fires, FireWoken(f) PROVE OrderInv'
  BY <1>4, SubmitKeeps DEF FireWoken, Calls
<1>5. ASSUME NEW c \in Calls, LockWoken(c) PROVE OrderInv'
  <2>1. AgentOf[c] \in Agents BY MemoryWriteQueueAssumption DEF Calls
  <2>2. locks[AgentOf[c]][1] = c BY <1>5, <2>1 DEF LockWoken, OrderInv, LocksType
  <2>3. \E at \in {"slot", "write"} : pc' = [pc EXCEPT ![c] = at]
    BY <1>5 DEF LockWoken, AskSlot, GoTo
  <2> QED BY <1>5, <2>2, <2>3, HeadMoves DEF LockWoken
<1>6. ASSUME NEW c \in Calls, SlotWoken(c) PROVE OrderInv'
  <2>1. locks[AgentOf[c]][1] = c BY <1>6 DEF SlotWoken, OrderInv, HeadHolds
  <2> QED BY <1>6, <2>1, HeadMoves DEF SlotWoken, GoTo
<1>7. ASSUME NEW c \in Calls, WriteEnds(c) PROVE OrderInv'
  BY <1>7, LeaveKeeps DEF WriteEnds, Leave, GoTo
<1>8. ASSUME NEW c \in Calls, Unwind(c) PROVE OrderInv'
  BY <1>8, LeaveKeeps DEF Unwind, Leave, GoTo
<1>9. ASSUME UNCHANGED <<pc, locks, log>> PROVE OrderInv'
  <2>1. LocksType' /\ QueuedOnce' BY <1>9 DEF OrderInv, LocksType, QueuedOnce, Distinct
  <2>2. QueuedExactly' /\ HeadHolds'
    BY <1>9 DEF OrderInv, QueuedExactly, Contains, HeadHolds
  <2>3. LogOnce' BY <1>9 DEF OrderInv, LogOnce
  <2>4. SameOrder' BY <1>9 DEF OrderInv, SameOrder
  <2>5. WritesInOrder' BY <1>9 DEF OrderInv, WritesInOrder, Settled
  <2> QED BY <2>1, <2>2, <2>3, <2>4, <2>5 DEF OrderInv
<1> QED
  BY <1>1, <1>2, <1>3, <1>4, <1>5, <1>6, <1>7, <1>8, <1>9
  DEF Next, Progress, TaskStep, Shutdown, DrainTimeout, DrainReturns,
      Quiescent, vars

LEMMA OrderInit == Init => OrderInv
  BY MemoryWriteQueueAssumption
  DEF Init, OrderInv, LocksType, QueuedOnce, Distinct, QueuedExactly, Contains,
      HeadHolds, LogOnce, SameOrder, WritesInOrder, Settled, Where, Queued

(* Per-agent ordering, for any number of turns, fired tasks, agents and    *)
(* slots, through shutdown, drain and cancellation: no pooled write begins *)
(* before every earlier one of its agent is over.                          *)
THEOREM PoolWritesInOrder == Spec => []WritesInOrder
<1>1. Init => OrderInv BY OrderInit
<1>2. OrderInv /\ [Next]_vars => OrderInv' BY OrderStep
<1>3. OrderInv => WritesInOrder BY DEF OrderInv
<1> QED BY <1>1, <1>2, <1>3, PTL DEF Spec
-------------------------------------------------------------------------------
(* What every call holds, and what drain() knows of it.  A fired task keeps *)
(* its slot, and its place in _inflight, from its first step to its last;   *)
(* a turn is in flight only while it writes.                               *)
AtFires == {"fired", "sem", "inline"} \cup Queued
HasOuter == {"sem", "inline"} \cup Queued
HasInner == {"slot", "write"}

TurnsType == \A t \in Turns : pc[t] \notin {"fired", "sem", "late"}

SlotsInv ==
  /\ slots \in Seq(Calls \X {"outer", "inner"}) /\ Distinct(slots)
  /\ \A c \in Calls :
       /\ Contains(slots, Outer(c)) <=> c \in Fires /\ pc[c] \in HasOuter
       /\ Contains(slots, Inner(c)) <=> pc[c] \in HasInner

InflightInv ==
  /\ inflight \subseteq Calls
  /\ \A c \in Calls :
       c \in inflight <=> pc[c] = "write" \/ (c \in Fires /\ pc[c] \in AtFires)

(* After the shutdown nothing fired joins what drain() waits for; what it    *)
(* waits for is in flight or over; nothing is cancelled before its timeout. *)
DrainInv ==
  /\ shut \in BOOLEAN /\ snap \subseteq Calls
  /\ drain \in {"no", "waiting", "cancelling", "true", "false"}
  /\ shut <=> drain # "no"
  /\ ~shut => snap = {} /\ \A c \in Calls : pc[c] # "late"
  /\ \A c \in snap : c \in inflight \/ Settled(c)
  /\ shut => \A f \in Fires : f \in inflight => f \in snap
  /\ drain \in {"true", "false"} => SnapshotGone
  /\ drain \in {"no", "waiting", "true"} => \A c \in Calls : pc[c] # "cancelled"

HoldInv == TurnsType /\ SlotsInv /\ InflightInv /\ DrainInv

LEMMA AppendKeeps ==
  ASSUME NEW S, NEW q \in Seq(S), NEW e \in S, Distinct(q), ~Contains(q, e)
  PROVE  /\ Append(q, e) \in Seq(S) /\ Distinct(Append(q, e))
         /\ \A d : Contains(Append(q, e), d) <=> Contains(q, d) \/ d = e
  BY DEF Distinct, Contains

LEMMA WithoutKeeps ==
  ASSUME NEW S, NEW q \in Seq(S), NEW e, Distinct(q)
  PROVE  /\ Without(q, e) \in Seq(S) /\ Distinct(Without(q, e))
         /\ \A d : Contains(Without(q, e), d) <=> Contains(q, d) /\ d # e
<1> DEFINE w == Without(q, e)
<1>1. CASE w = q /\ ~Contains(q, e)
  BY <1>1 DEF Contains
<1>2. ASSUME NEW k \in 1..Len(q), q[k] = e, w \in Seq(S), Closes(w, q, k)
      PROVE  /\ w \in Seq(S) /\ Distinct(w)
             /\ \A d : Contains(w, d) <=> Contains(q, d) /\ d # e
  <2> HIDE DEF w
  <2> DEFINE old(x) == IF x < k THEN x ELSE x + 1
  <2>0. Len(q) \in Nat /\ Len(w) = Len(q) - 1
    BY <1>2 DEF Closes
  <2>1. \A x \in 1..Len(w) :
          old(x) \in 1..Len(q) /\ old(x) # k /\ w[x] = q[old(x)]
    BY <1>2, <2>0 DEF Closes
  <2>2. \A x, y \in 1..Len(w) : old(x) = old(y) => x = y
    BY <2>0
  <2>3. \A y \in 1..Len(q) : y # k => \E x \in 1..Len(w) : old(x) = y
    <3> SUFFICES ASSUME NEW y \in 1..Len(q), y # k
                 PROVE  \E x \in 1..Len(w) : old(x) = y
      OBVIOUS
    <3>1. CASE y < k
      BY <2>0, <3>1
    <3>2. CASE y > k
      <4>1. y - 1 \in 1..Len(w) /\ old(y - 1) = y
        BY <2>0, <3>2
      <4> QED BY <4>1
    <3> QED BY <3>1, <3>2
  <2> HIDE DEF old
  <2>4. Distinct(w)
    BY <2>1, <2>2 DEF Distinct
  <2>5. \A x \in 1..Len(w) : w[x] # e
    BY <1>2, <2>1 DEF Distinct
  <2>6. ASSUME NEW d PROVE Contains(w, d) <=> Contains(q, d) /\ d # e
    BY <1>2, <2>1, <2>3, <2>5 DEF Contains
  <2> QED BY <1>2, <2>4, <2>6
<1> QED BY <1>1, <1>2, WithoutSplits

(* One call moves on, and holds afterwards what it should.                  *)
LEMMA MoveHolds ==
  ASSUME OrderInv, HoldInv, NEW c \in Calls, NEW at \in Where,
         ~Settled(c), pc' = [pc EXCEPT ![c] = at], UNCHANGED draining,
         c \in Turns => at \notin {"fired", "sem", "late"},
         at = "late" => shut,
         at = "cancelled" => drain = "cancelling",
         slots' \in Seq(Calls \X {"outer", "inner"}), Distinct(slots'),
         \A d \in Calls \ {c} :
           /\ Contains(slots', Outer(d)) <=> Contains(slots, Outer(d))
           /\ Contains(slots', Inner(d)) <=> Contains(slots, Inner(d)),
         Contains(slots', Outer(c)) <=> c \in Fires /\ at \in HasOuter,
         Contains(slots', Inner(c)) <=> at \in HasInner,
         inflight' = IF at = "write" \/ (c \in Fires /\ at \in AtFires)
                     THEN inflight \cup {c} ELSE inflight \ {c},
         c \in inflight => c \in inflight' \/ at \in {"done", "cancelled"},
         shut /\ c \in Fires /\ c \in inflight' => c \in inflight
  PROVE  HoldInv'
<1>0. pc \in [Calls -> Where] BY DEF OrderInv, LocksType
<1>1. TurnsType'
  BY <1>0, MemoryWriteQueueAssumption DEF HoldInv, TurnsType, Calls
<1>2. SlotsInv'
  <2>1. ASSUME NEW d \in Calls
        PROVE  /\ Contains(slots', Outer(d)) <=> d \in Fires /\ pc'[d] \in HasOuter
               /\ Contains(slots', Inner(d)) <=> pc'[d] \in HasInner
    <3>1. CASE d = c BY <1>0, <3>1
    <3>2. CASE d # c BY <1>0, <3>2 DEF HoldInv, SlotsInv
    <3> QED BY <3>1, <3>2
  <2>2. ASSUME NEW d \in Calls
        PROVE  /\ Contains(slots, Outer(d))' <=> Contains(slots', Outer(d))
               /\ Contains(slots, Inner(d))' <=> Contains(slots', Inner(d))
    BY DEF Contains
  <2>3. Distinct(slots)' BY DEF Distinct
  <2> QED BY <2>1, <2>2, <2>3 DEF SlotsInv
<1>3. InflightInv'
  BY <1>0 DEF HoldInv, InflightInv
<1>4. DrainInv'
  <2>1. \A d \in snap : d \in inflight' \/ Settled(d)'
    BY <1>0 DEF HoldInv, DrainInv, Settled
  <2>2. drain \in {"true", "false"} => SnapshotGone'
    BY DEF HoldInv, DrainInv, SnapshotGone, draining
  <2> QED
    BY <1>0, <2>1, <2>2 DEF HoldInv, DrainInv, draining
<1> QED BY <1>1, <1>2, <1>3, <1>4 DEF HoldInv

LEMMA EntriesDiffer ==
  /\ \A c, d : Outer(c) # Inner(d)
  /\ \A c, d : Outer(c) = Outer(d) => c = d
  /\ \A c, d : Inner(c) = Inner(d) => c = d
  BY DEF Outer, Inner

(* submit(), called by a turn with the semaphore as it is, or by a fired    *)
(* task with its own slot in it.                                           *)
LEMMA SubmitHolds ==
  ASSUME OrderInv, HoldInv, NEW c \in Calls, NEW queue, Submit(c, queue),
         pc[c] \in {"new", "fired", "sem"}, c \in Fires => c \in inflight,
         UNCHANGED draining,
         queue \in Seq(Calls \X {"outer", "inner"}), Distinct(queue),
         \A d \in Calls : Contains(queue, Inner(d)) <=> Contains(slots, Inner(d)),
         \A d \in Calls \ {c} : Contains(queue, Outer(d)) <=> Contains(slots, Outer(d)),
         Contains(queue, Outer(c)) <=> c \in Fires
  PROVE  HoldInv'
<1>1. ~Contains(queue, Inner(c)) /\ ~Settled(c)
  BY DEF HoldInv, SlotsInv, HasInner, Settled
<1>2. ASSUME NEW at \in {"inline", "lock"}, pc' = [pc EXCEPT ![c] = at],
             slots' = queue, UNCHANGED inflight
      PROVE  HoldInv'
  <2>1. c \in inflight <=> c \in Fires
    BY DEF HoldInv, InflightInv, AtFires
  <2>2. inflight' = IF at = "write" \/ (c \in Fires /\ at \in AtFires)
                    THEN inflight \cup {c} ELSE inflight \ {c}
    BY <1>2, <2>1 DEF AtFires, Queued
  <2>3. at \in Where /\ at \notin HasInner /\ at \in HasOuter
    BY DEF Where, HasInner, HasOuter, Queued
  <2> QED BY <1>1, <1>2, <2>2, <2>3, MoveHolds
<1>3. ASSUME NEW at \in {"slot", "write"}, pc' = [pc EXCEPT ![c] = at],
             slots' = Append(queue, Inner(c)),
             inflight' = IF at = "write" THEN inflight \cup {c} ELSE inflight
      PROVE  HoldInv'
  <2>1. Inner(c) \in Calls \X {"outer", "inner"} BY DEF Inner
  <2>2. /\ slots' \in Seq(Calls \X {"outer", "inner"}) /\ Distinct(slots')
        /\ \A d : Contains(slots', d) <=> Contains(queue, d) \/ d = Inner(c)
    BY <1>1, <1>3, <2>1, AppendKeeps
  <2>3. /\ \A d \in Calls \ {c} :
             /\ Contains(slots', Outer(d)) <=> Contains(slots, Outer(d))
             /\ Contains(slots', Inner(d)) <=> Contains(slots, Inner(d))
        /\ Contains(slots', Outer(c)) <=> c \in Fires
        /\ Contains(slots', Inner(c))
    BY <2>2, EntriesDiffer
  <2>4. c \in inflight <=> c \in Fires
    BY DEF HoldInv, InflightInv, AtFires
  <2>5. inflight' = IF at = "write" \/ (c \in Fires /\ at \in AtFires)
                    THEN inflight \cup {c} ELSE inflight \ {c}
    BY <1>3, <2>4 DEF AtFires, Queued
  <2>6. at \in Where /\ at \in HasInner /\ at \in HasOuter
    BY DEF Where, HasInner, HasOuter, Queued
  <2> QED BY <1>1, <1>3, <2>2, <2>3, <2>4, <2>5, <2>6, MoveHolds
<1>4. CASE shut
  BY <1>2, <1>4 DEF Submit, GoTo
<1>5. CASE ~shut
  <2>1. CASE locks[AgentOf[c]] = <<>>
    BY <1>3, <1>5, <2>1 DEF Submit, AskLock, AskSlot, GoTo
  <2>2. CASE locks[AgentOf[c]] # <<>>
    BY <1>2, <1>5, <2>2 DEF Submit, AskLock, GoTo
  <2> QED BY <2>1, <2>2
<1> QED BY <1>4, <1>5

(* Whoever ends lets go of everything.                                      *)
LEMMA LeaveHolds ==
  ASSUME OrderInv, HoldInv, NEW c \in Calls, NEW at \in {"done", "cancelled"},
         ~Settled(c), Leave(c, at), UNCHANGED draining,
         at = "cancelled" => drain = "cancelling"
  PROVE  HoldInv'
<1> DEFINE S == Calls \X {"outer", "inner"}
           w == Without(slots, Inner(c))
<1>1. /\ w \in Seq(S) /\ Distinct(w)
      /\ \A d : Contains(w, d) <=> Contains(slots, d) /\ d # Inner(c)
  <2>1. slots \in Seq(S) /\ Distinct(slots) BY DEF HoldInv, SlotsInv
  <2> QED BY <2>1, WithoutKeeps
<1> HIDE DEF w, S
<1>2. /\ slots' \in Seq(S) /\ Distinct(slots')
      /\ \A d : Contains(slots', d) <=> Contains(w, d) /\ d # Outer(c)
  <2>1. slots' = Without(w, Outer(c)) BY DEF Leave, w
  <2> QED BY <1>1, <2>1, WithoutKeeps
<1>3. /\ \A d \in Calls \ {c} :
           /\ Contains(slots', Outer(d)) <=> Contains(slots, Outer(d))
           /\ Contains(slots', Inner(d)) <=> Contains(slots, Inner(d))
      /\ ~Contains(slots', Outer(c)) /\ ~Contains(slots', Inner(c))
  BY <1>1, <1>2, EntriesDiffer
<1>4. at \in Where /\ at \notin HasInner /\ at \notin HasOuter
      /\ at \notin AtFires /\ at # "write"
  BY DEF Where, HasInner, HasOuter, AtFires, Queued
<1>5. inflight' = inflight \ {c} /\ pc' = [pc EXCEPT ![c] = at]
  BY DEF Leave, GoTo
<1> QED BY <1>2, <1>3, <1>4, <1>5, MoveHolds DEF S

LEMMA HoldStep ==
  ASSUME OrderInv, HoldInv, [Next]_vars
  PROVE  HoldInv'
<1> DEFINE S == Calls \X {"outer", "inner"}
<1>0. pc \in [Calls -> Where] /\ slots \in Seq(S) /\ Distinct(slots)
  BY DEF OrderInv, LocksType, HoldInv, SlotsInv
<1>f. ASSUME NEW f \in Fires, pc[f] \in {"fired", "sem"}
      PROVE  f \in inflight /\ f \in Calls
  BY <1>f DEF HoldInv, InflightInv, AtFires, Calls
<1>1. ASSUME NEW t \in Turns, SubmitTurn(t) PROVE HoldInv'
  <2>1. t \in Calls /\ t \notin Fires
    BY MemoryWriteQueueAssumption DEF Calls
  <2>2. ~Contains(slots, Outer(t)) BY <2>1 DEF HoldInv, SlotsInv
  <2> QED BY <1>0, <1>1, <2>1, <2>2, SubmitHolds DEF SubmitTurn
<1>2. ASSUME NEW f \in Fires, Fire(f) PROVE HoldInv'
  <2> DEFINE at == IF shut THEN "late" ELSE "fired"
  <2>1. f \in Calls /\ f \notin Turns
    BY MemoryWriteQueueAssumption DEF Calls
  <2>2. /\ ~Contains(slots, Outer(f)) /\ ~Contains(slots, Inner(f))
        /\ f \notin inflight /\ ~Settled(f)
    BY <1>2, <2>1
    DEF Fire, HoldInv, SlotsInv, HasOuter, HasInner, Queued, InflightInv,
        AtFires, Settled
  <2>3. at \in Where /\ at \notin HasOuter /\ at \notin HasInner
        /\ (at \in AtFires <=> ~shut) /\ at # "write"
    BY DEF Where, HasOuter, HasInner, AtFires, Queued
  <2>4. UNCHANGED draining /\ slots' = slots /\ pc' = [pc EXCEPT ![f] = at]
        /\ inflight' = IF shut THEN inflight ELSE inflight \cup {f}
    BY <1>2 DEF Fire, GoTo
  <2>5. inflight' = IF at = "write" \/ (f \in Fires /\ at \in AtFires)
                    THEN inflight \cup {f} ELSE inflight \ {f}
    BY <2>2, <2>3, <2>4
  <2>6. shut /\ f \in inflight' => f \in inflight
    BY <2>4
  <2> HIDE DEF at
  <2>7. at = "late" => shut BY DEF at
  <2>8. at \notin {"done", "cancelled"} BY DEF at
  <2> QED BY <1>0, <2>1, <2>2, <2>3, <2>4, <2>5, <2>6, <2>7, <2>8, MoveHolds
<1>3. ASSUME NEW f \in Fires, FireBegin(f) PROVE HoldInv'
  <2> DEFINE queue == Append(slots, Outer(f))
  <2>1. f \in inflight /\ f \in Calls /\ f \notin Turns
    BY <1>3, <1>f, MemoryWriteQueueAssumption DEF FireBegin
  <2>2. ~Contains(slots, Outer(f)) /\ ~Contains(slots, Inner(f))
    BY <1>3, <2>1
    DEF FireBegin, HoldInv, SlotsInv, HasOuter, HasInner, Queued
  <2>3. Outer(f) \in S BY <2>1 DEF Outer
  <2>4. /\ queue \in Seq(S) /\ Distinct(queue)
        /\ \A d : Contains(queue, d) <=> Contains(slots, d) \/ d = Outer(f)
    BY <1>0, <2>2, <2>3, AppendKeeps
  <2> HIDE DEF queue
  <2>5. /\ \A d \in Calls : Contains(queue, Inner(d)) <=> Contains(slots, Inner(d))
        /\ \A d \in Calls \ {f} : Contains(queue, Outer(d)) <=> Contains(slots, Outer(d))
        /\ Contains(queue, Outer(f))
    BY <2>4, EntriesDiffer
  <2>6. CASE Submit(f, queue)
    BY <1>3, <2>1, <2>4, <2>5, <2>6, SubmitHolds DEF FireBegin
  <2>7. CASE ~Submit(f, queue)
    <3>1. /\ pc' = [pc EXCEPT ![f] = "sem"] /\ slots' = queue
          /\ UNCHANGED inflight /\ UNCHANGED draining
      BY <1>3, <2>7 DEF FireBegin, GoTo, queue
    <3>2. "sem" \in Where /\ "sem" \in HasOuter /\ "sem" \notin HasInner
          /\ "sem" \in AtFires
      BY DEF Where, HasOuter, HasInner, AtFires, Queued
    <3>3. ~Settled(f) BY <1>3 DEF FireBegin, Settled
    <3>4. inflight' = inflight \cup {f} BY <2>1, <3>1
    <3> QED
      BY <2>1, <2>2, <2>4, <2>5, <3>1, <3>2, <3>3, <3>4, MoveHolds
  <2> QED BY <2>6, <2>7
<1>4. ASSUME NEW f \in Fires, FireWoken(f) PROVE HoldInv'
  <2>1. f \in inflight /\ f \in Calls BY <1>4, <1>f DEF FireWoken
  <2>2. Contains(slots, Outer(f))
    BY <1>4, <2>1 DEF FireWoken, HoldInv, SlotsInv, HasOuter
  <2> QED BY <1>0, <1>4, <2>1, <2>2, SubmitHolds DEF FireWoken
<1>5. ASSUME NEW c \in Calls, LockWoken(c) PROVE HoldInv'
  <2>1. /\ ~Contains(slots, Inner(c)) /\ ~Settled(c)
        /\ Contains(slots, Outer(c)) <=> c \in Fires
        /\ c \in inflight <=> c \in Fires
    BY <1>5
    DEF LockWoken, HoldInv, SlotsInv, HasOuter, HasInner, Queued, InflightInv,
        AtFires, Settled
  <2>2. Inner(c) \in S BY DEF Inner
  <2>3. slots' = Append(slots, Inner(c)) /\ UNCHANGED draining
    BY <1>5 DEF LockWoken, AskSlot
  <2>4. /\ slots' \in Seq(S) /\ Distinct(slots')
        /\ \A d : Contains(slots', d) <=> Contains(slots, d) \/ d = Inner(c)
    BY <1>0, <2>1, <2>2, <2>3, AppendKeeps
  <2>5. /\ \A d \in Calls \ {c} :
             /\ Contains(slots', Outer(d)) <=> Contains(slots, Outer(d))
             /\ Contains(slots', Inner(d)) <=> Contains(slots, Inner(d))
        /\ Contains(slots', Outer(c)) <=> c \in Fires
        /\ Contains(slots', Inner(c))
    BY <2>1, <2>4, EntriesDiffer
  <2>6. PICK at \in {"slot", "write"} :
          /\ pc' = [pc EXCEPT ![c] = at]
          /\ inflight' = IF at = "write" THEN inflight \cup {c} ELSE inflight
    BY <1>5 DEF LockWoken, AskSlot, GoTo
  <2>7. inflight' = IF at = "write" \/ (c \in Fires /\ at \in AtFires)
                    THEN inflight \cup {c} ELSE inflight \ {c}
    BY <2>1, <2>6 DEF AtFires, Queued
  <2>8. at \in Where /\ at \in HasInner /\ at \in HasOuter
    BY DEF Where, HasInner, HasOuter, Queued
  <2> QED BY <2>1, <2>3, <2>4, <2>5, <2>6, <2>7, <2>8, MoveHolds
<1>6. ASSUME NEW c \in Calls, SlotWoken(c) PROVE HoldInv'
  <2>1. /\ Contains(slots, Inner(c)) /\ ~Settled(c)
        /\ Contains(slots, Outer(c)) <=> c \in Fires
        /\ c \in inflight <=> c \in Fires
    BY <1>6
    DEF SlotWoken, HoldInv, SlotsInv, HasOuter, HasInner, Queued, InflightInv,
        AtFires, Settled
  <2>2. /\ pc' = [pc EXCEPT ![c] = "write"] /\ slots' = slots
        /\ inflight' = inflight \cup {c} /\ UNCHANGED draining
    BY <1>6 DEF SlotWoken, GoTo
  <2>3. "write" \in Where /\ "write" \in HasInner /\ "write" \in HasOuter
    BY DEF Where, HasInner, HasOuter, Queued
  <2> QED BY <1>0, <2>1, <2>2, <2>3, MoveHolds
<1>7. ASSUME NEW c \in Calls, WriteEnds(c) PROVE HoldInv'
  BY <1>7, LeaveHolds DEF WriteEnds, Settled
<1>8. ASSUME NEW c \in Calls, Unwind(c) PROVE HoldInv'
  <2>1. ~Settled(c)
    BY <1>8 DEF Unwind, Cancelled, HoldInv, InflightInv, AtFires, Queued, Settled
  <2> QED BY <1>8, <2>1, LeaveHolds DEF Unwind, Cancelled
<1>9. ASSUME UNCHANGED <<pc, slots, inflight>>, DrainInv' PROVE HoldInv'
  BY <1>9
  DEF HoldInv, TurnsType, SlotsInv, Distinct, Contains, InflightInv
<1>10. ASSUME Shutdown PROVE HoldInv'
  <2>1. DrainInv'
    BY <1>10 DEF Shutdown, HoldInv, DrainInv, InflightInv, SnapshotGone, Settled
  <2> QED BY <1>9, <1>10, <2>1 DEF Shutdown
<1>11. ASSUME DrainTimeout \/ DrainReturns PROVE HoldInv'
  <2>1. DrainInv'
    BY <1>11 DEF DrainTimeout, DrainReturns, HoldInv, DrainInv, SnapshotGone, Settled
  <2> QED BY <1>9, <1>11, <2>1 DEF DrainTimeout, DrainReturns
<1>12. ASSUME UNCHANGED vars PROVE HoldInv'
  <2>1. DrainInv'
    BY <1>12 DEF vars, HoldInv, DrainInv, SnapshotGone, Settled
  <2> QED BY <1>9, <1>12, <2>1 DEF vars
<1> QED
  BY <1>1, <1>2, <1>3, <1>4, <1>5, <1>6, <1>7, <1>8, <1>10, <1>11, <1>12
  DEF Next, Progress, TaskStep, Quiescent

LEMMA HoldsAlways == Spec => [](OrderInv /\ HoldInv)
<1>1. Init => OrderInv BY OrderInit
<1>2. Init => HoldInv
  <2> SUFFICES ASSUME Init PROVE HoldInv
    OBVIOUS
  <2>1. \A c \in Calls : pc[c] = "new"
    BY DEF Init
  <2>2. TurnsType
    BY <2>1 DEF TurnsType, Calls
  <2>3. SlotsInv
    BY <2>1
    DEF Init, SlotsInv, Distinct, Contains, HasOuter, HasInner, Queued
  <2>4. InflightInv
    BY <2>1 DEF Init, InflightInv, AtFires, Queued
  <2>5. DrainInv
    BY <2>1 DEF Init, DrainInv
  <2> QED BY <2>2, <2>3, <2>4, <2>5 DEF HoldInv
<1>3. OrderInv /\ HoldInv /\ [Next]_vars => OrderInv' /\ HoldInv'
  BY OrderStep, HoldStep
<1> QED BY <1>1, <1>2, <1>3, PTL DEF Spec

(* The types of the queue's state, for any calls, agents and concurrency.   *)
THEOREM QueueTypeOK == Spec => []TypeOK
<1>1. OrderInv /\ HoldInv => TypeOK
  <2> SUFFICES ASSUME OrderInv, HoldInv PROVE TypeOK
    OBVIOUS
  <2>1. ASSUME NEW S, NEW q \in Seq(S), Distinct(q) PROVE IsInjective(q)
    <3>1. DOMAIN q = 1..Len(q) OBVIOUS
    <3> QED BY <2>1, <3>1 DEF Distinct, IsInjective
  <2>2. slots \in Seq(Calls \X {"outer", "inner"}) /\ IsInjective(slots)
    BY <2>1 DEF HoldInv, SlotsInv
  <2>3. locks \in [Agents -> Seq(Calls)] /\ \A a \in Agents : IsInjective(locks[a])
    BY <2>1 DEF OrderInv, LocksType, QueuedOnce
  <2>4. pc \in [Calls -> Where] /\ log \in Seq(Calls)
    BY DEF OrderInv, LocksType
  <2> QED
    BY <2>2, <2>3, <2>4 DEF HoldInv, InflightInv, DrainInv, TypeOK
<1> QED BY <1>1, HoldsAlways, PTL

(* For any calls, agents and concurrency: who ended, raised or was cancelled *)
(* while it waited has left the semaphore, its lock and _inflight.          *)
THEOREM NothingStaysHeld == Spec => []NothingHeldWhenOver
<1>1. OrderInv /\ HoldInv => NothingHeldWhenOver
  <2> SUFFICES ASSUME OrderInv, HoldInv, NEW c \in Calls, Settled(c)
               PROVE  /\ c \notin inflight
                      /\ ~Contains(locks[AgentOf[c]], c)
                      /\ ~Contains(slots, Inner(c)) /\ ~Contains(slots, Outer(c))
    BY DEF NothingHeldWhenOver
  <2>1. c \notin inflight
    BY DEF HoldInv, InflightInv, AtFires, Queued, Settled
  <2>2. ~Contains(slots, Inner(c)) /\ ~Contains(slots, Outer(c))
    BY DEF HoldInv, SlotsInv, HasInner, HasOuter, Queued, Settled
  <2>3. AgentOf[c] \in Agents BY MemoryWriteQueueAssumption DEF Calls
  <2>4. ~Contains(locks[AgentOf[c]], c)
    BY <2>3 DEF OrderInv, QueuedExactly, Queued, Settled
  <2> QED BY <2>1, <2>2, <2>4
<1> QED BY <1>1, HoldsAlways, PTL

(* drain() returns only when whatever was fired before the shutdown is over, *)
(* and says True only if none of what was in flight then was cancelled.    *)
THEOREM DrainTellsTheTruth == Spec => []DrainAccounts
<1>1. OrderInv /\ HoldInv => DrainAccounts
  <2> SUFFICES ASSUME OrderInv, HoldInv PROVE DrainAccounts
    OBVIOUS
  <2>1. ASSUME drain \in {"true", "false"}, NEW f \in Fires
        PROVE  pc[f] \in {"new", "late"} \/ Settled(f)
    <3>1. f \in Calls /\ pc[f] \in Where
      BY DEF OrderInv, LocksType, Calls
    <3>2. f \notin inflight
      BY <2>1 DEF HoldInv, DrainInv, SnapshotGone
    <3> QED
      BY <3>1, <3>2 DEF HoldInv, InflightInv, AtFires, Queued, Where, Settled
  <2>2. ASSUME drain = "true", NEW c \in snap
        PROVE  pc[c] = "done"
    BY <2>2 DEF HoldInv, DrainInv, SnapshotGone, Settled
  <2> QED BY <2>1, <2>2 DEF DrainAccounts
<1> QED BY <1>1, HoldsAlways, PTL
================================================================================
