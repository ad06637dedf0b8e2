--------------------------- MODULE MemoryWriteQueue ---------------------------
(***************************************************************************)
(* MemoryWriteQueue: a pool of memory writes behind one semaphore, with a  *)
(* lock per agent.  A turn calls submit(), which takes the lock of its     *)
(* agent and then a slot.  A fired task takes a slot and then, inside its  *)
(* write_fn, calls submit() like the hooks of SESSION_END do.              *)
(*                                                                         *)
(* asyncio's Semaphore and Lock hand over to their waiters in arrival      *)
(* order, so each is the sequence of those who asked for it and have not   *)
(* left: the first Concurrency entries of slots hold a slot, the head of   *)
(* locks[a] holds the lock.  A task that need not wait goes on in the same *)
(* step.                                                                   *)
(***************************************************************************)
EXTENDS Integers, SequencesExt

CONSTANTS Turns,        \* calls of submit() awaited by a turn
          Fires,        \* calls of fire(), each with one nested submit()
          Agents,
          AgentOf,      \* the agent of each call
          Concurrency   \* MEMORY_WRITE_CONCURRENCY

ASSUME MemoryWriteQueueAssumption ==
  /\ Turns \cap Fires = {}
  /\ AgentOf \in [Turns \cup Fires -> Agents]
  /\ Concurrency \in Nat \ {0}

Calls == Turns \cup Fires

VARIABLES
  pc,         \* where each call stands
  slots,      \* _semaphore
  locks,      \* _locks, with the tasks that hold or await each
  inflight,   \* _inflight: the calls with a task in it
  shut,       \* _shutdown
  drain,      \* the drain() call: no, waiting, cancelling, true or false
  snap,       \* its snapshot of _inflight
  log         \* history: the calls of submit() that entered the pool

vars == <<pc, slots, locks, inflight, shut, drain, snap, log>>
draining == <<shut, drain, snap>>

Init ==
  /\ pc = [c \in Calls |-> "new"]
  /\ slots = <<>>
  /\ locks = [a \in Agents |-> <<>>]
  /\ inflight = {}
  /\ shut = FALSE
  /\ drain = "no"
  /\ snap = {}
  /\ log = <<>>

Outer(c) == <<c, "outer">>
Inner(c) == <<c, "inner">>

Granted(e) ==
  \E i \in 1..Len(slots) : i <= Concurrency /\ slots[i] = e

(* A queue after one of those in it left; nobody is in a queue twice.      *)
Without(queue, e) ==
  IF Contains(queue, e)
  THEN RemoveAt(queue, CHOOSE i \in 1..Len(queue) : queue[i] = e)
  ELSE queue

GoTo(c, at) == pc' = [pc EXCEPT ![c] = at]

(* gather cancelled the tasks of the snapshot that were still in flight.   *)
Cancelled(c) == drain = "cancelling" /\ c \in snap /\ c \in inflight
-------------------------------------------------------------------------------
(* async with self._semaphore: the write task is created with the slot in  *)
(* hand and is tracked from then on.  queue is the semaphore as this step  *)
(* finds it.                                                               *)
AskSlot(c, queue) ==
  /\ slots' = Append(queue, Inner(c))
  /\ IF Len(queue) < Concurrency
     THEN GoTo(c, "write") /\ inflight' = inflight \cup {c}
     ELSE GoTo(c, "slot") /\ UNCHANGED inflight

AskLockUnordered(c, queue) ==    \* mutated form of AskLock: no lock is taken
  LET a == AgentOf[c] IN
  /\ locks' = [locks EXCEPT ![a] = Append(@, c)]
  /\ AskSlot(c, queue)

AskLock(c, queue) ==
  LET a == AgentOf[c] IN
  /\ locks' = [locks EXCEPT ![a] = Append(@, c)]
  /\ IF locks[a] = <<>>
     THEN AskSlot(c, queue)
     ELSE GoTo(c, "lock") /\ slots' = queue /\ UNCHANGED inflight

(* submit: after shutdown the write runs in the caller's own task.         *)
Submit(c, queue) ==
  IF shut
  THEN /\ GoTo(c, "inline")
       /\ slots' = queue
       /\ UNCHANGED <<locks, inflight, log>>
  ELSE AskLock(c, queue) /\ log' = Append(log, c)

SubmitTurn(t) ==
  /\ pc[t] = "new"
  /\ Submit(t, slots)
  /\ UNCHANGED draining

FireUntracked(f) ==    \* mutated form of Fire: not in _inflight until it writes
  /\ pc[f] = "new"
  /\ GoTo(f, IF shut THEN "late" ELSE "fired")
  /\ UNCHANGED <<slots, locks, inflight, draining, log>>

(* fire: a tracked task, or after shutdown one that drain does not cover.  *)
Fire(f) ==
  /\ pc[f] = "new"
  /\ GoTo(f, IF shut THEN "late" ELSE "fired")
  /\ inflight' = IF shut THEN inflight ELSE inflight \cup {f}
  /\ UNCHANGED <<slots, locks, draining, log>>

(* The first step of the fired task: _run_tracked, up to where it waits.   *)
FireBegin(f) ==
  LET queue == Append(slots, Outer(f)) IN
  /\ pc[f] = "fired"
  /\ ~Cancelled(f)
  /\ IF Len(slots) < Concurrency
     THEN Submit(f, queue)
     ELSE /\ GoTo(f, "sem")
          /\ slots' = queue
          /\ UNCHANGED <<locks, inflight, log>>
  /\ UNCHANGED draining

FireWoken(f) ==
  /\ pc[f] = "sem"
  /\ Granted(Outer(f))
  /\ ~Cancelled(f)
  /\ Submit(f, slots)
  /\ UNCHANGED draining

LockWoken(c) ==
  /\ pc[c] = "lock"
  /\ Head(locks[AgentOf[c]]) = c
  /\ ~Cancelled(c)
  /\ AskSlot(c, slots)
  /\ UNCHANGED <<locks, draining, log>>

SlotWoken(c) ==
  /\ pc[c] = "slot"
  /\ Granted(Inner(c))
  /\ ~Cancelled(c)
  /\ GoTo(c, "write")
  /\ inflight' = inflight \cup {c}
  /\ UNCHANGED <<slots, locks, draining, log>>

LeaveKeepingOuter(c, at) ==    \* mutated form of Leave: a fired task's slot is lost
  /\ GoTo(c, at)
  /\ slots' = Without(slots, Inner(c))
  /\ locks' = [locks EXCEPT ![AgentOf[c]] = Without(@, c)]
  /\ inflight' = inflight \ {c}

LeaveKeepingLock(c, at) ==    \* mutated form of Leave
  /\ GoTo(c, at)
  /\ slots' = Without(Without(slots, Inner(c)), Outer(c))
  /\ inflight' = inflight \ {c}
  /\ UNCHANGED locks

(* The context managers and finally clauses run, innermost first.          *)
Leave(c, at) ==
  /\ GoTo(c, at)
  /\ slots' = Without(Without(slots, Inner(c)), Outer(c))
  /\ locks' = [locks EXCEPT ![AgentOf[c]] = Without(@, c)]
  /\ inflight' = inflight \ {c}

(* The write returned or raised; an exception is logged and swallowed.     *)
WriteEnds(c) ==
  /\ pc[c] \in {"write", "inline", "late"}
  /\ ~Cancelled(c)
  /\ Leave(c, "done")
  /\ UNCHANGED <<draining, log>>

(* CancelledError is no Exception: it unwinds the task wherever it stands, *)
(* and with it the write.                                                  *)
Unwind(c) ==
  /\ Cancelled(c)
  /\ Leave(c, "cancelled")
  /\ UNCHANGED <<draining, log>>
-------------------------------------------------------------------------------
(* The server's shutdown: shutdown() and the start of drain() in one step. *)
Shutdown ==
  /\ ~shut
  /\ shut' = TRUE
  /\ snap' = inflight
  /\ drain' = IF inflight = {} THEN "true" ELSE "waiting"
  /\ UNCHANGED <<pc, slots, locks, inflight, log>>

DrainTimeout ==
  /\ drain = "waiting"
  /\ snap \cap inflight # {}
  /\ drain' = "cancelling"
  /\ UNCHANGED <<pc, slots, locks, inflight, shut, snap, log>>

SnapshotGone == snap \cap inflight = {}
DrainReturnsEarly ==    \* mutated form of DrainReturns: one task is enough
  /\ drain \in {"waiting", "cancelling"}
  /\ \E c \in snap : c \notin inflight
  /\ drain' = IF drain = "waiting" THEN "true" ELSE "false"
  /\ UNCHANGED <<pc, slots, locks, inflight, shut, snap, log>>

(* wait_for raises TimeoutError only when the cancelled tasks are over.    *)
DrainReturns ==
  /\ drain \in {"waiting", "cancelling"}
  /\ SnapshotGone
  /\ drain' = IF drain = "waiting" THEN "true" ELSE "false"
  /\ UNCHANGED <<pc, slots, locks, inflight, shut, snap, log>>

Settled(c) == pc[c] \in {"done", "cancelled"}

Quiescent ==
  /\ \A c \in Calls : Settled(c)
  /\ drain \in {"true", "false"}
  /\ UNCHANGED vars

TaskStep(c) ==
  LockWoken(c) \/ SlotWoken(c) \/ WriteEnds(c) \/ Unwind(c)

Progress ==
  \/ \E f \in Fires : FireBegin(f) \/ FireWoken(f)
  \/ \E c \in Calls : TaskStep(c)
  \/ DrainTimeout
  \/ DrainReturns

Next ==
  \/ Progress
  \/ \E t \in Turns : SubmitTurn(t)
  \/ \E f \in Fires : Fire(f)
  \/ Shutdown
  \/ Quiescent

Spec == Init /\ [][Next]_vars

(* The event loop runs ready tasks, every write ends, and a timer fires.   *)
FairSpec == Spec /\ WF_vars(Progress)
-------------------------------------------------------------------------------
Where == {"new", "fired", "sem", "lock", "slot", "write", "inline", "late",
          "done", "cancelled"}

TypeOK ==
  /\ pc \in [Calls -> Where]
  /\ slots \in Seq(Calls \X {"outer", "inner"}) /\ IsInjective(slots)
  /\ locks \in [Agents -> Seq(Calls)]
  /\ \A a \in Agents : IsInjective(locks[a])
  /\ inflight \subseteq Calls
  /\ shut \in BOOLEAN
  /\ drain \in {"no", "waiting", "cancelling", "true", "false"}
  /\ snap \subseteq Calls
  /\ log \in Seq(Calls)

(* Writes of one agent that go through the pool never overlap and happen   *)
(* in the order in which submit() was called: a write begins only when     *)
(* every earlier one of its agent is over.                                 *)
WritesInOrder ==
  \A i, j \in 1..Len(log) :
    /\ i < j
    /\ AgentOf[log[i]] = AgentOf[log[j]]
    /\ pc[log[j]] \in {"write", "done"}
    => Settled(log[i])

(* Whether it ended, raised or was cancelled while waiting, a call that is *)
(* over holds no slot and no lock and is not waited for by drain().        *)
NothingHeldWhenOver ==
  \A c \in Calls :
    Settled(c) =>
      /\ c \notin inflight
      /\ ~Contains(locks[AgentOf[c]], c)
      /\ ~Contains(slots, Inner(c)) /\ ~Contains(slots, Outer(c))

(* drain() returns only when every task fired before the shutdown is over; *)
(* True means that what was in flight has been written, not cancelled.     *)
DrainAccounts ==
  /\ drain \in {"true", "false"} =>
       \A f \in Fires : pc[f] \in {"new", "late"} \/ Settled(f)
  /\ drain = "true" => \A c \in snap : pc[c] = "done"

(* With fewer fired tasks than slots, every call of submit() and fire()    *)
(* comes to an end, with or without a shutdown in between.                 *)
EveryCallEnds == \A c \in Calls : pc[c] # "new" ~> Settled(c)

(* The module's docstring and its test for fire(): a write_fn that calls   *)
(* submit() for the same agent does not deadlock.                          *)
NestedSubmitReturns == \A f \in Fires : pc[f] = "fired" ~> Settled(f)
================================================================================
