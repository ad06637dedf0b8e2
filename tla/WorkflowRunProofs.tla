--------------------------- MODULE WorkflowRunProofs ---------------------------
(***************************************************************************)
(* Theorems about WorkflowRun for every number of nodes, every concurrency *)
(* and every budget.                                                       *)
(***************************************************************************)
EXTENDS WorkflowRun, FiniteSetTheorems, TLAPS

(* Type correctness of every state of a fan-out.                           *)
THEOREM RunTypeOK == Spec => []TypeOK
<1>1. Init => TypeOK
  <2>1. Cap \in Nat
    BY WorkflowRunAssumption DEF Cap
  <2>2. 0..MaxPrior \subseteq Nat
    OBVIOUS
  <2>3. Init => result \in [status : {"none", "success", "error"},
                            exceeded : BOOLEAN]
    BY DEF Init, NoResult
  <2>4. Init => pc \in [Nodes -> {"created", "sem", "spawn", "run", "done"}]
    BY DEF Init
  <2>5. Init => outcome \in [Nodes -> NodeOutcome]
    BY DEF Init, NodeOutcome
  <2> QED
    BY <2>1, <2>2, <2>3, <2>4, <2>5 DEF Init, TypeOK
<1>2. TypeOK /\ [Next]_vars => TypeOK'
  <2> SUFFICES ASSUME TypeOK, [Next]_vars PROVE TypeOK'
    OBVIOUS
  <2> USE DEF TypeOK
  <2>1. ASSUME NEW n \in Nodes, SkipOnAbort(n) PROVE TypeOK'
    BY <2>1 DEF SkipOnAbort, Finish, NodeOutcome
  <2>2. ASSUME NEW n \in Nodes, Enter(n) PROVE TypeOK'
    BY <2>2 DEF Enter
  <2>3. ASSUME NEW n \in Nodes, TakeSlot(n) PROVE TypeOK'
    BY <2>3 DEF TakeSlot
  <2>4. ASSUME NEW n \in Nodes, Trip(n) PROVE TypeOK'
    BY <2>4 DEF Trip, Finish, ReleaseSlot, NodeOutcome
  <2>5. ASSUME NEW n \in Nodes, BuildRaises(n) PROVE TypeOK'
    BY <2>5 DEF BuildRaises, Finish, ReleaseSlot, NodeOutcome
  <2>6. ASSUME NEW n \in Nodes, Spawn(n) PROVE TypeOK'
    BY <2>6 DEF Spawn
  <2>7. ASSUME NEW n \in Nodes, Succeed(n) PROVE TypeOK'
    BY <2>7, WorkflowRunAssumption
       DEF Succeed, Finish, ReleaseLock, ReleaseSlot, NodeOutcome, NoNode
  <2>8. ASSUME NEW n \in Nodes, Fail(n) PROVE TypeOK'
    BY <2>8 DEF Fail, Finish, ReleaseLock, ReleaseSlot, NodeOutcome, NoNode
  <2>9. CASE Return
    BY <2>9 DEF Return
  <2>10. CASE CallerAbort
    BY <2>10 DEF CallerAbort
  <2>11. CASE UNCHANGED vars
    BY <2>11 DEF vars
  <2> QED
    BY <2>1, <2>2, <2>3, <2>4, <2>5, <2>6, <2>7, <2>8, <2>9, <2>10, <2>11
       DEF Next, EngineStep, NodeStep, Terminated
<1> QED
  BY <1>1, <1>2, PTL DEF Spec
-------------------------------------------------------------------------------
(* The lock covers the lifecycle of a node: the node that runs is the one  *)
(* that holds it, the total it was checked against is still the total, and *)
(* a tripped budget stays over its limit.                                  *)
LockInv ==
  /\ hasBudget => \A n \in Nodes : pc[n] = "run" => holder = n
  /\ hasBudget /\ holder # NoNode => total <= Limit
  /\ tripped => hasBudget /\ total > Limit
  /\ BudgetBound

LEMMA LockInvInductive ==
  ASSUME TypeOK, LockInv, [Next]_vars
  PROVE  LockInv'
<1> USE WorkflowRunAssumption DEF TypeOK, LockInv
<1>0. OvershootBound \in Nat /\ Limit + MaxUse <= OvershootBound
  BY DEF OvershootBound
<1>1. ASSUME NEW n \in Nodes, SkipOnAbort(n) PROVE LockInv'
  BY <1>1 DEF SkipOnAbort, Finish, BudgetBound
<1>2. ASSUME NEW n \in Nodes, Enter(n) PROVE LockInv'
  BY <1>2 DEF Enter, BudgetBound
<1>3. ASSUME NEW n \in Nodes, TakeSlot(n) PROVE LockInv'
  BY <1>3 DEF TakeSlot, BudgetBound
<1>4. ASSUME NEW n \in Nodes, Trip(n) PROVE LockInv'
  BY <1>4 DEF Trip, Finish, OverBudget, BudgetBound
<1>5. ASSUME NEW n \in Nodes, BuildRaises(n) PROVE LockInv'
  BY <1>5 DEF BuildRaises, Finish, BudgetBound
<1>6. ASSUME NEW n \in Nodes, Spawn(n) PROVE LockInv'
  <2>1. hasBudget => holder = NoNode /\ total <= Limit
    BY <1>6 DEF Spawn, LockGranted, OverBudget
  <2>2. hasBudget => \A m \in Nodes : pc'[m] = "run" => m = n
    BY <1>6, <2>1 DEF Spawn, Nodes, NoNode
  <2> QED
    BY <1>6, <2>1, <2>2 DEF Spawn, BudgetBound, OverBudget
<1>7. ASSUME NEW n \in Nodes, Succeed(n) PROVE LockInv'
  <2>1. PICK u \in 0..MaxUse : total' = total + u
    BY <1>7 DEF Succeed
  <2>2. hasBudget => holder = n /\ total <= Limit
    BY <1>7 DEF Succeed, Nodes, NoNode
  <2>3. BudgetBound'
    BY <1>0, <1>7, <2>1, <2>2 DEF Succeed, BudgetBound, OvershootBound
  <2>4. hasBudget => \A m \in Nodes : pc'[m] # "run"
    BY <1>7, <2>2 DEF Succeed, Finish
  <2> QED
    BY <1>7, <2>1, <2>3, <2>4 DEF Succeed, ReleaseLock
<1>8. ASSUME NEW n \in Nodes, Fail(n) PROVE LockInv'
  <2>1. hasBudget => \A m \in Nodes : pc'[m] # "run"
    BY <1>8 DEF Fail, Finish
  <2> QED
    BY <1>8, <2>1 DEF Fail, ReleaseLock, BudgetBound
<1>9. CASE Return
  BY <1>9 DEF Return, BudgetBound
<1>10. CASE CallerAbort
  BY <1>10 DEF CallerAbort, BudgetBound
<1>11. CASE UNCHANGED vars
  BY <1>11 DEF vars, BudgetBound
<1> QED
  BY <1>1, <1>2, <1>3, <1>4, <1>5, <1>6, <1>7, <1>8, <1>9, <1>10, <1>11
     DEF Next, EngineStep, NodeStep, Terminated

LEMMA LockInvHolds == Spec => []LockInv
<1>1. Init => LockInv
  BY WorkflowRunAssumption
     DEF Init, LockInv, BudgetBound, OvershootBound, NoNode
<1> QED
  BY <1>1, RunTypeOK, LockInvInductive, PTL DEF Spec

(* The overshoot of a budget is bounded by one agent run, whatever the     *)
(* number of nodes and the concurrency.                                    *)
THEOREM BudgetIsBounded == Spec => []BudgetBound
BY LockInvHolds, PTL DEF LockInv

(* After the budget tripped no agent is started.                           *)
THEOREM NothingSpawnsAfterTrip == Spec => NoSpawnAfterTrip
<1>1. ASSUME TypeOK, LockInv, [Next]_vars
      PROVE  [tripped => \A n \in Nodes : pc'[n] = "run" => pc[n] = "run"]_vars
  <2> SUFFICES ASSUME Next, tripped, NEW m \in Nodes, pc'[m] = "run"
               PROVE  pc[m] = "run"
    BY <1>1
  <2> USE <1>1 DEF TypeOK, LockInv
  <2>1. OverBudget
    BY DEF OverBudget
  <2>2. ASSUME NEW n \in Nodes, NodeStep(n) PROVE pc[m] = "run"
    BY <2>1, <2>2
       DEF NodeStep, SkipOnAbort, Enter, TakeSlot, Trip, BuildRaises, Spawn,
           Succeed, Fail, Finish
  <2> QED
    BY <2>2 DEF Next, EngineStep, Return, CallerAbort, Terminated, vars
<1> QED
  BY <1>1, RunTypeOK, LockInvHolds, PTL DEF Spec, NoSpawnAfterTrip
-------------------------------------------------------------------------------
(* Spec order is kept at every queue: the tasks that entered are a prefix  *)
(* of the nodes, and so are, among the tasks that were not skipped, those  *)
(* that got a slot and, with a budget, those that got the lock.            *)
OrderInv ==
  \A m, n \in Nodes : m < n =>
    /\ pc[m] = "created" => pc[n] = "created"
    /\ pc[m] = "sem" =>
         pc[n] \in {"created", "sem"} \/ outcome[n] = "budget_exceeded_skipped"
    /\ hasBudget /\ pc[m] = "spawn" => ~Ran(n)
    /\ outcome[m] = "budget_exceeded_skipped" =>
         abort /\ (pc[n] = "created" \/ outcome[n] = "budget_exceeded_skipped")
    /\ outcome[m] = "budget_exceeded" => tripped /\ ~Ran(n)

(* A node has an outcome exactly when its task is done.                    *)
OutcomeInv == \A n \in Nodes : pc[n] = "done" <=> outcome[n] # "none"

LEMMA OutcomeInvInductive ==
  ASSUME TypeOK, OutcomeInv, [Next]_vars
  PROVE  OutcomeInv'
<1> USE DEF TypeOK, OutcomeInv
<1>1. ASSUME NEW n \in Nodes, NodeStep(n) PROVE OutcomeInv'
  <2>1. ASSUME NEW o \in NodeOutcome \ {"none"}, Finish(n, o) PROVE OutcomeInv'
    BY <2>1 DEF Finish
  <2>2. SkipOnAbort(n) \/ Trip(n) \/ BuildRaises(n) \/ Succeed(n) \/ Fail(n)
          => OutcomeInv'
    BY <2>1 DEF SkipOnAbort, Trip, BuildRaises, Succeed, Fail, NodeOutcome
  <2>3. Enter(n) \/ TakeSlot(n) \/ Spawn(n) => OutcomeInv'
    BY DEF Enter, TakeSlot, Spawn, FirstAt
  <2> QED
    BY <1>1, <2>2, <2>3 DEF NodeStep
<1> QED
  BY <1>1 DEF Next, EngineStep, Return, CallerAbort, Terminated, vars

LEMMA OrderInvInductive ==
  ASSUME TypeOK, OutcomeInv, LockInv, OrderInv, [Next]_vars
  PROVE  OrderInv'
<1> USE DEF TypeOK, OutcomeInv, OrderInv, Ran, Nodes
<1>1. ASSUME NEW n \in Nodes, SkipOnAbort(n) PROVE OrderInv'
  BY <1>1 DEF SkipOnAbort, Finish, FirstAt, Earlier
<1>2. ASSUME NEW n \in Nodes, Enter(n) PROVE OrderInv'
  BY <1>2 DEF Enter, FirstAt, Earlier
<1>3. ASSUME NEW n \in Nodes, TakeSlot(n) PROVE OrderInv'
  BY <1>3 DEF TakeSlot, FirstAt, Earlier
<1>4. ASSUME NEW n \in Nodes, Trip(n) PROVE OrderInv'
  BY <1>4 DEF Trip, Finish, OverBudget, LockGranted, FirstAt, Earlier
<1>5. ASSUME NEW n \in Nodes, BuildRaises(n) PROVE OrderInv'
  BY <1>5 DEF BuildRaises, Finish, OverBudget, LockGranted, FirstAt, Earlier, LockInv
<1>6. ASSUME NEW n \in Nodes, Spawn(n) PROVE OrderInv'
  BY <1>6 DEF Spawn, OverBudget, LockGranted, FirstAt, Earlier, LockInv
<1>7. ASSUME NEW n \in Nodes, Succeed(n) PROVE OrderInv'
  BY <1>7 DEF Succeed, Finish
<1>8. ASSUME NEW n \in Nodes, Fail(n) PROVE OrderInv'
  BY <1>8 DEF Fail, Finish
<1>9. CASE Return
  BY <1>9 DEF Return
<1>10. CASE CallerAbort
  BY <1>10 DEF CallerAbort
<1>11. CASE UNCHANGED vars
  BY <1>11 DEF vars
<1> QED
  BY <1>1, <1>2, <1>3, <1>4, <1>5, <1>6, <1>7, <1>8, <1>9, <1>10, <1>11
     DEF Next, EngineStep, NodeStep, Terminated

LEMMA OrderInvHolds == Spec => [](OutcomeInv /\ OrderInv)
<1>1. Init => OutcomeInv /\ OrderInv
  BY DEF Init, OutcomeInv, OrderInv, Ran
<1> QED
  BY <1>1, RunTypeOK, LockInvHolds, OutcomeInvInductive, OrderInvInductive, PTL
     DEF Spec

(* With a budget, what is short-circuited is a suffix of the spec.         *)
THEOREM BudgetSpentInOrder == Spec => []SpentInOrder
<1>1. TypeOK /\ OutcomeInv /\ OrderInv => SpentInOrder
  BY DEF TypeOK, OutcomeInv, OrderInv, SpentInOrder, ShortCircuited, Ran
<1> QED
  BY <1>1, RunTypeOK, OrderInvHolds, PTL
-------------------------------------------------------------------------------
(* The contract the nodes and the verdict implement, FanOut.               *)
LEMMA InitImplements == Init => Promise!Init
BY DEF Init, Promise!Init, Outcome2Settled, NoResult

(* No node's outcome changes after the barrier: nothing is left to step.   *)
BarrierInv == result # NoResult => \A n \in Nodes : pc[n] = "done"

LEMMA BarrierInvHolds == Spec => []BarrierInv
<1>1. Init => BarrierInv
  BY DEF Init, BarrierInv
<1>2. TypeOK /\ BarrierInv /\ [Next]_vars => BarrierInv'
  <2> SUFFICES ASSUME TypeOK, BarrierInv, [Next]_vars PROVE BarrierInv'
    OBVIOUS
  <2> USE DEF TypeOK, BarrierInv
  <2>1. ASSUME NEW n \in Nodes, NodeStep(n) PROVE BarrierInv'
    BY <2>1 DEF NodeStep, SkipOnAbort, Enter, TakeSlot, Trip, BuildRaises,
                Spawn, Succeed, Fail, FirstAt
  <2>2. CASE Return
    BY <2>2 DEF Return, Settled
  <2> QED
    BY <2>1, <2>2 DEF Next, EngineStep, CallerAbort, Terminated, vars
<1> QED
  BY <1>1, <1>2, RunTypeOK, PTL DEF Spec

(* The invariant also says that an open call has no verdict yet.           *)
ResultInv == result.status = "none" <=> result = NoResult

LEMMA ResultInvHolds == Spec => []ResultInv
<1>1. Init => ResultInv
  BY DEF Init, ResultInv, NoResult
<1>2. ResultInv /\ [Next]_vars => ResultInv'
  <2> SUFFICES ASSUME ResultInv, [Next]_vars PROVE ResultInv'
    OBVIOUS
  <2>1. CASE Return
    BY <2>1 DEF Return, ResultInv, NoResult
  <2>2. CASE UNCHANGED result
    BY <2>2 DEF ResultInv
  <2> QED
    BY <2>1, <2>2
       DEF Next, EngineStep, NodeStep, SkipOnAbort, Enter, TakeSlot, Trip,
           BuildRaises, Spawn, Succeed, Fail, CallerAbort, Terminated, vars
<1> QED
  BY <1>1, <1>2, PTL DEF Spec

(* Every step of run() is a step of the contract or leaves it unchanged.   *)
LEMMA StepImplements ==
  ASSUME TypeOK, OutcomeInv, ResultInv, BarrierInv, [Next]_vars
  PROVE  [Promise!Next]_(Promise!vars)
<1> USE DEF TypeOK, OutcomeInv
<1> DEFINE mapped == [n \in Nodes |-> Outcome2Settled(outcome[n])]
<1>1. ASSUME UNCHANGED outcome, UNCHANGED result PROVE UNCHANGED Promise!vars
  BY <1>1 DEF Promise!vars
<1>2. ASSUME NEW n \in Nodes, NEW o \in NodeOutcome \ {"none"},
             pc[n] # "done", Finish(n, o), UNCHANGED result
      PROVE  Promise!Settle(n)
  <2>1. result.status = "none"
    BY <1>2 DEF BarrierInv, ResultInv
  <2>2. mapped[n] = "none"
    BY <1>2 DEF Outcome2Settled
  <2>3. Outcome2Settled(o) \in {"success", "failure"}
    BY DEF Outcome2Settled
  <2>4. mapped' = [mapped EXCEPT ![n] = Outcome2Settled(o)]
    BY <1>2 DEF Finish
  <2> QED
    BY <1>2, <2>1, <2>2, <2>3, <2>4 DEF Promise!Settle
<1>3. ASSUME NEW n \in Nodes, NodeStep(n)
      PROVE  Promise!Settle(n) \/ UNCHANGED Promise!vars
  <2>1. Enter(n) \/ TakeSlot(n) \/ Spawn(n) => UNCHANGED Promise!vars
    BY <1>1 DEF Enter, TakeSlot, Spawn
  <2>2. SkipOnAbort(n) \/ Trip(n) \/ BuildRaises(n) \/ Succeed(n) \/ Fail(n)
          => Promise!Settle(n)
    BY <1>2 DEF SkipOnAbort, Trip, BuildRaises, Succeed, Fail, FirstAt,
                NodeOutcome
  <2> QED
    BY <1>3, <2>1, <2>2 DEF NodeStep
<1>4. ASSUME Return PROVE Promise!Close
  <2>1. result.status = "none"
    BY <1>4 DEF Return, NoResult
  <2>2. \A n \in Nodes : mapped[n] # "none" /\ (mapped[n] = "success" <=> outcome[n] = "success")
    BY <1>4 DEF Return, Settled, Outcome2Settled
  <2>3. result'.status = IF \A n \in Nodes : mapped[n] # "success"
                         THEN "error" ELSE "success"
    BY <1>4, <2>2 DEF Return, AllFailed
  <2>4. mapped' = mapped
    BY <1>4 DEF Return
  <2> QED
    BY <2>1, <2>2, <2>3, <2>4 DEF Promise!Close
<1> QED
  BY <1>1, <1>3, <1>4
     DEF Next, EngineStep, CallerAbort, Terminated, vars, Promise!Next

(* run() implements the fan-out contract: each node is settled once, the   *)
(* verdict is given behind the barrier of all nodes and is "error" exactly *)
(* when none succeeded.                                                    *)
THEOREM RunImplementsFanOut == Spec => Promise!Spec
BY InitImplements, StepImplements, RunTypeOK, OrderInvHolds, ResultInvHolds,
   BarrierInvHolds, PTL DEF Spec, Promise!Spec
-------------------------------------------------------------------------------
(* Slots: a step moves at most one node into or out of the semaphore.      *)
LEMMA SlotsInductive ==
  ASSUME TypeOK, SlotsConserved, [Next]_vars
  PROVE  SlotsConserved'
<1> USE DEF TypeOK
<1>0. IsFiniteSet(Holders) /\ Cardinality(Holders) \in Nat
  <2>1. IsFiniteSet(Nodes)
    BY WorkflowRunAssumption, FS_Interval DEF Nodes
  <2> QED
    BY <2>1, FS_Subset, FS_CardinalityType DEF Holders
<1>1. ASSUME UNCHANGED Holders, UNCHANGED free PROVE SlotsConserved'
  BY <1>1 DEF SlotsConserved
<1>2. ASSUME NEW n \in Nodes, NEW o, pc[n] \in {"spawn", "run"},
             Finish(n, o), ReleaseSlot
      PROVE  SlotsConserved'
  <2>1. Holders' = Holders \ {n} /\ n \in Holders
    BY <1>2 DEF Holders, Finish
  <2>2. Cardinality(Holders') = Cardinality(Holders) - 1
    BY <1>0, <2>1, FS_RemoveElement
  <2> QED
    BY <1>0, <1>2, <2>2 DEF SlotsConserved, ReleaseSlot
<1>3. ASSUME NEW n \in Nodes, TakeSlot(n) PROVE SlotsConserved'
  <2>1. Holders' = Holders \cup {n} /\ n \notin Holders
    BY <1>3 DEF TakeSlot, FirstAt, Holders
  <2>2. Cardinality(Holders') = Cardinality(Holders) + 1
    BY <1>0, <2>1, FS_AddElement
  <2> QED
    BY <1>0, <1>3, <2>2 DEF SlotsConserved, TakeSlot
<1>4. ASSUME NEW n \in Nodes, SkipOnAbort(n) \/ Enter(n) \/ Spawn(n)
      PROVE  SlotsConserved'
  <2>1. Holders' = Holders
    BY <1>4 DEF SkipOnAbort, Enter, Spawn, Finish, FirstAt, Holders
  <2> QED
    BY <1>1, <1>4, <2>1 DEF SkipOnAbort, Enter, Spawn
<1>5. ASSUME NEW n \in Nodes,
             Trip(n) \/ BuildRaises(n) \/ Succeed(n) \/ Fail(n)
      PROVE  SlotsConserved'
  BY <1>2, <1>5 DEF Trip, BuildRaises, Succeed, Fail
<1>6. ASSUME UNCHANGED <<pc, free>> PROVE SlotsConserved'
  BY <1>1, <1>6 DEF Holders
<1> QED
  BY <1>3, <1>4, <1>5, <1>6
     DEF Next, EngineStep, NodeStep, Return, CallerAbort, Terminated, vars

(* No path through _spawn_agent loses or duplicates a semaphore slot, for  *)
(* every number of nodes and every concurrency.                            *)
THEOREM SlotsAreConserved == Spec => []SlotsConserved
<1>1. Init => SlotsConserved
  <2>1. Init => Holders = {}
    BY DEF Init, Holders
  <2>2. Cap \in Nat
    BY WorkflowRunAssumption DEF Cap
  <2> QED
    BY <2>1, <2>2, FS_EmptySet DEF Init, SlotsConserved
<1> QED
  BY <1>1, RunTypeOK, SlotsInductive, PTL DEF Spec
-------------------------------------------------------------------------------
(* The trip flag is set with the first refusal and by nothing else, and it *)
(* cannot change once the result has been read from it.                    *)
SignalInv ==
  /\ tripped <=> \E n \in Nodes : outcome[n] = "budget_exceeded"
  /\ result # NoResult => result.exceeded = tripped

LEMMA SignalInductive ==
  ASSUME TypeOK, OutcomeInv, BarrierInv, SignalInv, [Next]_vars
  PROVE  SignalInv'
<1> USE DEF TypeOK, SignalInv
<1>1. ASSUME NEW n \in Nodes, NEW o \in NodeOutcome, pc[n] # "done",
             pc' = [pc EXCEPT ![n] = "done"],
             outcome' = [outcome EXCEPT ![n] = o],
             tripped' <=> tripped \/ o = "budget_exceeded",
             UNCHANGED result
      PROVE  SignalInv'
  <2>1. outcome[n] = "none" BY <1>1 DEF OutcomeInv, NodeOutcome
  <2>2. result = NoResult BY <1>1 DEF BarrierInv
  <2>3. (\E m \in Nodes : outcome'[m] = "budget_exceeded") <=>
          tripped \/ o = "budget_exceeded"
    BY <1>1, <2>1
  <2> QED BY <1>1, <2>2, <2>3
<1>2. ASSUME NEW n \in Nodes, NodeStep(n) PROVE SignalInv'
  <2>1. CASE SkipOnAbort(n)
    BY <1>1, <2>1 DEF SkipOnAbort, FirstAt, Finish, NodeOutcome
  <2>2. CASE Trip(n) BY <1>1, <2>2 DEF Trip, Finish, NodeOutcome
  <2>3. CASE BuildRaises(n) BY <1>1, <2>3 DEF BuildRaises, Finish, NodeOutcome
  <2>4. CASE Succeed(n) BY <1>1, <2>4 DEF Succeed, Finish, NodeOutcome
  <2>5. CASE Fail(n) BY <1>1, <2>5 DEF Fail, Finish, NodeOutcome
  <2>6. CASE Enter(n) \/ TakeSlot(n) \/ Spawn(n)
    BY <2>6 DEF Enter, TakeSlot, Spawn
  <2> QED BY <1>2, <2>1, <2>2, <2>3, <2>4, <2>5, <2>6 DEF NodeStep
<1>3. CASE Return BY <1>3 DEF Return, NoResult
<1>4. CASE UNCHANGED <<outcome, tripped, result>> BY <1>4
<1> QED
  BY <1>2, <1>3, <1>4 DEF Next, EngineStep, CallerAbort, Terminated, vars

(* budget_exceeded in the result means that the budget refused a node: a   *)
(* caller's own abort, in any interleaving, never turns it on.             *)
THEOREM BudgetSignalIsExact == Spec => []BudgetSignalExact
<1>1. Init => SignalInv
  BY DEF Init, SignalInv
<1>2. TypeOK /\ OutcomeInv /\ BarrierInv /\ SignalInv /\ [Next]_vars => SignalInv'
  BY SignalInductive
<1>3. SignalInv => BudgetSignalExact
  BY DEF SignalInv, BudgetSignalExact
<1> QED
  BY <1>1, <1>2, <1>3, RunTypeOK, OrderInvHolds, BarrierInvHolds, PTL DEF Spec
================================================================================
