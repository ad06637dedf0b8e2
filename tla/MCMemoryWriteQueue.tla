-------------------------- MODULE MCMemoryWriteQueue --------------------------
(* Instances of MemoryWriteQueue: two agents with turns and fired tasks of *)
(* their own, and one agent with nothing but fired tasks.                  *)
EXTENDS MemoryWriteQueue

CONSTANTS a1, a2, t1, t2, f1, f2, f3

TwoAgents == t1 :> a1 @@ t2 :> a1 @@ f1 :> a1 @@ f2 :> a2
OneAgent == f1 :> a1 @@ f2 :> a1 @@ f3 :> a1
================================================================================
