-------------------------------- MODULE FanOut --------------------------------
(***************************************************************************)
(* What a fan-out promises its caller, whatever the engine does inside:    *)
(* every node of the spec is settled exactly once, the call returns only   *)
(* behind the barrier of all nodes, and the verdict is "error" exactly     *)
(* when no node succeeded.                                                 *)
(***************************************************************************)
CONSTANT Nodes

VARIABLES settled,   \* per node: none, success or failure
          verdict    \* none until the call returns

vars == <<settled, verdict>>

Init ==
  /\ settled = [n \in Nodes |-> "none"]
  /\ verdict = "none"

Settle(n) ==
  /\ verdict = "none"
  /\ settled[n] = "none"
  /\ \E s \in {"success", "failure"} : settled' = [settled EXCEPT ![n] = s]
  /\ UNCHANGED verdict

Close ==
  /\ verdict = "none"
  /\ \A n \in Nodes : settled[n] # "none"
  /\ verdict' = IF \A n \in Nodes : settled[n] # "success"
                THEN "error" ELSE "success"
  /\ UNCHANGED settled

Next == Close \/ \E n \in Nodes : Settle(n)

Spec == Init /\ [][Next]_vars
FairSpec == Spec /\ WF_vars(Next)
================================================================================
