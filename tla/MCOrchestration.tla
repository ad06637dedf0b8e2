--------------------------- MODULE MCOrchestration ---------------------------
EXTENDS Orchestration, TLC

CONSTANTS a1, a2, a3, o1, e1, e2, p3, x, y

MCRequests == {o1, e1, e2, p3}
MCKind == o1 :> "orchestrate" @@ e1 :> "execute" @@ e2 :> "execute" @@ p3 :> "parallel"
MCAgentOf == o1 :> a1 @@ e1 :> a1 @@ e2 :> a2 @@ p3 :> a3
MCBranches == o1 :> {x, y} @@ e1 :> {} @@ e2 :> {} @@ p3 :> {x}
==============================================================================
