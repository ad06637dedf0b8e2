---------------------------- MODULE MCFlowScheduler ----------------------------
EXTENDS FlowScheduler

\* Flow f: a and b in parallel, merged by c; flow g: one node, on the claw
\* session of b.
MCNodes == {"a", "b", "c", "d"}
MCFlowOf == [n \in MCNodes |-> IF n = "d" THEN "g" ELSE "f"]
MCSessionOf == [a |-> "e1", b |-> "k1", c |-> "e2", d |-> "k1"]
MCEdges == {<<"a", "c">>, <<"b", "c">>}
MCMaxRuns == [f |-> 1, g |-> 1]
MCConditional == {<<"a", "c">>}
================================================================================
