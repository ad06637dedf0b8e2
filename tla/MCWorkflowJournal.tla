--------------------------- MODULE MCWorkflowJournal ---------------------------
(* Instances of WorkflowJournal: the nodes and keys of each run.           *)
EXTENDS WorkflowJournal, TLC

CONSTANTS r1, r2, a, b, c

OneRun == (a :> r1) @@ (b :> r1) @@ (c :> r1)
OneKeys == (a :> 1) @@ (b :> 2) @@ (c :> 3)

TwoRuns == (a :> r1) @@ (b :> r2)
TwoKeys == (a :> 1) @@ (b :> 2)
================================================================================
