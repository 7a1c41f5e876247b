--------------------------- MODULE MCPipelineRuns ---------------------------
(* Model values for TLC: chains of two work steps, finish_run and one       *)
(* diagnostic, under different kinds of services and faults.                *)
EXTENDS PipelineRuns

MCSteps == 2 .. 3

AllDirect == [s \in MCSteps |-> "direct"]
SecondInTxn == [s \in MCSteps |-> IF s = 3 THEN "txn" ELSE "direct"]
=============================================================================
