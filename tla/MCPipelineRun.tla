--------------------------- MODULE MCPipelineRun ---------------------------
(***************************************************************************)
(* Instances of PipelineRun for TLC.  Runs, issues and workers are         *)
(* interchangeable: no definition orders or distinguishes them.            *)
(***************************************************************************)
EXTENDS PipelineRun, TLC

Symmetry ==
    Permutations(Run) \cup Permutations(Issue) \cup Permutations(Worker)
=============================================================================
