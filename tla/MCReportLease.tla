--------------------------- MODULE MCReportLease ---------------------------
(***************************************************************************)
(* Instances of ReportLease for TLC.  Reports and workers are              *)
(* interchangeable: no definition orders or distinguishes them.            *)
(***************************************************************************)
EXTENDS ReportLease, TLC

Symmetry == Permutations(Report) \cup Permutations(Worker)
=============================================================================
