------------------------- MODULE MCPublicationGate -------------------------
(***************************************************************************)
(* The two implementations of PublicationGate in one run: the pipeline on  *)
(* the database, and the double that its tests run on.  An execution is    *)
(* that of one of them, chosen at the start.                               *)
(***************************************************************************)
EXTENDS PipelineRun, InMemoryPipeline, TLC

Symmetry ==
    Permutations(Run) \cup Permutations(Issue) \cup Permutations(Worker)
        \cup Permutations(Title)

VARIABLE part    \* the part the execution is of

PartInit ==
    /\ part \in {"pipeline", "double"}
    /\ Init /\ DoubleInit

PartNext ==
    \/ part = "pipeline" /\ Next /\ UNCHANGED <<part, doubleVars>>
    \/ part = "double" /\ DoubleNext /\ UNCHANGED <<part, vars>>

PartSpec == PartInit /\ [][PartNext]_<<part, vars, doubleVars>>
=============================================================================
