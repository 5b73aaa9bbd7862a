----------------------------- MODULE MCRetrieval -----------------------------
(***************************************************************************)
(* Values of the constants for the run of the searches.                    *)
(***************************************************************************)
EXTENDS Retrieval, TLC

OneDocument == [v \in Versions |-> CHOOSE d \in Documents : TRUE]

(* What leaves stale points behind, and what makes a job run again.        *)
PublishingCalls == {"stage", "publish", "switch", "clean", "registry"}

Symmetry == Permutations(Versions) \cup Permutations(Chunks)
=============================================================================
