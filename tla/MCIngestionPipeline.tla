------------------------ MODULE MCIngestionPipeline ------------------------
(***************************************************************************)
(* Values of the constants for the runs of the ingestion pipeline.         *)
(***************************************************************************)
EXTENDS IngestionProperties, TLC

(* Every version is a version of the same document: one PDF ingested under *)
(* several pipeline configurations.                                        *)
OneDocument == [v \in Versions |-> CHOOSE d \in Documents : TRUE]

AllCalls == {"prepare", "stage", "verify", "publish", "switch", "clean",
             "discard", "registry", "vectors"}

(* The failures that _fail handles before the registry switch.             *)
CallsBeforeSwitch == {"prepare", "stage", "verify", "publish", "switch", "clean"}

Symmetry == Permutations(Versions) \cup Permutations(Chunks) \cup Permutations(Tasks)
=============================================================================
