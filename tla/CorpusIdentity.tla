--------------------------- MODULE CorpusIdentity ---------------------------
(***************************************************************************)
(* The identities every component of the service shares.  An upload is     *)
(* identified by (tenant_id, content_hash, pipeline_fingerprint); the      *)
(* triple determines the version id and the job id of its registry row, so *)
(* one value v \in Versions stands for all three.  The document id hashes  *)
(* tenant and content only: versions of one document are one PDF ingested  *)
(* under different pipeline configurations.                                *)
(***************************************************************************)
CONSTANTS
    Versions,      \* upload identities
    Documents,     \* document ids
    DocumentOf,    \* the document each version belongs to
    Chunks,        \* the child chunks the chunker derives from the PDF
    NoVersion      \* "no version": an idle task, an unused Idempotency-Key

ASSUME IdentityAssumption ==
    /\ DocumentOf \in [Versions -> Documents]
    /\ NoVersion \notin Versions
    /\ Chunks # {}

VersionsOf(d) == {v \in Versions : DocumentOf[v] = d}

OtherVersions(v) == VersionsOf(DocumentOf[v]) \ {v}
=============================================================================
