------------------------- MODULE IngestionProperties -------------------------
(***************************************************************************)
(* What the ingestion pipeline promises.                                   *)
(***************************************************************************)
EXTENDS IngestionPipeline

Idle(v) == \A r \in Runners : At(r, "idle") \/ run[r].version # v

(* At most one version of a document is active in the registry, whichever  *)
(* tasks overlap and wherever they crash: the pointer every search is      *)
(* filtered by (active_version_ids) never depends on its tie-break.        *)
AtMostOneActive ==
    \A v, w \in Versions :
        /\ DocumentOf[v] = DocumentOf[w]
        /\ documentStatus[v] = "active"
        /\ documentStatus[w] = "active"
        => v = w

(* A version the registry calls active has every point in Qdrant, and      *)
(* published: a search is never filtered down to a version that is half    *)
(* staged, hidden again by a re-run, or cleaned up by a sibling.           *)
ActiveServable ==
    \A v \in Versions : documentStatus[v] = "active" => FullyActive(v)

(* The pipeline implements ServedVersion: served from the registry's       *)
(* active versions, out of the versions Qdrant holds in full and published.*)
Readers == INSTANCE ServedVersion WITH
    served <- [d \in Documents |-> ActiveVersions(d)],
    whole  <- {v \in Versions : FullyActive(v)}

ServesWholeVersions == Readers!Spec

(* With deletions going on: an active version is searchable in full or not *)
(* at all, never in part.                                                  *)
ActiveIsWhole ==
    \A v \in Versions : documentStatus[v] = "active" => FullyActive(v) \/ NoPoints(v)

(* Between two runs of a job its row and its version agree: a finished job *)
(* has published its version (a later one may have replaced it), a failed  *)
(* one has not, a queued one has not been touched.                         *)
StatusCoherent ==
    \A v \in Versions : Idle(v) =>
        /\ job[v].status = "succeeded" => documentStatus[v] \in {"active", "deleted"}
        /\ job[v].status = "failed" => documentStatus[v] \in {"failed", "deleted"}
        /\ job[v].status = "queued" => documentStatus[v] = "indexing"

(* A succeeded job stays succeeded: no retry and no late write of another  *)
(* attempt takes it back.                                                  *)
SucceededIsFinal ==
    [][\A v \in Versions :
         job[v].status = "succeeded" => job'[v].status = "succeeded"]_vars

(* An attempt once counted stays counted: the snapshots the worker writes  *)
(* back never roll attempt_count back, so a job is claimed at most         *)
(* max_attempts times.                                                     *)
AttemptsNeverLost ==
    [][\A v \in Versions : job'[v].attempt_count >= job[v].attempt_count]_vars

(* While a task works on a version its document is busy, so the check of   *)
(* delete_document cannot pass under a running ingestion.  Only the last   *)
(* update of a failed run comes after the job is shown as failed.          *)
BusyWhileWorking ==
    \A r \in Runners :
        run[r].pc \notin {"idle", "claim", "report_retry"} => Busy(DocumentOf[run[r].version])

(* ADR-003: a failed job does not change the old active version.  When one *)
(* version of a document was published and the jobs of all its other       *)
(* versions have failed or were never queued, it is still the active one.  *)
FailedJobKeepsActive ==
    \A v \in Versions :
        /\ job[v].status = "succeeded"
        /\ \A w \in OtherVersions(v) : job[w].status \in {"none", "failed"} /\ Idle(w)
        => documentStatus[v] = "active"

(* DELETE answers 409 DOCUMENT_BUSY without touching the document: its     *)
(* active version can still be searched.                                   *)
RefusedDeleteKeepsPoints ==
    \A x \in Deleters :
        deletion[x].pc = "refused" =>
            \A v \in ActiveVersions(deletion[x].document) : FullyActive(v)

(* An Idempotency-Key names one stored upload for ever: it is never bound  *)
(* to another, and never to a row that does not exist (the RuntimeError of *)
(* _receipt_for_identity is unreachable).                                  *)
KeysPinned ==
    [][\A k \in Keys : keys[k] # NoVersion =>
         keys'[k] = keys[k] /\ job'[keys[k]].status # "none"]_vars

-----------------------------------------------------------------------------
Terminal(v) == job[v].status \in {"succeeded", "failed"}

(* Every accepted job is worked on until it succeeds or has no attempt     *)
(* left: neither a crash nor a backoff nor a lease can strand it earlier.  *)
JobsAreWorkedOff ==
    \A v \in Versions :
        Stored(v) ~> (job[v].status = "succeeded" \/ Exhausted(v))

(* run_job: "Process one job and persist a terminal success/failure        *)
(* snapshot".  Every accepted job reaches a terminal status for good.      *)
JobsTerminate == \A v \in Versions : Stored(v) ~> [](Terminal(v) /\ Idle(v))
=============================================================================
