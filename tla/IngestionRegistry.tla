-------------------------- MODULE IngestionRegistry --------------------------
(***************************************************************************)
(* SqliteIngestionRegistry: the durable rows the API process and the       *)
(* worker process share.  Each operator below is one SQLite transaction.   *)
(*                                                                         *)
(* Time is relative.  "age" is the time since last_attempt_at, counted up  *)
(* to StaleAfter; "wait" is the time left until next_attempt_at.  The code *)
(* compares the two timestamps with the clock in no other way, and treats  *)
(* a NULL last_attempt_at as old and a NULL next_attempt_at as due, so     *)
(* NULL is age = StaleAfter and wait = 0.                                  *)
(***************************************************************************)
EXTENDS CorpusIdentity, Naturals

CONSTANTS
    Keys,          \* Idempotency-Key header values
    NoKey,         \* the header is absent
    MaxAttempts,   \* max_attempts of every accepted row (3)
    StaleAfter,    \* stale_after_seconds (300)
    MaxBackoff     \* upper bound of the retry delay (300)

ASSUME RegistryAssumption ==
    /\ NoKey \notin Keys
    /\ MaxAttempts \in Nat \ {0}
    /\ StaleAfter \in Nat \ {0}
    /\ MaxBackoff \in Nat \ {0}

VARIABLES
    documentStatus,   \* document_status of the version's row
    job,              \* the job columns of the version's row
    keys              \* the idempotency_keys table

registryVars == <<documentStatus, job, keys>>

DocumentStatus == {"indexing", "active", "failed", "deleted"}
JobStatus == {"queued", "running", "succeeded", "failed"}

(* "none" stands for a row that does not exist.                            *)
JobRow == [status        : JobStatus \cup {"none"},
           attempt_count : 0..MaxAttempts,
           wait          : 0..MaxBackoff,
           age           : 0..StaleAfter]

NoJob == [status |-> "none", attempt_count |-> 0, wait |-> 0, age |-> StaleAfter]

RegistryTypeOK ==
    /\ documentStatus \in [Versions -> DocumentStatus \cup {"none"}]
    /\ job \in [Versions -> JobRow]
    /\ keys \in [Keys -> Versions \cup {NoVersion}]

RegistryInit ==
    /\ documentStatus = [v \in Versions |-> "none"]
    /\ job = [v \in Versions |-> NoJob]
    /\ keys = [k \in Keys |-> NoVersion]

Stored(v) == job[v].status # "none"

-----------------------------------------------------------------------------
(* Mutant of KeyConflict: the key is looked up but not compared.           *)
KeyNeverConflicts(v, k) == FALSE

(* accept: the key belongs to another upload, 409 INGESTION_CONFLICT.      *)
KeyConflict(v, k) == k \in Keys /\ keys[k] \notin {v, NoVersion}

(* accept: record the key, and the row unless the identity has one.  A     *)
(* stored identity is an idempotent hit whatever its status.               *)
Accept(v, k) ==
    /\ ~KeyConflict(v, k)
    /\ keys' = [i \in Keys |-> IF i = k THEN v ELSE keys[i]]
    /\ job' = [job EXCEPT ![v] =
                 IF Stored(v) THEN job[v] ELSE [NoJob EXCEPT !.status = "queued"]]
    /\ documentStatus' = [documentStatus EXCEPT ![v] =
                 IF Stored(v) THEN documentStatus[v] ELSE "indexing"]

-----------------------------------------------------------------------------
(* Still leased to the attempt that claimed it last.                       *)
Leased(v) == job[v].status = "running" /\ job[v].age < StaleAfter

Exhausted(v) == job[v].attempt_count >= MaxAttempts

(* Mutant of Recoverable: interrupted jobs are not listed.                 *)
RecoverableUnlessRunning(v) ==
    job[v].status \in {"queued", "failed"} /\ ~Exhausted(v) /\ job[v].wait = 0

(* list_recoverable_jobs returns v.  The order of the rows and the LIMIT   *)
(* applied before the Python filter are left out: any due job may be next. *)
Recoverable(v) ==
    /\ job[v].status \in {"queued", "failed", "running"}
    /\ ~Exhausted(v)
    /\ job[v].wait = 0
    /\ ~Leased(v)

(* Mutant of ReturnedUnclaimed: the attempts are not checked.              *)
ReturnedUnclaimedIfDone(v) == job[v].status = "succeeded"

(* claim_job hands the row back unchanged: it is done, or out of attempts. *)
ReturnedUnclaimed(v) == job[v].status = "succeeded" \/ Exhausted(v)

(* claim_job returns None.                                                 *)
ClaimRefused(v) == ~ReturnedUnclaimed(v) /\ (job[v].wait > 0 \/ Leased(v))

(* Mutant of ClaimedRow: the claim counts but does not mark the row.       *)
ClaimedRowUnmarked(v) ==
    [job[v] EXCEPT !.attempt_count = @ + 1, !.wait = 0, !.age = 0]

ClaimedRow(v) == [status |-> "running", attempt_count |-> job[v].attempt_count + 1,
                  wait |-> 0, age |-> 0]

ClaimJob(v) ==
    /\ Stored(v)
    /\ ~ReturnedUnclaimed(v)
    /\ ~ClaimRefused(v)
    /\ job' = [job EXCEPT ![v] = ClaimedRow(v)]

(* update_job: the caller's snapshot overwrites the row.                   *)
UpdateJob(v, snapshot) == job' = [job EXCEPT ![v] = snapshot]

-----------------------------------------------------------------------------
(* Mutant of SetDocumentStatus: UPDATE ... WHERE document_id = ?           *)
SetStatusOfDocument(v, s) ==
    documentStatus' = [w \in Versions |->
        IF DocumentOf[w] = DocumentOf[v] /\ Stored(w) THEN s ELSE documentStatus[w]]

SetDocumentStatus(v, s) == documentStatus' = [documentStatus EXCEPT ![v] = s]

(* Mutant of ActivateDocumentVersion: the sibling is not retired.          *)
ActivateAlone(v) == documentStatus' = [documentStatus EXCEPT ![v] = "active"]

(* activate_document_version: one transaction retires the active sibling   *)
(* and activates v, whatever the status of v.                              *)
ActivateDocumentVersion(v) ==
    documentStatus' = [w \in Versions |->
        IF w = v THEN "active"
        ELSE IF w \in OtherVersions(v) /\ documentStatus[w] = "active" THEN "deleted"
        ELSE documentStatus[w]]

ActiveVersions(d) == {v \in VersionsOf(d) : documentStatus[v] = "active"}

(* The document status get_document shows: active before indexing before   *)
(* failed before deleted.                                                  *)
ShownStatus(d) ==
    LET statuses == {documentStatus[v] : v \in VersionsOf(d)} IN
    IF "active" \in statuses THEN "active"
    ELSE IF "indexing" \in statuses THEN "indexing"
    ELSE IF "failed" \in statuses THEN "failed"
    ELSE IF "deleted" \in statuses THEN "deleted"
    ELSE "none"

Busy(d) == \E v \in VersionsOf(d) : job[v].status \in {"queued", "running"}

(* delete_document after its busy check.  The job columns stay as they are.*)
MarkDeleted(d) ==
    /\ ~Busy(d)
    /\ documentStatus' = [v \in Versions |->
         IF v \in VersionsOf(d) /\ Stored(v) THEN "deleted" ELSE documentStatus[v]]

-----------------------------------------------------------------------------
(* The retry delay of _fail: 2 ^ (attempt_count - 1), capped.              *)
RetryDelay(n) ==
    LET d == 2 ^ (IF n > 1 THEN n - 1 ELSE 0) IN
    IF d \in 1..MaxBackoff THEN d ELSE MaxBackoff

(* One unit of time passes for a row or for a copy of a row.               *)
Aged(row) ==
    [status        |-> row.status,
     attempt_count |-> row.attempt_count,
     wait          |-> IF row.wait > 0 THEN row.wait - 1 ELSE 0,
     age           |-> IF row.age < StaleAfter THEN row.age + 1 ELSE StaleAfter]
=============================================================================
