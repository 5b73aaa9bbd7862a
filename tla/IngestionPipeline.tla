-------------------------- MODULE IngestionPipeline --------------------------
(***************************************************************************)
(* The ingestion pipeline: tasks that execute IngestionWorker.run_job over *)
(* the shared registry and the shared Qdrant collection, beside the API's  *)
(* uploads and deletions.                                                  *)
(*                                                                         *)
(* A task is a poll loop of worker_entrypoint (Pollers) or a background    *)
(* task that POST /documents adds when the API embeds a worker (Tasks).    *)
(* Every registry transaction and every Qdrant request is a step of its    *)
(* own, so everything else may happen between two of them.  The seven      *)
(* stages from validate to embed_sparse touch neither store but to report  *)
(* progress; they are one "prepare" stage here.  A stage event is merged   *)
(* with the read of the row that always follows it.                        *)
(***************************************************************************)
EXTENDS IngestionRegistry, ChunkStore

CONSTANTS
    Pollers,        \* poll loops, one per worker process
    Tasks,          \* slots for background tasks; {} unless the worker is embedded
    Deleters,       \* concurrent DELETE /documents/{id} requests
    FailingCalls,   \* the calls that may raise in this instance
    MaxCrashes      \* bound on crashes and escaped exceptions

ASSUME PipelineAssumption ==
    /\ Pollers \cap Tasks = {}
    /\ FailingCalls \subseteq {"prepare", "stage", "verify", "publish", "switch",
                               "clean", "discard", "registry", "vectors"}
    /\ MaxCrashes \in Nat

VARIABLES
    run,        \* the local state of every task
    deletion,   \* the local state of every delete request
    crashes     \* how many crashes have happened

vars == <<documentStatus, job, keys, points, run, deletion, crashes>>

Runners == Pollers \cup Tasks

FinishPc == {"finish_stage", "finish_verify", "finish_activate"}
ReportPc == {"start", "report_prepared", "report_staged", "report_verified"}
BeginPc == {"prepare", "stage", "verify", "publish"}   \* a stage is about to begin
RunPc == {"idle", "claim", "mark_indexing", "prepare", "stage", "verify", "publish",
          "switch", "clean", "report_succeeded", "finish_failed", "discard",
          "mark_failed", "report_failed", "report_retry"} \cup FinishPc \cup ReportPc

(* snap is the JobSnapshot the task works on, a copy of the row.           *)
Run == [pc        : RunPc,
        version   : Versions \cup {NoVersion},
        snap      : JobRow,
        staged    : BOOLEAN,
        published : BOOLEAN,
        rejected  : BOOLEAN]   \* the error is not a retryable one

IdleRun == [pc |-> "idle", version |-> NoVersion, snap |-> NoJob,
            staged |-> FALSE, published |-> FALSE, rejected |-> FALSE]

Deletion == [pc : {"idle", "vectors", "registry", "refused"},
             document : Documents \cup {NoVersion}]

IdleDeletion == [pc |-> "idle", document |-> NoVersion]

RunTypeOK ==
    /\ run \in [Runners -> Run]
    /\ \A r \in Runners : run[r].pc # "idle" => run[r].version \in Versions

DeletionTypeOK ==
    /\ deletion \in [Deleters -> Deletion]
    /\ \A x \in Deleters : deletion[x].pc # "idle" => deletion[x].document \in Documents

TypeOK ==
    /\ RegistryTypeOK
    /\ ChunkStoreTypeOK
    /\ RunTypeOK
    /\ DeletionTypeOK
    /\ crashes \in 0..MaxCrashes

Init ==
    /\ RegistryInit
    /\ ChunkStoreInit
    /\ run = [r \in Runners |-> IdleRun]
    /\ deletion = [x \in Deleters |-> IdleDeletion]
    /\ crashes = 0

At(r, pc) == run[r].pc = pc
Goto(r, pc) == run' = [run EXCEPT ![r].pc = pc]
Stop(r) == run' = [run EXCEPT ![r] = IdleRun]
MayFail(call) == call \in FailingCalls

onlyRun == <<deletion, crashes, keys>>

(* Where _fail goes first: cleanup_version=staged and not published        *)
AfterFailure(r) ==
    IF run[r].staged /\ ~run[r].published THEN "discard" ELSE "mark_failed"
-----------------------------------------------------------------------------
(* POST /documents.  With an embedded worker every accepted request, an    *)
(* idempotent hit too, adds a task that runs the job.  A conflicting key   *)
(* changes nothing.                                                        *)
Upload(v, k) ==
    /\ Accept(v, k)
    /\ IF Tasks = {}
       THEN UNCHANGED run
       ELSE \E t \in Tasks :
              /\ At(t, "idle")
              /\ run' = [run EXCEPT ![t] =
                           [IdleRun EXCEPT !.pc = "claim", !.version = v]]
    /\ UNCHANGED <<points, deletion, crashes>>

(* One turn of the poll loop that finds a job.                             *)
Poll(r, v) ==
    /\ At(r, "idle")
    /\ Recoverable(v)
    /\ run' = [run EXCEPT ![r] = [IdleRun EXCEPT !.pc = "claim", !.version = v]]
    /\ UNCHANGED <<registryVars, points, deletion, crashes>>

-----------------------------------------------------------------------------
(* Mutant of Claim: the snapshot is read before the row is updated.        *)
ClaimOldSnapshot(r) ==
    LET v == run[r].version IN
    /\ At(r, "claim")
    /\ ClaimJob(v)
    /\ run' = [run EXCEPT ![r].pc = "mark_indexing", ![r].snap = job[v]]
    /\ UNCHANGED <<documentStatus, points, onlyRun>>

Claim(r) ==
    LET v == run[r].version IN
    /\ At(r, "claim")
    /\ ClaimJob(v)
    /\ run' = [run EXCEPT ![r].pc = "mark_indexing", ![r].snap = ClaimedRow(v)]
    /\ UNCHANGED <<documentStatus, points, onlyRun>>

(* claim_job returned None, or a job that is already done.                 *)
SkipJob(r) ==
    LET v == run[r].version IN
    /\ At(r, "claim")
    /\ ClaimRefused(v) \/ job[v].status = "succeeded"
    /\ Stop(r)
    /\ UNCHANGED <<registryVars, points, deletion, crashes>>

(* claim_job returned a job that is out of attempts.  run_job tests the    *)
(* result for None and for SUCCEEDED only, and goes on with it.            *)
RunUnclaimed(r) ==
    LET v == run[r].version IN
    /\ At(r, "claim")
    /\ ReturnedUnclaimed(v) /\ job[v].status # "succeeded"
    /\ run' = [run EXCEPT ![r].pc = "mark_indexing", ![r].snap = job[v]]
    /\ UNCHANGED <<registryVars, points, deletion, crashes>>

(* Mutant of MarkIndexing: a re-run leaves the version active.             *)
MarkIndexingSkipped(r) ==
    /\ At(r, "mark_indexing")
    /\ Goto(r, "start")
    /\ UNCHANGED <<registryVars, points, deletion, crashes>>

MarkIndexing(r) ==
    /\ At(r, "mark_indexing")
    /\ SetDocumentStatus(run[r].version, "indexing")
    /\ Goto(r, "start")
    /\ UNCHANGED <<job, points, onlyRun>>

(* Mutant of NextStage: the registry switches before Qdrant publishes.     *)
NextStageUnpublished ==
    [start |-> "prepare", report_prepared |-> "stage",
     report_staged |-> "verify", report_verified |-> "switch"]

(* _set_progress(current, RUNNING, n), and the stage that comes next.      *)
NextStage == [start |-> "prepare", report_prepared |-> "stage",
              report_staged |-> "verify", report_verified |-> "publish"]

Report(r) ==
    LET snapshot == [run[r].snap EXCEPT !.status = "running"] IN
    /\ run[r].pc \in ReportPc
    /\ UpdateJob(run[r].version, snapshot)
    /\ run' = [run EXCEPT ![r].pc = NextStage[run[r].pc], ![r].snap = snapshot]
    /\ UNCHANGED <<documentStatus, points, onlyRun>>

(* _finish_stage(SUCCEEDED): the snapshot is read again from the row.      *)
NextReport == [finish_stage |-> "report_staged", finish_verify |-> "report_verified",
               finish_activate |-> "report_succeeded"]

FinishStage(r) ==
    /\ run[r].pc \in FinishPc
    /\ run' = [run EXCEPT ![r].pc = NextReport[run[r].pc],
                          ![r].snap = job[run[r].version]]
    /\ UNCHANGED <<registryVars, points, deletion, crashes>>

-----------------------------------------------------------------------------
(* validate, inspect, parse, normalize, chunk, embed_dense, embed_sparse.  *)
Prepare(r) ==
    /\ At(r, "prepare")
    /\ run' = [run EXCEPT ![r].pc = "report_prepared", ![r].snap = job[run[r].version]]
    /\ UNCHANGED <<registryVars, points, deletion, crashes>>

Stage(r) ==
    /\ At(r, "stage")
    /\ StageVersion(run[r].version, Chunks)
    /\ run' = [run EXCEPT ![r].pc = "finish_stage", ![r].staged = TRUE]
    /\ UNCHANGED <<documentStatus, job, onlyRun>>

Verify(r) ==
    /\ At(r, "verify")
    /\ VerifiesStaged(run[r].version)
    /\ Goto(r, "finish_verify")
    /\ UNCHANGED <<registryVars, points, deletion, crashes>>

(* vector_store.activate_version(cleanup_previous=False)                   *)
Publish(r) ==
    /\ At(r, "publish")
    /\ ActivateVersion(run[r].version)
    /\ run' = [run EXCEPT ![r].pc = "switch", ![r].published = TRUE]
    /\ UNCHANGED <<documentStatus, job, onlyRun>>

(* registry.activate_document_version: the authoritative switch            *)
Switch(r) ==
    /\ At(r, "switch")
    /\ ActivateDocumentVersion(run[r].version)
    /\ Goto(r, "clean")
    /\ UNCHANGED <<job, points, onlyRun>>

(* vector_store.deactivate_previous_versions; an error is only logged.     *)
Clean(r) ==
    /\ At(r, "clean")
    /\ \/ DeactivatePreviousVersions(run[r].version)
       \/ MayFail("clean") /\ UNCHANGED points
    /\ Goto(r, "finish_activate")
    /\ UNCHANGED <<documentStatus, job, onlyRun>>

(* Mutant of Succeed: SUCCEEDED is stored inside the try block, and the    *)
(* "complete" event that follows may raise.                                *)
SucceedInsideTry(r) ==
    /\ At(r, "report_succeeded")
    /\ UpdateJob(run[r].version, [run[r].snap EXCEPT !.status = "succeeded"])
    /\ \/ Stop(r)
       \/ MayFail("registry") /\ Goto(r, AfterFailure(r))
    /\ UNCHANGED <<documentStatus, points, onlyRun>>

(* _set_progress(current, SUCCEEDED, 100) and the "complete" event         *)
Succeed(r) ==
    /\ At(r, "report_succeeded")
    /\ UpdateJob(run[r].version, [run[r].snap EXCEPT !.status = "succeeded"])
    /\ Stop(r)
    /\ UNCHANGED <<documentStatus, points, onlyRun>>

-----------------------------------------------------------------------------
(* The failures run_job catches.  A Qdrant request that raises may have    *)
(* been applied; a staging request also in part.                           *)
PrepareFails(r) ==
    /\ At(r, "prepare") /\ MayFail("prepare")
    /\ \E rejected \in BOOLEAN :
         run' = [run EXCEPT ![r].pc = "finish_failed", ![r].rejected = rejected]
    /\ UNCHANGED <<registryVars, points, deletion, crashes>>

StageFails(r) ==
    /\ At(r, "stage") /\ MayFail("stage")
    /\ \E S \in SUBSET Chunks : StageVersion(run[r].version, S)
    /\ Goto(r, "finish_failed")
    /\ UNCHANGED <<documentStatus, job, onlyRun>>

VerifyFails(r) ==
    /\ At(r, "verify")
    /\ MayFail("verify") \/ ~VerifiesStaged(run[r].version)
    /\ Goto(r, "finish_failed")
    /\ UNCHANGED <<registryVars, points, deletion, crashes>>

PublishFails(r) ==
    /\ At(r, "publish") /\ MayFail("publish")
    /\ ActivateVersion(run[r].version) \/ UNCHANGED points
    /\ Goto(r, "finish_failed")
    /\ UNCHANGED <<documentStatus, job, onlyRun>>

SwitchFails(r) ==
    /\ At(r, "switch") /\ MayFail("switch")
    /\ Goto(r, "finish_failed")
    /\ UNCHANGED <<registryVars, points, deletion, crashes>>

(* A registry call inside the try block raises.  While a stage is open its *)
(* failure is recorded first; otherwise _fail follows at once, as it does  *)
(* when _begin_stage raises.                                               *)
RegistryFails(r) ==
    /\ MayFail("registry")
    /\ \/ run[r].pc \in FinishPc /\ Goto(r, "finish_failed")
       \/ run[r].pc \in (ReportPc \ {"start"}) \cup BeginPc /\ Goto(r, AfterFailure(r))
    /\ UNCHANGED <<registryVars, points, deletion, crashes>>

(* _finish_stage(FAILED)                                                   *)
FinishFailed(r) ==
    /\ At(r, "finish_failed")
    /\ run' = [run EXCEPT ![r].pc = AfterFailure(r), ![r].snap = job[run[r].version]]
    /\ UNCHANGED <<registryVars, points, deletion, crashes>>

Discard(r) ==
    /\ At(r, "discard")
    /\ DiscardVersion(run[r].version)
    /\ Goto(r, "mark_failed")
    /\ UNCHANGED <<documentStatus, job, onlyRun>>

(* discard_version raises inside the exception handler: the error leaves   *)
(* run_job, and the poll loop only logs it.                                *)
DiscardFails(r) ==
    /\ At(r, "discard") /\ MayFail("discard")
    /\ DiscardVersion(run[r].version) \/ UNCHANGED points
    /\ Stop(r)
    /\ UNCHANGED <<documentStatus, job, onlyRun>>

(* Mutant of MarkFailed: the version keeps its status.                     *)
MarkFailedSkipped(r) ==
    /\ At(r, "mark_failed")
    /\ Goto(r, "report_failed")
    /\ UNCHANGED <<registryVars, points, deletion, crashes>>

MarkFailed(r) ==
    /\ At(r, "mark_failed")
    /\ SetDocumentStatus(run[r].version, "failed")
    /\ Goto(r, "report_failed")
    /\ UNCHANGED <<job, points, onlyRun>>

ReportFailed(r) ==
    LET snapshot == [run[r].snap EXCEPT !.status = "failed"] IN
    /\ At(r, "report_failed")
    /\ UpdateJob(run[r].version, snapshot)
    /\ run' = [run EXCEPT ![r].pc = "report_retry", ![r].snap = snapshot]
    /\ UNCHANGED <<documentStatus, points, onlyRun>>

(* Mutant of RetryRow: every failure grants a fresh set of attempts.       *)
RetryRowForgiving(row, rejected) ==
    [row EXCEPT !.wait = RetryDelay(row.attempt_count), !.attempt_count = 0]

(* The second update of _fail: back off, or use up the attempts.           *)
RetryRow(row, rejected) ==
    IF ~rejected /\ row.attempt_count < MaxAttempts
    THEN [row EXCEPT !.wait = RetryDelay(row.attempt_count)]
    ELSE [row EXCEPT !.wait = 0, !.attempt_count = MaxAttempts]

ReportRetry(r) ==
    /\ At(r, "report_retry")
    /\ UpdateJob(run[r].version, RetryRow(run[r].snap, run[r].rejected))
    /\ Stop(r)
    /\ UNCHANGED <<documentStatus, points, onlyRun>>

(* The process dies, or an error leaves run_job outside its try block.     *)
Crash(r) ==
    /\ ~At(r, "idle")
    /\ crashes < MaxCrashes
    /\ crashes' = crashes + 1
    /\ Stop(r)
    /\ UNCHANGED <<registryVars, points, deletion>>

-----------------------------------------------------------------------------
(* DELETE /documents/{id}: get_document lets the request through unless    *)
(* the document is unknown (404) or shown as indexing (409).               *)
RequestDelete(x, d) ==
    /\ deletion[x].pc \in {"idle", "refused"}
    /\ ShownStatus(d) \notin {"none", "indexing"}
    /\ deletion' = [deletion EXCEPT ![x] = [pc |-> "vectors", document |-> d]]
    /\ UNCHANGED <<registryVars, points, run, crashes>>

RemoveVectors(x) ==
    /\ deletion[x].pc = "vectors"
    /\ DeleteDocumentPoints(deletion[x].document)
    /\ deletion' = [deletion EXCEPT ![x].pc = "registry"]
    /\ UNCHANGED <<registryVars, run, crashes>>

(* 503 DEPENDENCY_UNAVAILABLE                                              *)
RemoveVectorsFails(x) ==
    /\ deletion[x].pc = "vectors" /\ MayFail("vectors")
    /\ DeleteDocumentPoints(deletion[x].document) \/ UNCHANGED points
    /\ deletion' = [deletion EXCEPT ![x] = IdleDeletion]
    /\ UNCHANGED <<registryVars, run, crashes>>

CommitDelete(x) ==
    /\ deletion[x].pc = "registry"
    /\ MarkDeleted(deletion[x].document)
    /\ deletion' = [deletion EXCEPT ![x] = IdleDeletion]
    /\ UNCHANGED <<job, keys, points, run, crashes>>

(* 409 DOCUMENT_BUSY from the registry                                     *)
RefuseDelete(x) ==
    /\ deletion[x].pc = "registry"
    /\ Busy(deletion[x].document)
    /\ deletion' = [deletion EXCEPT ![x].pc = "refused"]
    /\ UNCHANGED <<registryVars, points, run, crashes>>

-----------------------------------------------------------------------------
Tick ==
    /\ job' = [v \in Versions |-> Aged(job[v])]
    /\ run' = [r \in Runners |-> [run[r] EXCEPT !.snap = Aged(run[r].snap)]]
    /\ UNCHANGED <<documentStatus, keys, points, deletion, crashes>>

(* What a task does by itself, once it has a job.                          *)
RunStep(r) ==
    \/ Claim(r) \/ SkipJob(r) \/ RunUnclaimed(r)
    \/ MarkIndexing(r) \/ Report(r) \/ FinishStage(r)
    \/ Prepare(r) \/ Stage(r) \/ Verify(r) \/ Publish(r) \/ Switch(r)
    \/ Clean(r) \/ Succeed(r)
    \/ PrepareFails(r) \/ StageFails(r) \/ VerifyFails(r) \/ PublishFails(r)
    \/ SwitchFails(r) \/ RegistryFails(r) \/ FinishFailed(r)
    \/ Discard(r) \/ DiscardFails(r)
    \/ MarkFailed(r) \/ ReportFailed(r) \/ ReportRetry(r)

DeleteStep(x) ==
    \/ RemoveVectors(x) \/ RemoveVectorsFails(x)
    \/ CommitDelete(x) \/ RefuseDelete(x)

Next ==
    \/ \E v \in Versions, k \in Keys \cup {NoKey} : Upload(v, k)
    \/ \E r \in Pollers, v \in Versions : Poll(r, v)
    \/ \E r \in Runners : RunStep(r) \/ Crash(r)
    \/ \E x \in Deleters, d \in Documents : RequestDelete(x, d)
    \/ \E x \in Deleters : DeleteStep(x)
    \/ Tick

Spec == Init /\ [][Next]_vars

(* A task that has a job keeps running it, a poll loop keeps polling, and  *)
(* the clock advances.  Nobody has to upload, to delete or to crash.       *)
Fairness ==
    /\ \A r \in Runners : WF_vars(RunStep(r))
    /\ \A r \in Pollers : WF_vars(\E v \in Versions : Poll(r, v))
    /\ WF_vars(Tick)

FairSpec == Spec /\ Fairness
=============================================================================
