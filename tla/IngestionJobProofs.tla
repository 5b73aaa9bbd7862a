-------------------------- MODULE IngestionJobProofs --------------------------
(***************************************************************************)
(* Theorems about the job rows of the ingestion pipeline: what the worker  *)
(* writes back, and how a row agrees with its version and its points.      *)
(* They hold for one poll loop with any number of deletions beside it;     *)
(* ActiveNeverPartial for one task of either kind; FailureKeepsActive only *)
(* where nothing disturbs the worker.                                      *)
(***************************************************************************)
EXTENDS IngestionProofs

-----------------------------------------------------------------------------
(* One worker process and no embedded worker, the deployment of            *)
(* compose.yaml.  Requests to delete come and go.                          *)
SolePoller == Tasks = {} /\ \A q, r \in Pollers : q = r

(* The task r is past claim_job.                                           *)
Working(r) == run[r].pc \notin {"idle", "claim"}

AfterSwitch == {"clean", "finish_activate", "report_succeeded"}

(* The task's snapshot has the attempts of its row, and the row's status   *)
(* says that somebody works on it until _fail reports the failure.  What   *)
(* was recoverable when it was polled is recoverable when it is claimed.   *)
SnapInv(r) ==
    /\ At(r, "claim") => Recoverable(run[r].version)
    /\ Working(r) =>
         /\ run[r].snap.attempt_count = job[run[r].version].attempt_count
         /\ At(r, "report_retry") =>
              job[run[r].version].status = "failed" /\ run[r].snap.status = "failed"
         /\ ~At(r, "report_retry") => job[run[r].version].status = "running"

(* A job that is not being worked on agrees with its version; where there  *)
(* is no row, there is no version and no attempt was counted.              *)
Coherent(v) ==
    /\ job[v].status = "none" => job[v].attempt_count = 0 /\ documentStatus[v] = "none"
    /\ job[v].status = "succeeded" => documentStatus[v] \in {"active", "deleted"}
    /\ job[v].status = "failed" => documentStatus[v] \in {"failed", "deleted"}
    /\ job[v].status = "queued" => documentStatus[v] = "indexing"

RestingCoherent ==
    \A v \in Versions :
        (\A r \in Runners : Working(r) => run[r].version # v) => Coherent(v)

(* What the task has made of its version when it reports.                  *)
VersionInv(r) ==
    /\ run[r].pc \in AfterSwitch => documentStatus[run[r].version] = "active"
    /\ At(r, "report_failed") => documentStatus[run[r].version] = "failed"
    /\ At(r, "report_retry") => documentStatus[run[r].version] \in {"failed", "deleted"}

JobInv == RestingCoherent /\ \A r \in Runners : SnapInv(r) /\ VersionInv(r)

-----------------------------------------------------------------------------
(* A job polled by the only poll loop is still there to be claimed.        *)
LEMMA ClaimSucceeds ==
    ASSUME TypeOK, NEW r \in Runners, SnapInv(r)
    PROVE  ~SkipJob(r) /\ ~RunUnclaimed(r)
<1> SUFFICES ASSUME At(r, "claim"), SkipJob(r) \/ RunUnclaimed(r) PROVE FALSE
  BY DEF SkipJob, RunUnclaimed
<1>1. Recoverable(run[r].version)
  BY DEF SnapInv
<1>2. run[r].version \in Versions
  BY DEF TypeOK, RunTypeOK, At
<1>3. job[run[r].version] \in JobRow
  BY <1>2 DEF TypeOK, RegistryTypeOK
<1> QED
  BY <1>1, <1>3, RegistryAssumption
  DEF SkipJob, RunUnclaimed, Recoverable, ReturnedUnclaimed, ClaimRefused, Exhausted, JobRow

LEMMA GotoKeepsSnap ==
    ASSUME RunTypeOK, NEW r \in Runners, NEW pc, Goto(r, pc)
    PROVE  run'[r].pc = pc /\ run'[r].version = run[r].version /\ run'[r].snap = run[r].snap
BY DEF RunTypeOK, Run, Goto

LEMMA GotoSetsSnap ==
    ASSUME RunTypeOK, NEW r \in Runners, NEW pc, NEW s,
           run' = [run EXCEPT ![r].pc = pc, ![r].snap = s]
    PROVE  run'[r].pc = pc /\ run'[r].version = run[r].version /\ run'[r].snap = s
BY DEF RunTypeOK, Run

(* A step between the claim and the first write of _fail that leaves the   *)
(* row alone: the snapshot stays, or is read again.                        *)
LEMMA KeepsSnapInv ==
    ASSUME NEW r \in Runners, SnapInv(r), Working(r), ~At(r, "report_retry"), UNCHANGED job,
           run'[r].version = run[r].version,
           run'[r].snap \in {run[r].snap, job[run[r].version]},
           run'[r].pc \notin {"idle", "claim", "report_retry"}
    PROVE  SnapInv(r)'
BY DEF SnapInv, Working, At

(* The steps of a working task that leave its row alone.                   *)
QuietWork(r) ==
    \/ MarkIndexing(r) \/ FinishStage(r) \/ Prepare(r) \/ Stage(r) \/ Verify(r) \/ Publish(r)
    \/ Switch(r) \/ Clean(r) \/ PrepareFails(r) \/ StageFails(r) \/ VerifyFails(r)
    \/ PublishFails(r) \/ SwitchFails(r) \/ RegistryFails(r) \/ FinishFailed(r) \/ Discard(r)
    \/ MarkFailed(r)

LEMMA QuietWorkSteps ==
    ASSUME TypeOK, NEW r \in Runners, QuietWork(r)
    PROVE  /\ Working(r) /\ ~At(r, "report_retry")
           /\ UNCHANGED job
           /\ run'[r].version = run[r].version
           /\ run'[r].snap \in {run[r].snap, job[run[r].version]}
           /\ run'[r].pc \notin {"idle", "claim", "report_retry"}
<1>0. RunTypeOK
  BY DEF TypeOK
<1>1. CASE MarkIndexing(r)
  BY <1>0, <1>1, GotoKeepsSnap DEF MarkIndexing, Working, At
<1>2. CASE FinishStage(r)
  <2>1. NextReport[run[r].pc] \in {"report_staged", "report_verified", "report_succeeded"}
    BY <1>2 DEF FinishStage, FinishPc, NextReport
  <2>2. /\ run'[r].pc = NextReport[run[r].pc]
        /\ run'[r].version = run[r].version
        /\ run'[r].snap = job[run[r].version]
    BY <1>0, <1>2 DEF FinishStage, RunTypeOK, Run
  <2> QED
    BY <1>2, <2>1, <2>2 DEF FinishStage, FinishPc, Working, At, registryVars
<1>3. CASE Prepare(r)
  <2>1. /\ run'[r].pc = "report_prepared"
        /\ run'[r].version = run[r].version
        /\ run'[r].snap = job[run[r].version]
    BY <1>0, <1>3 DEF Prepare, RunTypeOK, Run
  <2> QED
    BY <1>3, <2>1 DEF Prepare, Working, At, registryVars
<1>4. CASE Stage(r) \/ Publish(r)
  BY <1>0, <1>4 DEF Stage, Publish, Working, At, RunTypeOK, Run
<1>5. CASE Verify(r) \/ Switch(r) \/ Clean(r) \/ StageFails(r) \/ VerifyFails(r) \/ Discard(r)
  BY <1>0, <1>5, GotoKeepsSnap
  DEF Verify, Switch, Clean, StageFails, VerifyFails, Discard, Working, At, registryVars
<1>6. CASE PublishFails(r) \/ SwitchFails(r) \/ MarkFailed(r)
  BY <1>0, <1>6, GotoKeepsSnap
  DEF PublishFails, SwitchFails, MarkFailed, Working, At, registryVars
<1>7. CASE PrepareFails(r)
  BY <1>0, <1>7 DEF PrepareFails, Working, At, RunTypeOK, Run, registryVars
<1>8. CASE RegistryFails(r)
  <2>1. AfterFailure(r) \in {"discard", "mark_failed"}
    BY DEF AfterFailure
  <2>2. /\ UNCHANGED job
        /\ run[r].pc \in FinishPc \cup (ReportPc \ {"start"}) \cup BeginPc
        /\ Goto(r, "finish_failed") \/ Goto(r, AfterFailure(r))
    BY <1>8 DEF RegistryFails, registryVars
  <2> QED
    BY <1>0, <2>1, <2>2, GotoKeepsSnap DEF FinishPc, ReportPc, BeginPc, Working, At
<1>9. CASE FinishFailed(r)
  <2>1. AfterFailure(r) \in {"discard", "mark_failed"}
    BY DEF AfterFailure
  <2>2. /\ run'[r].pc = AfterFailure(r)
        /\ run'[r].version = run[r].version
        /\ run'[r].snap = job[run[r].version]
    BY <1>0, <1>9 DEF FinishFailed, RunTypeOK, Run
  <2> QED
    BY <1>9, <2>1, <2>2 DEF FinishFailed, Working, At, registryVars
<1> QED
  BY <1>1, <1>2, <1>3, <1>4, <1>5, <1>6, <1>7, <1>8, <1>9 DEF QuietWork

(* The steps of a task by which its row changes, or by which it stops.     *)
LEMMA TaskSteps ==
    ASSUME TypeOK, NEW r \in Runners, SnapInv(r), RunStep(r)
    PROVE  \/ QuietWork(r) \/ Claim(r) \/ Report(r) \/ ReportFailed(r)
           \/ Succeed(r) \/ DiscardFails(r) \/ ReportRetry(r)
BY ClaimSucceeds DEF RunStep, QuietWork

LEMMA SnapInvStep ==
    ASSUME TypeOK, NEW r \in Runners, SnapInv(r), RunStep(r)
    PROVE  SnapInv(r)'
<1> DEFINE v == run[r].version
<1>types. /\ RunTypeOK
          /\ job \in [Versions -> JobRow]
          /\ run[r].snap \in JobRow
          /\ ~At(r, "idle") => v \in Versions
  BY DEF TypeOK, RegistryTypeOK, RunTypeOK, Run, At
<1>1. CASE QuietWork(r)
  BY <1>1, QuietWorkSteps, KeepsSnapInv
<1>2. CASE Claim(r)
  <2>1. run'[r].pc = "mark_indexing" /\ run'[r].version = v /\ run'[r].snap = ClaimedRow(v)
    BY <1>2, <1>types, GotoSetsSnap DEF Claim
  <2>2. job'[v] = ClaimedRow(v)
    BY <1>2, <1>types DEF Claim, ClaimJob, At
  <2>3. ClaimedRow(v).status = "running"
    BY DEF ClaimedRow
  <2> QED
    BY <2>1, <2>2, <2>3 DEF SnapInv, Working, At
<1>3. CASE Report(r)
  <2> DEFINE s == [run[r].snap EXCEPT !.status = "running"]
  <2>1. run'[r].pc = NextStage[run[r].pc] /\ run'[r].version = v /\ run'[r].snap = s
    BY <1>3, <1>types, GotoSetsSnap DEF Report
  <2>2. run'[r].pc \in {"prepare", "stage", "verify", "publish"} /\ ~At(r, "idle")
    BY <1>3, <2>1 DEF Report, ReportPc, NextStage, At
  <2>3. job'[v] = s
    BY <1>3, <1>types, <2>2 DEF Report, UpdateJob
  <2>4. s.status = "running"
    BY <1>types DEF JobRow
  <2> HIDE DEF s
  <2> QED
    BY <2>1, <2>2, <2>3, <2>4 DEF SnapInv, Working, At
<1>4. CASE ReportFailed(r)
  <2> DEFINE s == [run[r].snap EXCEPT !.status = "failed"]
  <2>1. run'[r].pc = "report_retry" /\ run'[r].version = v /\ run'[r].snap = s
    BY <1>4, <1>types, GotoSetsSnap DEF ReportFailed
  <2>2. job'[v] = s
    BY <1>4, <1>types DEF ReportFailed, UpdateJob, At
  <2>3. s.status = "failed"
    BY <1>types DEF JobRow
  <2> HIDE DEF s
  <2> QED
    BY <2>1, <2>2, <2>3 DEF SnapInv, Working, At
<1>5. CASE Succeed(r) \/ DiscardFails(r) \/ ReportRetry(r)
  BY <1>5, <1>types
  DEF Succeed, DiscardFails, ReportRetry, Stop, IdleRun, SnapInv, Working, At, RunTypeOK
<1> QED
  BY <1>1, <1>2, <1>3, <1>4, <1>5, TaskSteps

(* What a task writes into its row, and that the row was not done.         *)
LEMMA TaskWrites ==
    ASSUME TypeOK, NEW r \in Runners, SnapInv(r), RunStep(r), ~QuietWork(r), ~DiscardFails(r),
           NEW v, v = run[r].version
    PROVE  /\ v \in Versions
           /\ job[v].status # "succeeded"
           /\ \E row \in JobRow :
                /\ job' = [job EXCEPT ![v] = row]
                /\ row.attempt_count >= job[v].attempt_count
                /\ Claim(r) \/ Report(r) => row.status = "running"
                /\ Succeed(r) => row.status = "succeeded"
                /\ ReportFailed(r) \/ ReportRetry(r) => row.status = "failed"
<1>types. /\ job \in [Versions -> JobRow]
          /\ run[r].snap \in JobRow /\ run[r].rejected \in BOOLEAN
          /\ ~At(r, "idle") => v \in Versions
  BY DEF TypeOK, RegistryTypeOK, RunTypeOK, Run, At
<1>1. CASE Claim(r)
  <2>1. v \in Versions /\ ~ReturnedUnclaimed(v) /\ job' = [job EXCEPT ![v] = ClaimedRow(v)]
    BY <1>1, <1>types DEF Claim, ClaimJob, At
  <2>2. ClaimedRow(v) \in JobRow
    BY <2>1, ClaimedRowType DEF TypeOK
  <2>3. ClaimedRow(v).status = "running" /\ ClaimedRow(v).attempt_count >= job[v].attempt_count
    BY <1>types, <2>1 DEF ClaimedRow, JobRow
  <2>4. ~Report(r) /\ ~Succeed(r) /\ ~ReportFailed(r) /\ ~ReportRetry(r)
    BY <1>1 DEF Claim, Report, Succeed, ReportFailed, ReportRetry, At, ReportPc
  <2> QED
    BY <2>1, <2>2, <2>3, <2>4 DEF ReturnedUnclaimed
<1>2. CASE Report(r) \/ Succeed(r) \/ ReportFailed(r)
  <2>1. Working(r) /\ ~At(r, "report_retry") /\ v \in Versions
    BY <1>2, <1>types DEF Report, Succeed, ReportFailed, Working, At, ReportPc
  <2>2. run[r].snap.attempt_count = job[v].attempt_count /\ job[v].status = "running"
    BY <2>1 DEF SnapInv
  <2>3. ~Claim(r) /\ ~ReportRetry(r)
    BY <2>1 DEF Claim, ReportRetry, Working, At
  <2>4. ASSUME NEW s \in JobStatus, UpdateJob(v, [run[r].snap EXCEPT !.status = s])
        PROVE  \E row \in JobRow :
                 /\ job' = [job EXCEPT ![v] = row]
                 /\ row.attempt_count >= job[v].attempt_count
                 /\ row.status = s
    <3>1. [run[r].snap EXCEPT !.status = s] \in JobRow
      BY <1>types, StatusType
    <3>2. /\ [run[r].snap EXCEPT !.status = s].attempt_count >= job[v].attempt_count
          /\ [run[r].snap EXCEPT !.status = s].status = s
      BY <1>types, <2>1, <2>2 DEF JobRow
    <3> QED
      BY <2>4, <3>1, <3>2 DEF UpdateJob
  <2>5. CASE Report(r)
    <3>1. ~Succeed(r) /\ ~ReportFailed(r)
      BY <2>5 DEF Report, Succeed, ReportFailed, At, ReportPc
    <3> QED
      BY <2>1, <2>2, <2>3, <2>4, <2>5, <3>1 DEF Report, JobStatus
  <2>6. CASE Succeed(r)
    <3>1. ~Report(r) /\ ~ReportFailed(r)
      BY <2>6 DEF Report, Succeed, ReportFailed, At, ReportPc
    <3> QED
      BY <2>1, <2>2, <2>3, <2>4, <2>6, <3>1 DEF Succeed, JobStatus
  <2>7. CASE ReportFailed(r)
    <3>1. ~Report(r) /\ ~Succeed(r)
      BY <2>7 DEF Report, Succeed, ReportFailed, At, ReportPc
    <3> QED
      BY <2>1, <2>2, <2>3, <2>4, <2>7, <3>1 DEF ReportFailed, JobStatus
  <2> QED
    BY <1>2, <2>5, <2>6, <2>7
<1>3. CASE ReportRetry(r)
  <2> DEFINE row == RetryRow(run[r].snap, run[r].rejected)
  <2>1. At(r, "report_retry") /\ v \in Versions /\ job' = [job EXCEPT ![v] = row]
    BY <1>3, <1>types DEF ReportRetry, UpdateJob, At
  <2>2. /\ run[r].snap.attempt_count = job[v].attempt_count
        /\ job[v].status = "failed" /\ run[r].snap.status = "failed"
    BY <2>1 DEF SnapInv, Working, At
  <2>3. row \in JobRow
    BY <1>types, RetryRowType
  <2>4. row.status = "failed" /\ row.attempt_count >= job[v].attempt_count
    BY <1>types, <2>2, RegistryAssumption DEF RetryRow, JobRow
  <2>5. ~Claim(r) /\ ~Report(r) /\ ~Succeed(r)
    BY <2>1 DEF Claim, Report, Succeed, At, ReportPc
  <2> HIDE DEF row
  <2> QED
    BY <2>1, <2>2, <2>3, <2>4, <2>5
<1> QED
  BY <1>1, <1>2, <1>3, TaskSteps

-----------------------------------------------------------------------------
LEMMA VersionInvStep ==
    ASSUME TypeOK, NEW r \in Runners, SnapInv(r), VersionInv(r), RunStep(r)
    PROVE  VersionInv(r)'
<1> DEFINE v == run[r].version
<1>types. /\ RunTypeOK
          /\ documentStatus \in [Versions -> DocumentStatus \cup {"none"}]
          /\ ~At(r, "idle") => v \in Versions
  BY DEF TypeOK, RegistryTypeOK, RunTypeOK, At
<1> USE DEF AfterSwitch
<1>1. CASE Switch(r)
  <2>1. run'[r].pc = "clean" /\ run'[r].version = v /\ documentStatus'[v] = "active"
    BY <1>1, <1>types, GotoKeepsSnap DEF Switch, ActivateDocumentVersion, At
  <2> QED
    BY <2>1 DEF VersionInv, At
<1>2. CASE Clean(r)
  <2>1. run'[r].pc = "finish_activate" /\ run'[r].version = v /\ UNCHANGED documentStatus
    BY <1>2, <1>types, GotoKeepsSnap DEF Clean
  <2>2. documentStatus[v] = "active"
    BY <1>2 DEF Clean, VersionInv, At
  <2> QED
    BY <2>1, <2>2 DEF VersionInv, At
<1>3. CASE FinishStage(r)
  <2>1. /\ run'[r].pc = NextReport[run[r].pc]
        /\ run'[r].version = v
        /\ UNCHANGED documentStatus
    BY <1>3, <1>types DEF FinishStage, RunTypeOK, Run, registryVars
  <2>2. /\ run'[r].pc \in {"report_staged", "report_verified", "report_succeeded"}
        /\ run'[r].pc = "report_succeeded" => run[r].pc = "finish_activate"
    BY <1>3, <2>1 DEF FinishStage, FinishPc, NextReport
  <2> QED
    BY <2>1, <2>2 DEF VersionInv, At
<1>4. CASE MarkFailed(r)
  <2>1. run'[r].pc = "report_failed" /\ run'[r].version = v /\ documentStatus'[v] = "failed"
    BY <1>4, <1>types, GotoKeepsSnap DEF MarkFailed, SetDocumentStatus, At
  <2> QED
    BY <2>1 DEF VersionInv, At
<1>5. CASE ReportFailed(r)
  <2>1. run'[r].pc = "report_retry" /\ run'[r].version = v /\ UNCHANGED documentStatus
    BY <1>5, <1>types DEF ReportFailed, RunTypeOK, Run
  <2> QED
    BY <1>5, <2>1 DEF ReportFailed, VersionInv, At
<1>6. CASE MarkIndexing(r) \/ Verify(r) \/ StageFails(r) \/ VerifyFails(r)
           \/ PublishFails(r) \/ SwitchFails(r) \/ Discard(r)
  <2>1. run'[r].pc \in {"start", "finish_verify", "finish_failed", "mark_failed"}
    BY <1>6, <1>types, GotoKeepsSnap
    DEF MarkIndexing, Verify, StageFails, VerifyFails, PublishFails, SwitchFails, Discard
  <2> QED
    BY <2>1 DEF VersionInv, At
<1>7. CASE RegistryFails(r) \/ FinishFailed(r)
  <2>1. AfterFailure(r) \in {"discard", "mark_failed"}
    BY DEF AfterFailure
  <2>2. run'[r].pc \in {"finish_failed", AfterFailure(r)}
    BY <1>7, <1>types DEF RegistryFails, FinishFailed, Goto, RunTypeOK, Run
  <2> QED
    BY <2>1, <2>2 DEF VersionInv, At
<1>8. CASE Claim(r) \/ Prepare(r) \/ PrepareFails(r) \/ Stage(r) \/ Publish(r)
  <2>1. run'[r].pc \in {"mark_indexing", "report_prepared", "finish_failed", "finish_stage", "switch"}
    BY <1>8, <1>types DEF Claim, Prepare, PrepareFails, Stage, Publish, RunTypeOK, Run
  <2> QED
    BY <2>1 DEF VersionInv, At
<1>9. CASE Report(r)
  <2>1. run'[r].pc = NextStage[run[r].pc]
    BY <1>9, <1>types DEF Report, RunTypeOK, Run
  <2>2. run'[r].pc \in {"prepare", "stage", "verify", "publish"}
    BY <1>9, <2>1 DEF Report, ReportPc, NextStage
  <2> QED
    BY <2>2 DEF VersionInv, At
<1>10. CASE Succeed(r) \/ DiscardFails(r) \/ ReportRetry(r)
  BY <1>10, <1>types
  DEF Succeed, DiscardFails, ReportRetry, Stop, IdleRun, VersionInv, At, RunTypeOK
<1> QED
  BY <1>1, <1>2, <1>3, <1>4, <1>5, <1>6, <1>7, <1>8, <1>9, <1>10, TaskSteps DEF QuietWork

(* A step of a task changes the status of its own version only, but for    *)
(* the switch, which retires active ones.                                  *)
LEMMA OtherVersionsKeep ==
    ASSUME TypeOK, NEW r \in Runners, SnapInv(r), RunStep(r),
           NEW w \in Versions, w # run[r].version
    PROVE  /\ job'[w] = job[w]
           /\ \/ documentStatus'[w] = documentStatus[w]
              \/ documentStatus[w] = "active" /\ documentStatus'[w] = "deleted"
<1>0. job \in [Versions -> JobRow] /\ documentStatus \in [Versions -> DocumentStatus \cup {"none"}]
  BY DEF TypeOK, RegistryTypeOK
<1>1. job'[w] = job[w]
  <2>1. CASE QuietWork(r) \/ DiscardFails(r)
    BY <2>1, QuietWorkSteps DEF DiscardFails
  <2>2. CASE ~QuietWork(r) /\ ~DiscardFails(r)
    BY <1>0, <2>2, TaskWrites
  <2> QED
    BY <2>1, <2>2
<1>2. CASE Switch(r)
  BY <1>0, <1>1, <1>2 DEF Switch, ActivateDocumentVersion
<1>3. CASE MarkIndexing(r) \/ MarkFailed(r)
  BY <1>0, <1>1, <1>3 DEF MarkIndexing, MarkFailed, SetDocumentStatus
<1>4. CASE ~Switch(r) /\ ~MarkIndexing(r) /\ ~MarkFailed(r)
  <2>1. UNCHANGED documentStatus
    BY <1>4
    DEF RunStep, Claim, SkipJob, RunUnclaimed, Report, FinishStage, Prepare, Stage, Verify,
        Publish, Clean, Succeed, PrepareFails, StageFails, VerifyFails, PublishFails,
        SwitchFails, RegistryFails, FinishFailed, Discard, DiscardFails, ReportFailed,
        ReportRetry, registryVars
  <2> QED
    BY <1>1, <2>1
<1> QED
  BY <1>2, <1>3, <1>4

(* When a task stops, its row and its version agree.                       *)
LEMMA StopsCoherent ==
    ASSUME TypeOK, NEW r \in Runners, SnapInv(r), VersionInv(r), RunStep(r), ~Working(r)',
           NEW v \in Versions, v = run[r].version
    PROVE  Coherent(v)'
<1>0. RunTypeOK /\ job \in [Versions -> JobRow]
  BY DEF TypeOK, RegistryTypeOK
<1>1. ~QuietWork(r)
  BY QuietWorkSteps DEF Working
<1>2. ~(Claim(r) \/ Report(r) \/ ReportFailed(r))
  <2>1. ~Claim(r) /\ ~ReportFailed(r)
    BY <1>0 DEF Claim, ReportFailed, Working, RunTypeOK, Run
  <2>2. SUFFICES ASSUME Report(r) PROVE FALSE
    BY <2>1
  <2>3. run'[r].pc = NextStage[run[r].pc]
    BY <1>0, <2>2 DEF Report, RunTypeOK, Run
  <2> QED
    BY <2>2, <2>3 DEF Report, ReportPc, NextStage, Working
<1>3. CASE Succeed(r)
  <2>1. documentStatus'[v] = "active"
    BY <1>3 DEF Succeed, VersionInv, At, AfterSwitch
  <2>2. job'[v].status = "succeeded"
    BY <1>0, <1>1, <1>3, TaskWrites DEF Succeed, DiscardFails, At
  <2> QED
    BY <2>1, <2>2 DEF Coherent
<1>4. CASE ReportRetry(r)
  <2>1. documentStatus'[v] \in {"failed", "deleted"}
    BY <1>4 DEF ReportRetry, VersionInv, At
  <2>2. job'[v].status = "failed"
    BY <1>0, <1>1, <1>4, TaskWrites DEF ReportRetry, DiscardFails, At
  <2> QED
    BY <2>1, <2>2 DEF Coherent
<1>5. CASE DiscardFails(r)
  <2>1. job'[v].status = "running"
    BY <1>5 DEF DiscardFails, SnapInv, Working, At
  <2> QED
    BY <2>1 DEF Coherent
<1> QED
  BY <1>1, <1>2, <1>3, <1>4, <1>5, TaskSteps

LEMMA RunStepCoherent ==
    ASSUME SolePoller, TypeOK, JobInv, NEW r \in Runners, RunStep(r)
    PROVE  JobInv'
<1>0. SnapInv(r) /\ VersionInv(r) /\ \A q \in Runners : q = r
  BY DEF JobInv, SolePoller, Runners
<1>1. SnapInv(r)' /\ VersionInv(r)'
  BY <1>0, SnapInvStep, VersionInvStep
<1>2. ASSUME NEW w \in Versions, Working(r)' => run'[r].version # w
      PROVE  Coherent(w)'
  <2>1. CASE w # run[r].version
    <3>1. Coherent(w)
      BY <1>0, <2>1 DEF JobInv, RestingCoherent
    <3> QED
      BY <1>0, <2>1, <3>1, OtherVersionsKeep DEF Coherent
  <2>2. CASE w = run[r].version
    <3>1. ~Working(r)'
      <4> SUFFICES ASSUME Working(r)' PROVE run'[r].version = w
        BY <1>2
      <4>1. CASE QuietWork(r)
        BY <2>2, <4>1, QuietWorkSteps
      <4>2. CASE Claim(r) \/ Report(r) \/ ReportFailed(r)
        BY <2>2, <4>2 DEF Claim, Report, ReportFailed, TypeOK, RunTypeOK, Run
      <4>3. CASE Succeed(r) \/ DiscardFails(r) \/ ReportRetry(r)
        BY <4>3 DEF Succeed, DiscardFails, ReportRetry, Stop, IdleRun, Working, TypeOK, RunTypeOK
      <4> QED
        BY <1>0, <4>1, <4>2, <4>3, TaskSteps
    <3> QED
      BY <1>0, <2>2, <3>1, StopsCoherent
  <2> QED
    BY <2>1, <2>2
<1> QED
  BY <1>0, <1>1, <1>2 DEF JobInv, RestingCoherent

-----------------------------------------------------------------------------
(* Tasks that did not move are judged by their rows alone.                 *)
LEMMA UploadCoherent ==
    ASSUME SolePoller, TypeOK, JobInv, NEW u \in Versions, NEW k \in Keys \cup {NoKey},
           Upload(u, k)
    PROVE  JobInv'
<1>0. /\ UNCHANGED run
      /\ job \in [Versions -> JobRow]
      /\ documentStatus \in [Versions -> DocumentStatus \cup {"none"}]
      /\ \A r \in Runners : ~At(r, "idle") => run[r].version \in Versions
  BY DEF Upload, SolePoller, TypeOK, RegistryTypeOK, RunTypeOK, At
<1>1. ASSUME NEW v \in Versions, Stored(v)
      PROVE  job'[v] = job[v] /\ documentStatus'[v] = documentStatus[v]
  BY <1>0, <1>1 DEF Upload, Accept
<1>2. ASSUME NEW v \in Versions, ~Stored(v)
      PROVE  Coherent(v)'
  <2>1. CASE v = u
    BY <1>0, <1>2, <2>1 DEF Upload, Accept, NoJob, Coherent
  <2>2. CASE v # u
    <3>1. job'[v] = job[v] /\ job[v].status = "none" /\ documentStatus'[v] = documentStatus[v]
      BY <1>0, <1>2, <2>2 DEF Upload, Accept, Stored
    <3>2. ASSUME NEW r \in Runners, Working(r) PROVE run[r].version # v
      BY <3>1, <3>2 DEF JobInv, SnapInv
    <3>3. job[v].attempt_count = 0 /\ documentStatus[v] = "none"
      BY <3>1, <3>2 DEF JobInv, RestingCoherent, Coherent
    <3> QED
      BY <3>1, <3>3 DEF Coherent
  <2> QED
    BY <2>1, <2>2
<1>3. ASSUME NEW r \in Runners, ~At(r, "idle")
      PROVE  Stored(run[r].version) /\ run[r].version \in Versions
  <2>1. SnapInv(r)
    BY DEF JobInv
  <2> QED
    BY <1>0, <1>3, <2>1 DEF SnapInv, Stored, Recoverable, Working, At
<1>4. ASSUME NEW r \in Runners
      PROVE  SnapInv(r)' /\ VersionInv(r)'
  <2>1. SnapInv(r) /\ VersionInv(r)
    BY DEF JobInv
  <2>2. CASE At(r, "idle")
    BY <1>0, <2>2 DEF SnapInv, VersionInv, Working, At, AfterSwitch
  <2>3. CASE ~At(r, "idle")
    <3>1. /\ job'[run[r].version] = job[run[r].version]
          /\ documentStatus'[run[r].version] = documentStatus[run[r].version]
      BY <1>1, <1>3, <2>3
    <3> QED
      BY <1>0, <2>1, <3>1
      DEF SnapInv, VersionInv, Working, At, Recoverable, Exhausted, Leased
  <2> QED
    BY <2>2, <2>3
<1>5. ASSUME NEW v \in Versions, \A r \in Runners : Working(r)' => run'[r].version # v
      PROVE  Coherent(v)'
  <2>1. CASE Stored(v)
    BY <1>0, <1>1, <1>5, <2>1 DEF JobInv, RestingCoherent, Coherent, Working
  <2> QED
    BY <1>2, <2>1
<1> QED
  BY <1>4, <1>5 DEF JobInv, RestingCoherent

LEMMA PollCoherent ==
    ASSUME SolePoller, TypeOK, JobInv, NEW r \in Pollers, NEW v \in Versions, Poll(r, v)
    PROVE  JobInv'
<1>0. r \in Runners /\ (\A q \in Runners : q = r) /\ UNCHANGED <<job, documentStatus>>
  BY DEF SolePoller, Runners, Poll, registryVars
<1>1. run'[r].pc = "claim" /\ run'[r].version = v
  BY <1>0 DEF Poll, IdleRun, TypeOK, RunTypeOK
<1>2. Recoverable(v)'
  BY <1>0 DEF Poll, Recoverable, Exhausted, Leased
<1>3. SnapInv(r)' /\ VersionInv(r)'
  BY <1>1, <1>2 DEF SnapInv, VersionInv, Working, At, AfterSwitch, Recoverable, Exhausted, Leased
<1>4. RestingCoherent'
  BY <1>0 DEF JobInv, RestingCoherent, Coherent, Poll, Working, At
<1> QED
  BY <1>0, <1>3, <1>4 DEF JobInv

LEMMA CrashCoherent ==
    ASSUME SolePoller, TypeOK, JobInv, NEW r \in Runners, Crash(r)
    PROVE  JobInv'
<1>0. (\A q \in Runners : q = r) /\ UNCHANGED <<job, documentStatus>>
  BY DEF SolePoller, Runners, Crash, registryVars
<1>1. run'[r].pc = "idle"
  BY DEF Crash, Stop, IdleRun, TypeOK, RunTypeOK
<1>2. SnapInv(r)' /\ VersionInv(r)'
  BY <1>1 DEF SnapInv, VersionInv, Working, At, AfterSwitch
<1>3. ASSUME NEW v \in Versions PROVE Coherent(v)
  <2>1. SnapInv(r) /\ VersionInv(r)
    BY DEF JobInv
  <2>2. CASE Working(r) /\ run[r].version = v
    BY <2>1, <2>2 DEF SnapInv, VersionInv, At, Coherent
  <2> QED
    BY <1>0, <2>2 DEF JobInv, RestingCoherent
<1> QED
  BY <1>0, <1>2, <1>3 DEF JobInv, RestingCoherent, Coherent

(* A deletion is committed only while no job of the document is queued or  *)
(* running, so no task is at work on it but for the last write of _fail.   *)
LEMMA CommitDeleteCoherent ==
    ASSUME TypeOK, JobInv, NEW x \in Deleters, CommitDelete(x)
    PROVE  JobInv'
<1> DEFINE d == deletion[x].document
<1>0. /\ UNCHANGED <<job, run>>
      /\ job \in [Versions -> JobRow]
      /\ \A v \in VersionsOf(d) : job[v].status \notin {"queued", "running"}
      /\ documentStatus' = [v \in Versions |->
            IF v \in VersionsOf(d) /\ Stored(v) THEN "deleted" ELSE documentStatus[v]]
  BY DEF CommitDelete, MarkDeleted, Busy, TypeOK, RegistryTypeOK
<1> HIDE DEF d
<1>1. ASSUME NEW v \in Versions, Coherent(v) PROVE Coherent(v)'
  <2>1. CASE v \in VersionsOf(d)
    BY <1>0, <1>1, <2>1 DEF Coherent, Stored
  <2>2. CASE v \notin VersionsOf(d)
    BY <1>0, <1>1, <2>2 DEF Coherent
  <2> QED
    BY <2>1, <2>2
<1>2. RestingCoherent'
  BY <1>0, <1>1 DEF JobInv, RestingCoherent, Working
<1>3. ASSUME NEW r \in Runners PROVE SnapInv(r)' /\ VersionInv(r)'
  <2>1. SnapInv(r) /\ VersionInv(r)
    BY DEF JobInv
  <2>2. SnapInv(r)'
    BY <1>0, <2>1 DEF SnapInv, Working, At, Recoverable, Exhausted, Leased
  <2>3. VersionInv(r)'
    <3>1. CASE run[r].pc \in AfterSwitch \cup {"report_failed"}
      <4>1. run[r].version \notin VersionsOf(d) /\ run[r].version \in Versions
        BY <1>0, <2>1, <3>1 DEF SnapInv, Working, At, AfterSwitch, TypeOK, RunTypeOK
      <4> QED
        BY <1>0, <2>1, <4>1 DEF VersionInv, At
    <3>2. CASE At(r, "report_retry")
      <4>1. run[r].version \in Versions
        BY <3>2 DEF At, TypeOK, RunTypeOK
      <4> QED
        BY <1>0, <2>1, <3>2, <4>1 DEF VersionInv, At, AfterSwitch
    <3> QED
      BY <1>0, <3>1, <3>2 DEF VersionInv, At
  <2> QED
    BY <2>2, <2>3
<1> QED
  BY <1>2, <1>3 DEF JobInv

LEMMA TickCoherent ==
    ASSUME TypeOK, JobInv, Tick
    PROVE  JobInv'
<1>0. /\ job \in [Versions -> JobRow]
      /\ \A v \in Versions : job'[v] = Aged(job[v])
      /\ UNCHANGED documentStatus
  BY DEF Tick, TypeOK, RegistryTypeOK
<1>1. ASSUME NEW v \in Versions
      PROVE  /\ job'[v].status = job[v].status
             /\ job'[v].attempt_count = job[v].attempt_count
             /\ job[v].wait = 0 => job'[v].wait = 0
             /\ job[v].age >= StaleAfter => job'[v].age = StaleAfter
             /\ job[v].age \in 0..StaleAfter
  <2>1. job[v] \in JobRow /\ job'[v] = Aged(job[v])
    BY <1>0
  <2>2. /\ Aged(job[v]).status = job[v].status
        /\ Aged(job[v]).attempt_count = job[v].attempt_count
        /\ Aged(job[v]).wait = IF job[v].wait > 0 THEN job[v].wait - 1 ELSE 0
        /\ Aged(job[v]).age = IF job[v].age < StaleAfter THEN job[v].age + 1 ELSE StaleAfter
    BY DEF Aged
  <2> QED
    BY <2>1, <2>2, RegistryAssumption DEF JobRow
<1>2. ASSUME NEW v \in Versions, Recoverable(v)
      PROVE  Recoverable(v)'
  BY <1>1, <1>2, RegistryAssumption DEF Recoverable, Exhausted, Leased
<1>3. ASSUME NEW r \in Runners
      PROVE  /\ run'[r].pc = run[r].pc
             /\ run'[r].version = run[r].version
             /\ run'[r].snap.status = run[r].snap.status
             /\ run'[r].snap.attempt_count = run[r].snap.attempt_count
  BY DEF Tick, Aged, TypeOK, RunTypeOK, Run
<1>4. ASSUME NEW r \in Runners PROVE SnapInv(r)' /\ VersionInv(r)'
  <2>1. SnapInv(r) /\ VersionInv(r)
    BY DEF JobInv
  <2>2. CASE At(r, "idle")
    BY <1>3, <2>2 DEF SnapInv, VersionInv, Working, At, AfterSwitch
  <2>3. CASE ~At(r, "idle")
    <3>1. run[r].version \in Versions
      BY <2>3 DEF At, TypeOK, RunTypeOK
    <3>2. PICK v \in Versions : v = run[r].version /\ v = run'[r].version
      BY <1>3, <3>1
    <3>3. CASE At(r, "claim")
      <4>1. Recoverable(v)'
        BY <1>2, <2>1, <3>2, <3>3 DEF SnapInv
      <4> QED
        BY <1>3, <3>2, <3>3, <4>1
        DEF SnapInv, VersionInv, Working, At, AfterSwitch, Recoverable, Exhausted, Leased
    <3>4. CASE ~At(r, "claim")
      <4>1. /\ job'[v].status = job[v].status
            /\ job'[v].attempt_count = job[v].attempt_count
            /\ documentStatus'[v] = documentStatus[v]
        BY <1>0, <1>1
      <4> QED
        BY <1>3, <2>1, <2>3, <3>2, <3>4, <4>1 DEF SnapInv, VersionInv, Working, At
    <3> QED
      BY <3>3, <3>4
  <2> QED
    BY <2>2, <2>3
<1>5. RestingCoherent'
  BY <1>0, <1>1, <1>3 DEF JobInv, RestingCoherent, Coherent, Working
<1> QED
  BY <1>4, <1>5 DEF JobInv

LEMMA SameRowsCoherent ==
    ASSUME JobInv, UNCHANGED <<documentStatus, job, run>>
    PROVE  JobInv'
BY DEF JobInv, RestingCoherent, Coherent, SnapInv, VersionInv, Working, At, Recoverable,
       Exhausted, Leased

LEMMA JobInvStep ==
    ASSUME SolePoller, TypeOK, JobInv, [Next]_vars
    PROVE  JobInv'
<1>1. CASE \E v \in Versions, k \in Keys \cup {NoKey} : Upload(v, k)
  BY <1>1, UploadCoherent
<1>2. CASE \E r \in Pollers, v \in Versions : Poll(r, v)
  BY <1>2, PollCoherent
<1>3. CASE \E r \in Runners : RunStep(r) \/ Crash(r)
  BY <1>3, RunStepCoherent, CrashCoherent
<1>4. CASE \E x \in Deleters, d \in Documents : RequestDelete(x, d)
  BY <1>4, SameRowsCoherent DEF RequestDelete, registryVars
<1>5. CASE \E x \in Deleters : DeleteStep(x)
  <2>1. PICK x \in Deleters : DeleteStep(x)
    BY <1>5
  <2>2. CASE CommitDelete(x)
    BY <2>2, CommitDeleteCoherent
  <2>3. CASE ~CommitDelete(x)
    BY <2>1, <2>3, SameRowsCoherent
    DEF DeleteStep, RemoveVectors, RemoveVectorsFails, RefuseDelete, registryVars
  <2> QED
    BY <2>2, <2>3
<1>6. CASE Tick
  BY <1>6, TickCoherent
<1>7. CASE UNCHANGED vars
  BY <1>7, SameRowsCoherent DEF vars
<1> QED
  BY <1>1, <1>2, <1>3, <1>4, <1>5, <1>6, <1>7 DEF Next

LEMMA JobInvHolds == ASSUME SolePoller PROVE Spec => []JobInv
<1>1. Init => JobInv
  BY DEF Init, RegistryInit, NoJob, IdleRun, JobInv, RestingCoherent, Coherent, SnapInv,
         VersionInv, Working, At, AfterSwitch
<1>2. TypeOK /\ JobInv /\ [Next]_vars => JobInv'
  BY JobInvStep
<1> QED
  BY <1>1, <1>2, TypeCorrect, PTL DEF Spec

(* With one worker process, whatever crashes, failures and deletions come  *)
(* between, a job that nobody works on agrees with its version.            *)
THEOREM JobsAgreeWithVersions == ASSUME SolePoller PROVE Spec => []StatusCoherent
<1>1. JobInv => StatusCoherent
  <2> SUFFICES ASSUME JobInv, NEW v \in Versions, Idle(v) PROVE Coherent(v)
    BY DEF StatusCoherent, Coherent
  <2>1. \A r \in Runners : Working(r) => run[r].version # v
    BY DEF Idle, Working, At
  <2> QED
    BY <2>1 DEF JobInv, RestingCoherent
<1> QED
  BY <1>1, JobInvHolds, PTL

(* While the worker is at work on a version, the check of delete_document  *)
(* for queued and running jobs stops a deletion of its document.           *)
THEOREM WorkIsVisible == ASSUME SolePoller PROVE Spec => []BusyWhileWorking
<1>1. TypeOK /\ JobInv => BusyWhileWorking
  <2> SUFFICES ASSUME TypeOK, JobInv, NEW r \in Runners,
                      run[r].pc \notin {"idle", "claim", "report_retry"}
               PROVE  Busy(DocumentOf[run[r].version])
    BY DEF BusyWhileWorking
  <2>1. SnapInv(r) /\ run[r].version \in VersionsOf(DocumentOf[run[r].version])
    BY DEF JobInv, TypeOK, RunTypeOK, VersionsOf
  <2> QED
    BY <2>1 DEF SnapInv, Working, At, Busy
<1> QED
  BY <1>1, JobInvHolds, TypeCorrect, PTL

(* What a step does to the row of a job.                                   *)
LEMMA RowSteps ==
    ASSUME SolePoller, TypeOK, JobInv, [Next]_vars, NEW v \in Versions
    PROVE  /\ job'[v].attempt_count >= job[v].attempt_count
           /\ job[v].status = "succeeded" => job'[v].status = "succeeded"
<1>0. /\ job \in [Versions -> JobRow]
      /\ job[v].attempt_count \in Nat
      /\ job[v].attempt_count >= job[v].attempt_count
  BY RegistryAssumption DEF TypeOK, RegistryTypeOK, JobRow
<1>1. CASE UNCHANGED job
  BY <1>0, <1>1
<1>2. CASE \E u \in Versions, k \in Keys \cup {NoKey} : Upload(u, k)
  <2>1. Stored(v) => job'[v] = job[v]
    BY <1>0, <1>2 DEF Upload, Accept
  <2>2. ~Stored(v) => job'[v].attempt_count \in {0, job[v].attempt_count}
    BY <1>0, <1>2 DEF Upload, Accept, NoJob
  <2>5. ~Stored(v) => job[v].attempt_count = 0
    <3>1. ASSUME ~Stored(v), NEW r \in Runners, Working(r) PROVE run[r].version # v
      BY <3>1 DEF JobInv, SnapInv, Stored
    <3> QED
      BY <3>1 DEF JobInv, RestingCoherent, Coherent, Stored
  <2>3. CASE Stored(v)
    BY <1>0, <2>1, <2>3
  <2>4. CASE ~Stored(v)
    BY <1>0, <2>2, <2>4, <2>5 DEF Stored
  <2> QED
    BY <2>3, <2>4
<1>3. CASE \E r \in Runners : RunStep(r)
  <2>1. PICK r \in Runners : RunStep(r)
    BY <1>3
  <2>2. SnapInv(r)
    BY DEF JobInv
  <2>3. CASE QuietWork(r) \/ DiscardFails(r)
    BY <1>1, <2>3, QuietWorkSteps DEF DiscardFails
  <2>4. CASE v # run[r].version
    BY <1>0, <2>1, <2>2, <2>4, OtherVersionsKeep
  <2>5. CASE v = run[r].version /\ ~QuietWork(r) /\ ~DiscardFails(r)
    BY <1>0, <2>1, <2>2, <2>5, TaskWrites
  <2> QED
    BY <2>3, <2>4, <2>5
<1>4. CASE Tick
  BY <1>0, <1>4 DEF Tick, Aged
<1>5. CASE (\E r \in Runners : Crash(r)) \/ (\E x \in Deleters : DeleteStep(x))
  BY <1>1, <1>5
  DEF Crash, DeleteStep, RemoveVectors, RemoveVectorsFails, CommitDelete, RefuseDelete, registryVars
<1> QED
  BY <1>1, <1>2, <1>3, <1>4, <1>5 DEF Next, Poll, RequestDelete, vars, registryVars

(* No retry and no late write takes a success back.                        *)
THEOREM SuccessIsFinal == ASSUME SolePoller PROVE Spec => SucceededIsFinal
<1>1. TypeOK /\ JobInv /\ [Next]_vars
        => [\A v \in Versions : job[v].status = "succeeded" => job'[v].status = "succeeded"]_vars
  BY RowSteps
<1> QED
  BY <1>1, JobInvHolds, TypeCorrect, PTL DEF Spec, SucceededIsFinal

(* No write of the worker rolls the attempts of a job back.                *)
THEOREM AttemptsOnlyGrow == ASSUME SolePoller PROVE Spec => AttemptsNeverLost
<1>1. TypeOK /\ JobInv /\ [Next]_vars
        => [\A v \in Versions : job'[v].attempt_count >= job[v].attempt_count]_vars
  BY RowSteps
<1> QED
  BY <1>1, JobInvHolds, TypeCorrect, PTL DEF Spec, AttemptsNeverLost

-----------------------------------------------------------------------------
(* One task at a time, polled or embedded, beside any deletions.           *)
OneTask == \A q, r \in Runners : q = r

Whole(v) == FullyActive(v) \/ NoPoints(v)

(* RunInv, where a deletion may have removed every point in between.       *)
WholeInv(r) ==
    /\ run[r].published => run[r].pc \in AfterPublish
    /\ At(r, "switch") => run[r].published /\ Whole(run[r].version)
    /\ run[r].pc \notin {"idle", "claim", "mark_indexing"} /\ ~run[r].published
         => documentStatus[run[r].version] # "active"
    /\ run[r].pc \in {"finish_verify", "report_verified", "publish"}
         => VerifiesStaged(run[r].version) \/ NoPoints(run[r].version)
    /\ At(r, "clean")
         => \A w \in OtherVersions(run[r].version) : documentStatus[w] # "active"

WholeVersionsInv == ActiveIsWhole /\ \A r \in Runners : WholeInv(r)

LEMMA StopWhole ==
    ASSUME RunTypeOK, NEW r \in Runners, Stop(r)
    PROVE  WholeInv(r)'
BY DEF RunTypeOK, Stop, IdleRun, WholeInv, At

(* A task in the pc of a step that leaves both stores alone.               *)
LEMMA QuietWhole ==
    ASSUME NEW r \in Runners, WholeInv(r), UNCHANGED <<documentStatus, points>>,
           run'[r].version = run[r].version,
           run'[r].published = run[r].published,
           run[r].published => run'[r].pc \in AfterPublish,
           run'[r].pc \notin {"switch", "clean"},
           run[r].pc \in {"idle", "claim", "mark_indexing"}
             => run'[r].pc \in {"idle", "claim", "mark_indexing"},
           run'[r].pc \in {"finish_verify", "report_verified", "publish"}
             => VerifiesStaged(run[r].version) \/ NoPoints(run[r].version)
    PROVE  WholeInv(r)'
<1>1. run'[r].pc \notin {"idle", "claim", "mark_indexing"} /\ ~run'[r].published
         => documentStatus'[run'[r].version] # "active"
  BY DEF WholeInv
<1>2. run'[r].pc \in {"finish_verify", "report_verified", "publish"}
         => VerifiesStaged(run[r].version)' \/ NoPoints(run[r].version)'
  BY DEF VerifiesStaged, NoPoints
<1> QED
  BY <1>1, <1>2 DEF WholeInv, At, VerifiesStaged, NoPoints

(* The requests of a task leave a version whole that is not its own and    *)
(* not a sibling it hides.                                                 *)
LEMMA RequestsKeepWhole ==
    ASSUME ChunkStoreTypeOK, NEW w \in Versions, Whole(w)
    PROVE  /\ UNCHANGED points => Whole(w)'
           /\ \A v \in Versions, S \in SUBSET Chunks : StageVersion(v, S) /\ v # w => Whole(w)'
           /\ \A v : ActivateVersion(v) => Whole(w)'
           /\ \A v : DeactivatePreviousVersions(v) /\ w \notin OtherVersions(v) => Whole(w)'
           /\ \A W : DeletePoints(W) => Whole(w)'
<1> USE DEF Whole, FullyActive, NoPoints, ChunkStoreTypeOK
<1>1. UNCHANGED points => Whole(w)'
  OBVIOUS
<1>2. ASSUME NEW v \in Versions, NEW S \in SUBSET Chunks, StageVersion(v, S), v # w
      PROVE  Whole(w)'
  BY <1>2 DEF StageVersion
<1>3. ASSUME NEW v, ActivateVersion(v) PROVE Whole(w)'
  BY <1>3 DEF ActivateVersion, SetPayload
<1>4. ASSUME NEW v, DeactivatePreviousVersions(v), w \notin OtherVersions(v) PROVE Whole(w)'
  BY <1>4 DEF DeactivatePreviousVersions, SetPayload
<1>5. ASSUME NEW W, DeletePoints(W) PROVE Whole(w)'
  BY <1>5 DEF DeletePoints
<1> QED
  BY <1>1, <1>2, <1>3, <1>4, <1>5

(* A step of the task keeps every active version whole or gone.            *)
LEMMA RunStepWhole ==
    ASSUME OneTask, TypeOK, WholeVersionsInv, NEW r \in Runners, RunStep(r)
    PROVE  ActiveIsWhole'
<1> DEFINE v == run[r].version
<1>inv. WholeInv(r)
  BY DEF WholeVersionsInv
<1>types. ChunkStoreTypeOK /\ (~At(r, "idle") => v \in Versions)
  BY DEF TypeOK, RunTypeOK, At
<1> SUFFICES ASSUME NEW w \in Versions, documentStatus'[w] = "active"
             PROVE  Whole(w)'
  BY DEF ActiveIsWhole, Whole
<1>1. CASE Switch(r)
  <2>1. UNCHANGED points /\ At(r, "switch")
    BY <1>1 DEF Switch
  <2>2. w = v \/ documentStatus[w] = "active"
    BY <1>1 DEF Switch, ActivateDocumentVersion
  <2>3. Whole(w)
    BY <1>inv, <2>1, <2>2 DEF WholeInv, WholeVersionsInv, ActiveIsWhole, Whole
  <2> QED
    BY <1>types, <2>1, <2>3, RequestsKeepWhole
<1>2. CASE ~Switch(r)
  <2>1. [Next]_vars /\ \A q \in Runners : ~Switch(q)
    BY <1>2 DEF Next, OneTask
  <2>2. documentStatus[w] = "active"
    BY <2>1, OnlySwitchActivates
  <2>3. Whole(w)
    BY <2>2 DEF WholeVersionsInv, ActiveIsWhole, Whole
  <2>4. CASE UNCHANGED points
    BY <1>types, <2>3, <2>4, RequestsKeepWhole
  <2>5. CASE Stage(r) \/ StageFails(r)
    <3>1. v # w /\ v \in Versions
      BY <1>inv, <1>types, <2>2, <2>5 DEF Stage, StageFails, At, WholeInv, AfterPublish
    <3>2. \E S \in SUBSET Chunks : StageVersion(v, S)
      BY <2>5 DEF Stage, StageFails
    <3> QED
      BY <1>types, <2>3, <3>1, <3>2, RequestsKeepWhole
  <2>6. CASE Publish(r) \/ PublishFails(r)
    BY <1>types, <2>3, <2>6, RequestsKeepWhole DEF Publish, PublishFails
  <2>7. CASE Clean(r)
    <3>1. w \notin OtherVersions(v)
      BY <1>inv, <2>2, <2>7 DEF Clean, At, WholeInv
    <3> QED
      BY <1>types, <2>3, <2>7, <3>1, RequestsKeepWhole DEF Clean
  <2>8. CASE Discard(r) \/ DiscardFails(r)
    BY <1>types, <2>3, <2>8, RequestsKeepWhole DEF Discard, DiscardFails, DiscardVersion
  <2> QED
    BY <1>2, <2>4, <2>5, <2>6, <2>7, <2>8
    DEF RunStep, Claim, SkipJob, RunUnclaimed, MarkIndexing, Report, FinishStage, Prepare,
        Verify, Succeed, PrepareFails, VerifyFails, SwitchFails, RegistryFails,
        FinishFailed, MarkFailed, ReportFailed, ReportRetry
<1> QED
  BY <1>1, <1>2

(* A step of the task leads it to a state of which WholeInv is true.       *)
LEMMA RunStepWholeInv ==
    ASSUME TypeOK, NEW r \in Runners, WholeInv(r), RunStep(r)
    PROVE  WholeInv(r)'
<1> DEFINE v == run[r].version
<1>types. /\ RunTypeOK
          /\ points \in [Versions -> [Chunks -> PointState]]
          /\ documentStatus \in [Versions -> DocumentStatus \cup {"none"}]
          /\ ~At(r, "idle") => v \in Versions
  BY DEF TypeOK, RegistryTypeOK, ChunkStoreTypeOK, RunTypeOK, At
<1>published. run[r].published => run[r].pc \in AfterPublish
  BY DEF WholeInv
<1>after. /\ AfterFailure(r) \in {"discard", "mark_failed"}
          /\ run[r].published => AfterFailure(r) = "mark_failed"
  BY DEF AfterFailure
<1>1. CASE Claim(r) \/ RunUnclaimed(r)
  <2>1. /\ run'[r].pc = "mark_indexing"
        /\ run'[r].version = v
        /\ run'[r].published = run[r].published
        /\ UNCHANGED <<documentStatus, points>>
        /\ At(r, "claim")
    BY <1>1, <1>types DEF Claim, RunUnclaimed, RunTypeOK, Run, registryVars
  <2> QED
    BY <1>published, <2>1, QuietWhole DEF At, AfterPublish
<1>2. CASE SkipJob(r) \/ Succeed(r) \/ DiscardFails(r) \/ ReportRetry(r)
  BY <1>2, <1>types, StopWhole DEF SkipJob, Succeed, DiscardFails, ReportRetry
<1>4. CASE MarkIndexing(r)
  <2>1. run'[r].pc = "start" /\ run'[r].version = v /\ ~run'[r].published
    BY <1>4, <1>types, <1>published, GotoFields DEF MarkIndexing, At, AfterPublish
  <2>2. documentStatus'[v] # "active"
    BY <1>4, <1>types DEF MarkIndexing, SetDocumentStatus, At
  <2> QED
    BY <2>1, <2>2 DEF WholeInv, At
<1>5. CASE Report(r)
  <2>1. /\ run'[r].pc = NextStage[run[r].pc]
        /\ run'[r].version = v
        /\ run'[r].published = run[r].published
        /\ UNCHANGED <<documentStatus, points>>
    BY <1>5, <1>types, GotoSnapFields DEF Report
  <2>2. ~run[r].published
    BY <1>5, <1>published DEF Report, ReportPc, AfterPublish
  <2>3. run[r].pc = "report_verified" => VerifiesStaged(v) \/ NoPoints(v)
    BY DEF WholeInv
  <2>4. /\ run'[r].pc \in {"prepare", "stage", "verify", "publish"}
        /\ run'[r].pc = "publish" => run[r].pc = "report_verified"
        /\ run[r].pc \notin {"idle", "claim", "mark_indexing"}
    BY <1>5, <2>1 DEF Report, ReportPc, NextStage
  <2> QED
    BY <2>1, <2>2, <2>3, <2>4, QuietWhole
<1>6. CASE FinishStage(r)
  <2>1. /\ run'[r].pc = NextReport[run[r].pc]
        /\ run'[r].version = v
        /\ run'[r].published = run[r].published
        /\ UNCHANGED <<documentStatus, points>>
    BY <1>6, <1>types, GotoSnapFields DEF FinishStage, registryVars
  <2>2. run[r].pc = "finish_verify" => VerifiesStaged(v) \/ NoPoints(v)
    BY DEF WholeInv
  <2>3. /\ run'[r].pc \in {"report_staged", "report_verified", "report_succeeded"}
        /\ run'[r].pc = "report_verified" => run[r].pc = "finish_verify"
        /\ run[r].pc = "finish_activate" => run'[r].pc = "report_succeeded"
        /\ run[r].pc \notin {"idle", "claim", "mark_indexing"}
        /\ run[r].pc \in FinishPc
    BY <1>6, <2>1 DEF FinishStage, FinishPc, NextReport
  <2>4. run[r].published => run'[r].pc \in AfterPublish
    BY <1>published, <2>3 DEF FinishPc, AfterPublish
  <2> QED
    BY <2>1, <2>2, <2>3, <2>4, QuietWhole
<1>7. CASE Prepare(r) \/ PrepareFails(r)
  <2>1. /\ run'[r].pc \in {"report_prepared", "finish_failed"}
        /\ run'[r].version = v
        /\ run'[r].published = run[r].published
        /\ UNCHANGED <<documentStatus, points>>
        /\ At(r, "prepare")
    BY <1>7, <1>types DEF Prepare, PrepareFails, RunTypeOK, Run, registryVars
  <2> QED
    BY <1>published, <2>1, QuietWhole DEF At, AfterPublish
<1>8. CASE Stage(r)
  <2>1. /\ run'[r].pc = "finish_stage"
        /\ run'[r].version = v
        /\ run'[r].published = run[r].published
    BY <1>8, <1>types DEF Stage, RunTypeOK, Run
  <2>2. ~run[r].published /\ documentStatus'[v] # "active"
    BY <1>8, <1>published DEF Stage, At, AfterPublish, WholeInv, onlyRun
  <2> QED
    BY <2>1, <2>2 DEF WholeInv, At
<1>9. CASE Verify(r)
  <2>1. VerifiesStaged(v) /\ ~run[r].published /\ UNCHANGED <<documentStatus, points>>
    BY <1>9, <1>published DEF Verify, At, AfterPublish, registryVars
  <2>2. /\ run'[r].pc = "finish_verify"
        /\ run'[r].version = v
        /\ run'[r].published = run[r].published
    BY <1>9, <1>types, GotoFields DEF Verify
  <2> QED
    BY <1>9, <2>1, <2>2, QuietWhole DEF Verify, At
<1>10. CASE Publish(r)
  <2>1. run'[r].pc = "switch" /\ run'[r].version = v /\ run'[r].published /\ v \in Versions
    BY <1>10, <1>types DEF Publish, RunTypeOK, Run, At
  <2>2. VerifiesStaged(v) \/ NoPoints(v)
    BY <1>10 DEF Publish, At, WholeInv
  <2>3. \/ \A c \in Chunks : points'[v][c] = "active"
        \/ \A c \in Chunks : points'[v][c] = "absent"
    BY <1>10, <2>1, <2>2 DEF Publish, ActivateVersion, SetPayload, VerifiesStaged, NoPoints
  <2> QED
    BY <2>1, <2>3 DEF WholeInv, At, Whole, FullyActive, NoPoints, AfterPublish
<1>11. CASE Switch(r)
  <2>1. run'[r].pc = "clean" /\ run'[r].version = v /\ run'[r].published
    BY <1>11, <1>types, GotoFields DEF Switch, WholeInv
  <2>2. \A w \in OtherVersions(v) : documentStatus'[w] # "active"
    BY <1>11 DEF Switch, ActivateDocumentVersion, OtherVersions, VersionsOf
  <2> QED
    BY <2>1, <2>2 DEF WholeInv, At, AfterPublish
<1>12. CASE Clean(r)
  <2>1. /\ run'[r].pc = "finish_activate"
        /\ run'[r].version = v
        /\ run'[r].published = run[r].published
    BY <1>12, <1>types, GotoFields DEF Clean
  <2>2. ~run[r].published => documentStatus'[v] # "active"
    BY <1>12 DEF Clean, At, WholeInv, onlyRun
  <2> QED
    BY <2>1, <2>2 DEF WholeInv, At, AfterPublish
<1>14. CASE StageFails(r) \/ PublishFails(r)
  <2>1. /\ run'[r].pc = "finish_failed"
        /\ run'[r].version = v
        /\ run'[r].published = run[r].published
    BY <1>14, <1>types, GotoFields DEF StageFails, PublishFails
  <2>2. ~run[r].published => documentStatus'[v] # "active"
    BY <1>14 DEF StageFails, PublishFails, At, WholeInv, onlyRun
  <2> QED
    BY <2>1, <2>2 DEF WholeInv, At, AfterPublish
<1>15. CASE VerifyFails(r) \/ SwitchFails(r)
  <2>1. /\ run'[r].pc = "finish_failed"
        /\ run'[r].version = v
        /\ run'[r].published = run[r].published
        /\ UNCHANGED <<documentStatus, points>>
        /\ At(r, "verify") \/ At(r, "switch")
    BY <1>15, <1>types, GotoFields DEF VerifyFails, SwitchFails, registryVars
  <2> QED
    BY <2>1, QuietWhole DEF At, AfterPublish
<1>16. CASE RegistryFails(r) \/ FinishFailed(r)
  <2>1. /\ run'[r].pc \in {"finish_failed", AfterFailure(r)}
        /\ run'[r].version = v
        /\ run'[r].published = run[r].published
        /\ UNCHANGED <<documentStatus, points>>
        /\ run[r].pc \notin {"idle", "claim", "mark_indexing"}
    BY <1>16, <1>types
    DEF RegistryFails, FinishFailed, Goto, RunTypeOK, Run, registryVars, At, FinishPc, ReportPc,
        BeginPc
  <2> QED
    BY <1>after, <2>1, QuietWhole DEF AfterPublish
<1>18. CASE Discard(r)
  <2>1. /\ run'[r].pc = "mark_failed"
        /\ run'[r].version = v
        /\ run'[r].published = run[r].published
    BY <1>18, <1>types, GotoFields DEF Discard
  <2>2. ~run[r].published => documentStatus'[v] # "active"
    BY <1>18 DEF Discard, At, WholeInv, onlyRun
  <2> QED
    BY <2>1, <2>2 DEF WholeInv, At, AfterPublish
<1>19. CASE MarkFailed(r)
  <2>1. run'[r].pc = "report_failed" /\ run'[r].version = v
    BY <1>19, <1>types, GotoFields DEF MarkFailed
  <2>2. documentStatus'[v] # "active"
    BY <1>19, <1>types DEF MarkFailed, SetDocumentStatus, At
  <2> QED
    BY <2>1, <2>2 DEF WholeInv, At, AfterPublish
<1>20. CASE ReportFailed(r)
  <2>1. /\ run'[r].pc = "report_retry"
        /\ run'[r].version = v
        /\ run'[r].published = run[r].published
    BY <1>20, <1>types, GotoSnapFields DEF ReportFailed
  <2> QED
    BY <1>20, <1>published, <2>1, QuietWhole DEF ReportFailed, At, AfterPublish, onlyRun
<1> QED
  BY <1>1, <1>2, <1>4, <1>5, <1>6, <1>7, <1>8, <1>9, <1>10, <1>11, <1>12,
     <1>14, <1>15, <1>16, <1>18, <1>19, <1>20
  DEF RunStep

(* What others do beside a task: no version becomes active by it, and      *)
(* points at most go away.                                                 *)
Beside ==
    /\ \A w \in Versions : documentStatus'[w] = "active" => documentStatus[w] = "active"
    /\ UNCHANGED points \/ \E W : DeletePoints(W)

LEMMA BesideKeepsWhole ==
    ASSUME TypeOK, ActiveIsWhole, Beside
    PROVE  ActiveIsWhole'
<1> SUFFICES ASSUME NEW w \in Versions, documentStatus'[w] = "active"
             PROVE  Whole(w)'
  BY DEF ActiveIsWhole, Whole
<1>1. Whole(w)
  BY DEF Beside, ActiveIsWhole, Whole
<1> QED
  BY <1>1, RequestsKeepWhole DEF Beside, TypeOK

LEMMA BesideKeepsWholeInv ==
    ASSUME TypeOK, Beside, NEW r \in Runners, WholeInv(r),
           run'[r].pc = run[r].pc, run'[r].version = run[r].version,
           run'[r].published = run[r].published
    PROVE  WholeInv(r)'
<1> DEFINE v == run[r].version
<1>1. CASE At(r, "idle")
  BY <1>1 DEF WholeInv, At
<1>2. CASE ~At(r, "idle")
  <2>1. v \in Versions
    BY <1>2 DEF At, TypeOK, RunTypeOK
  <2>2. documentStatus'[v] = "active" => documentStatus[v] = "active"
    BY <2>1 DEF Beside
  <2>3. \A w \in OtherVersions(v) : documentStatus'[w] = "active" => documentStatus[w] = "active"
    BY DEF Beside, OtherVersions, VersionsOf
  <2>4. \/ \A c \in Chunks : points'[v][c] = points[v][c]
        \/ \A c \in Chunks : points'[v][c] = "absent"
    <3>1. CASE UNCHANGED points
      BY <3>1
    <3>2. ASSUME NEW W, DeletePoints(W)
          PROVE  \/ \A c \in Chunks : points'[v][c] = points[v][c]
                 \/ \A c \in Chunks : points'[v][c] = "absent"
      BY <2>1, <3>2 DEF DeletePoints
    <3> QED
      BY <3>1, <3>2 DEF Beside
  <2>5. /\ Whole(v) => \/ \A c \in Chunks : points'[v][c] = "active"
                       \/ \A c \in Chunks : points'[v][c] = "absent"
        /\ VerifiesStaged(v) \/ NoPoints(v)
             => \/ \A c \in Chunks : points'[v][c] = "inactive"
                \/ \A c \in Chunks : points'[v][c] = "absent"
    BY <2>4 DEF Whole, FullyActive, NoPoints, VerifiesStaged
  <2> QED
    BY <2>2, <2>3, <2>5 DEF WholeInv, At, Whole, FullyActive, NoPoints, VerifiesStaged
<1> QED
  BY <1>1, <1>2

LEMMA WholeVersionsInvStep ==
    ASSUME OneTask, TypeOK, WholeVersionsInv, [Next]_vars
    PROVE  WholeVersionsInv'
<1>1. CASE \E r \in Runners : RunStep(r)
  <2>1. PICK r \in Runners : RunStep(r)
    BY <1>1
  <2>2. WholeInv(r)'
    BY <2>1, RunStepWholeInv DEF WholeVersionsInv
  <2> QED
    BY <2>1, <2>2, RunStepWhole DEF WholeVersionsInv, OneTask
<1>2. ASSUME Beside, NEW r \in Runners, WholeInv(r)'
      PROVE  WholeVersionsInv'
  BY <1>2, BesideKeepsWhole DEF WholeVersionsInv, OneTask
<1>3. ASSUME Beside,
             \A r \in Runners : /\ run'[r].pc = run[r].pc
                                /\ run'[r].version = run[r].version
                                /\ run'[r].published = run[r].published
      PROVE  WholeVersionsInv'
  BY <1>3, BesideKeepsWhole, BesideKeepsWholeInv DEF WholeVersionsInv
<1>4. CASE \E r \in Runners : Crash(r)
  <2>1. PICK r \in Runners : Crash(r)
    BY <1>4
  <2>2. Beside
    BY <2>1 DEF Crash, registryVars, Beside
  <2>3. WholeInv(r)'
    BY <2>1, StopWhole DEF Crash, TypeOK
  <2> QED
    BY <1>2, <2>2, <2>3
<1>5. CASE \E v \in Versions, k \in Keys \cup {NoKey} : Upload(v, k)
  <2>1. PICK v \in Versions, k \in Keys \cup {NoKey} : Upload(v, k)
    BY <1>5
  <2>2. Beside
    BY <2>1 DEF Upload, Accept, Beside, TypeOK, RegistryTypeOK
  <2>3. CASE UNCHANGED run
    BY <1>3, <2>2, <2>3
  <2>4. CASE ~UNCHANGED run
    <3>1. PICK t \in Tasks :
            run' = [run EXCEPT ![t] = [IdleRun EXCEPT !.pc = "claim", !.version = v]]
      BY <2>1, <2>4 DEF Upload
    <3>2. t \in Runners /\ run'[t].pc = "claim" /\ ~run'[t].published
      BY <3>1 DEF Runners, IdleRun, TypeOK, RunTypeOK
    <3>3. WholeInv(t)'
      BY <3>2 DEF WholeInv, At
    <3> QED
      BY <1>2, <2>2, <3>2, <3>3
  <2> QED
    BY <2>3, <2>4
<1>6. CASE \E r \in Pollers, v \in Versions : Poll(r, v)
  <2>1. PICK r \in Pollers, v \in Versions : Poll(r, v)
    BY <1>6
  <2>2. Beside
    BY <2>1 DEF Poll, registryVars, Beside
  <2>3. r \in Runners /\ run'[r].pc = "claim" /\ ~run'[r].published
    BY <2>1 DEF Poll, Runners, IdleRun, TypeOK, RunTypeOK
  <2>4. WholeInv(r)'
    BY <2>3 DEF WholeInv, At
  <2> QED
    BY <1>2, <2>2, <2>3, <2>4
<1>7. CASE \E x \in Deleters : DeleteStep(x)
  <2>1. PICK x \in Deleters : DeleteStep(x)
    BY <1>7
  <2>2. UNCHANGED run
    BY <2>1 DEF DeleteStep, RemoveVectors, RemoveVectorsFails, CommitDelete, RefuseDelete
  <2>3. Beside
    <3>1. CASE RemoveVectors(x) \/ RemoveVectorsFails(x)
      BY <3>1 DEF RemoveVectors, RemoveVectorsFails, DeleteDocumentPoints, registryVars, Beside
    <3>2. CASE CommitDelete(x)
      BY <3>2 DEF CommitDelete, MarkDeleted, Beside
    <3>3. CASE RefuseDelete(x)
      BY <3>3 DEF RefuseDelete, registryVars, Beside
    <3> QED
      BY <2>1, <3>1, <3>2, <3>3 DEF DeleteStep
  <2> QED
    BY <1>3, <2>2, <2>3
<1>8. CASE \E x \in Deleters, d \in Documents : RequestDelete(x, d)
  <2>1. Beside /\ UNCHANGED run
    BY <1>8 DEF RequestDelete, registryVars, Beside
  <2> QED
    BY <1>3, <2>1
<1>9. CASE Tick \/ UNCHANGED vars
  <2>1. Beside
    BY <1>9 DEF Tick, vars, Beside
  <2>2. ASSUME NEW r \in Runners
        PROVE  /\ run'[r].pc = run[r].pc
               /\ run'[r].version = run[r].version
               /\ run'[r].published = run[r].published
    BY <1>9 DEF Tick, vars, TypeOK, RunTypeOK, Run
  <2> QED
    BY <1>3, <2>1, <2>2
<1> QED
  BY <1>1, <1>4, <1>5, <1>6, <1>7, <1>8, <1>9 DEF Next

(* With one task at a time and any deletions, a version the registry calls *)
(* active is never found in part.                                          *)
THEOREM ActiveNeverPartial == ASSUME OneTask PROVE Spec => []ActiveIsWhole
<1>1. Init => WholeVersionsInv
  BY DEF Init, RegistryInit, WholeVersionsInv, ActiveIsWhole, WholeInv, IdleRun, At
<1>2. TypeOK /\ WholeVersionsInv /\ [Next]_vars => WholeVersionsInv'
  BY WholeVersionsInvStep
<1>3. WholeVersionsInv => ActiveIsWhole
  BY DEF WholeVersionsInv
<1> QED
  BY <1>1, <1>2, <1>3, TypeCorrect, PTL DEF Spec

-----------------------------------------------------------------------------
(* The worker finishes every run it starts: it does not crash, and no      *)
(* registry call fails under it.  Nothing is deleted.                      *)
UndisturbedWorker ==
    SolePoller /\ Deleters = {} /\ MaxCrashes = 0 /\ "registry" \notin FailingCalls

(* Where one job of a document has succeeded, a version of the document is *)
(* active whose job has succeeded or is about to.                          *)
Secured(d) ==
    \E w \in VersionsOf(d) :
        /\ documentStatus[w] = "active"
        /\ \/ job[w].status = "succeeded"
           \/ \E r \in Runners : run[r].version = w /\ run[r].pc \in AfterSwitch

SuccessorInv ==
    \A v \in Versions : job[v].status = "succeeded" => Secured(DocumentOf[v])

(* The worker secures its version by the switch and until it has reported. *)
LEMMA SwitchSecures ==
    ASSUME UndisturbedWorker, TypeOK, JobInv, NEW r \in Runners, RunStep(r),
           NEW v \in Versions, v = run[r].version,
           run[r].pc \in AfterSwitch \/ Switch(r)
    PROVE  Secured(DocumentOf[v])'
<1>0. /\ SnapInv(r) /\ VersionInv(r)
      /\ RunTypeOK /\ job \in [Versions -> JobRow]
      /\ documentStatus \in [Versions -> DocumentStatus \cup {"none"}]
  BY DEF JobInv, TypeOK, RegistryTypeOK
<1>1. CASE Switch(r)
  BY <1>0, <1>1, GotoKeepsSnap
  DEF Switch, ActivateDocumentVersion, AfterSwitch, Secured, VersionsOf
<1>2. CASE Clean(r)
  <2>1. documentStatus'[v] = "active" /\ run'[r].version = v /\ run'[r].pc = "finish_activate"
    BY <1>0, <1>2, GotoKeepsSnap DEF Clean, VersionInv, AfterSwitch, At
  <2> QED
    BY <2>1 DEF AfterSwitch, Secured, VersionsOf
<1>3. CASE FinishStage(r)
  <2>1. run[r].pc = "finish_activate"
    BY <1>3 DEF FinishStage, FinishPc, AfterSwitch, Switch, At
  <2>2. run'[r].pc = "report_succeeded" /\ run'[r].version = v /\ UNCHANGED documentStatus
    BY <1>0, <1>3, <2>1 DEF FinishStage, NextReport, RunTypeOK, Run, registryVars
  <2> QED
    BY <1>0, <2>1, <2>2 DEF VersionInv, AfterSwitch, Secured, VersionsOf
<1>4. CASE Succeed(r)
  <2>1. ~QuietWork(r) /\ ~DiscardFails(r)
    BY <1>0, <1>4, QuietWorkSteps DEF Succeed, Stop, IdleRun, DiscardFails, At, RunTypeOK
  <2>2. job'[v].status = "succeeded"
    BY <1>0, <1>4, <2>1, TaskWrites
  <2> QED
    BY <1>0, <1>4, <2>2 DEF Succeed, VersionInv, AfterSwitch, At, Secured, VersionsOf
<1> QED
  BY <1>0, <1>1, <1>2, <1>3, <1>4, TaskSteps
  DEF QuietWork, AfterSwitch, UndisturbedWorker, RegistryFails, MayFail, MarkIndexing, Prepare,
      Stage, Verify, Publish, PrepareFails, StageFails, VerifyFails, PublishFails, SwitchFails,
      FinishFailed, Discard, MarkFailed, Claim, Report, ReportFailed, DiscardFails,
      ReportRetry, At, ReportPc

LEMMA RunStepSecures ==
    ASSUME UndisturbedWorker, TypeOK, JobInv, SuccessorInv, NEW r \in Runners, RunStep(r)
    PROVE  SuccessorInv'
<1>0. /\ SnapInv(r) /\ VersionInv(r) /\ \A q \in Runners : q = r
      /\ RunTypeOK /\ job \in [Versions -> JobRow]
      /\ documentStatus \in [Versions -> DocumentStatus \cup {"none"}]
  BY DEF JobInv, UndisturbedWorker, SolePoller, Runners, TypeOK, RegistryTypeOK
<1>1. ~At(r, "idle")
  BY <1>0, QuietWorkSteps, TaskSteps
  DEF Claim, Report, ReportFailed, Succeed, DiscardFails, ReportRetry, At, Working, ReportPc
<1>2. PICK v \in Versions : v = run[r].version
  BY <1>0, <1>1 DEF RunTypeOK, At
<1>3. job[v].status # "succeeded"
  BY <1>0, <1>1, <1>2 DEF SnapInv, Working, At, Recoverable
<1> SUFFICES ASSUME NEW u \in Versions, job'[u].status = "succeeded"
             PROVE  Secured(DocumentOf[u])'
  BY DEF SuccessorInv
<1>4. CASE DocumentOf[u] = DocumentOf[v] /\ (run[r].pc \in AfterSwitch \/ Switch(r))
  BY <1>2, <1>4, SwitchSecures
<1>5. CASE ~(DocumentOf[u] = DocumentOf[v] /\ (run[r].pc \in AfterSwitch \/ Switch(r)))
  <2>1. u # v
    <3> SUFFICES ASSUME u = v PROVE FALSE
      OBVIOUS
    <3>1. ~Succeed(r)
      BY <1>5 DEF Succeed, AfterSwitch, At
    <3>2. ~QuietWork(r) /\ ~DiscardFails(r)
      BY <1>3, QuietWorkSteps DEF DiscardFails
    <3>3. Claim(r) \/ Report(r) \/ ReportFailed(r) \/ ReportRetry(r)
      BY <1>0, <3>1, <3>2, TaskSteps
    <3> QED
      BY <1>0, <1>2, <3>2, <3>3, TaskWrites
  <2>2. job[u].status = "succeeded"
    BY <1>0, <1>2, <2>1, OtherVersionsKeep
  <2>3. PICK w \in VersionsOf(DocumentOf[u]) :
          /\ documentStatus[w] = "active"
          /\ job[w].status = "succeeded" \/ (v = w /\ run[r].pc \in AfterSwitch)
    BY <1>0, <1>2, <2>2 DEF SuccessorInv, Secured
  <2>4. w \in Versions /\ DocumentOf[w] = DocumentOf[u]
    BY DEF VersionsOf
  <2>5. w # v /\ job[w].status = "succeeded"
    BY <1>3, <1>5, <2>3, <2>4
  <2>6. job'[w] = job[w]
    BY <1>0, <1>2, <2>4, <2>5, OtherVersionsKeep
  <2>7. documentStatus'[w] = "active"
    <3>1. CASE Switch(r)
      BY <1>0, <1>2, <1>5, <2>3, <2>4, <3>1
      DEF Switch, ActivateDocumentVersion, OtherVersions, VersionsOf
    <3>2. CASE ~Switch(r)
      <4>1. UNCHANGED documentStatus \/ MarkIndexing(r) \/ MarkFailed(r)
        BY <3>2
        DEF RunStep, Claim, SkipJob, RunUnclaimed, Report, FinishStage, Prepare, Stage, Verify,
            Publish, Clean, Succeed, PrepareFails, StageFails, VerifyFails, PublishFails,
            SwitchFails, RegistryFails, FinishFailed, Discard, DiscardFails, ReportFailed,
            ReportRetry, registryVars
      <4> QED
        BY <1>0, <1>2, <2>3, <2>4, <2>5, <4>1 DEF MarkIndexing, MarkFailed, SetDocumentStatus
    <3> QED
      BY <3>1, <3>2
  <2> QED
    BY <2>3, <2>5, <2>6, <2>7 DEF Secured
<1> QED
  BY <1>4, <1>5

(* Whoever else acts takes no success and no active version away.          *)
LEMMA OthersSecure ==
    ASSUME TypeOK, JobInv, SuccessorInv,
           \A v \in Versions : job'[v].status = "succeeded" <=> job[v].status = "succeeded",
           \A v \in Versions : documentStatus[v] = "active" => documentStatus'[v] = "active",
           \A r \in Runners : run[r].pc \in AfterSwitch =>
               run'[r].pc = run[r].pc /\ run'[r].version = run[r].version
    PROVE  SuccessorInv'
<1> SUFFICES ASSUME NEW u \in Versions, job'[u].status = "succeeded"
             PROVE  Secured(DocumentOf[u])'
  BY DEF SuccessorInv
<1>1. PICK w \in VersionsOf(DocumentOf[u]) :
        /\ documentStatus[w] = "active"
        /\ \/ job[w].status = "succeeded"
           \/ \E r \in Runners : run[r].version = w /\ run[r].pc \in AfterSwitch
  BY DEF SuccessorInv, Secured
<1>2. w \in Versions
  BY DEF VersionsOf
<1> QED
  BY <1>1, <1>2 DEF Secured

LEMMA SuccessorInvStep ==
    ASSUME UndisturbedWorker, TypeOK, JobInv, SuccessorInv, [Next]_vars
    PROVE  SuccessorInv'
<1>0. /\ job \in [Versions -> JobRow] /\ Tasks = {} /\ Deleters = {}
      /\ documentStatus \in [Versions -> DocumentStatus \cup {"none"}]
  BY DEF UndisturbedWorker, SolePoller, TypeOK, RegistryTypeOK
<1>1. CASE \E r \in Runners : RunStep(r)
  BY <1>1, RunStepSecures
<1>2. CASE \E r \in Runners : Crash(r)
  BY <1>2 DEF Crash, UndisturbedWorker, TypeOK
<1>3. CASE \E v \in Versions, k \in Keys \cup {NoKey} : Upload(v, k)
  <2>1. PICK v \in Versions, k \in Keys \cup {NoKey} : Upload(v, k)
    BY <1>3
  <2>2. \A w \in Versions : Stored(w) => job'[w] = job[w] /\ documentStatus'[w] = documentStatus[w]
    BY <1>0, <2>1 DEF Upload, Accept
  <2>3. \A w \in Versions : ~Stored(w) => job'[w].status # "succeeded"
    BY <1>0, <2>1 DEF Upload, Accept, NoJob, Stored
  <2>4. \A w \in Versions : job'[w].status = "succeeded" <=> job[w].status = "succeeded"
    BY <2>2, <2>3 DEF Stored
  <2>5. ASSUME NEW w \in Versions, ~Stored(w) PROVE documentStatus[w] = "none"
    <3>1. ASSUME NEW r \in Runners, Working(r) PROVE run[r].version # w
      BY <2>5, <3>1 DEF JobInv, SnapInv, Stored
    <3> QED
      BY <2>5, <3>1 DEF JobInv, RestingCoherent, Coherent, Stored
  <2>6. \A w \in Versions : documentStatus[w] = "active" => documentStatus'[w] = "active"
    BY <2>2, <2>5
  <2> QED
    BY <1>0, <2>1, <2>4, <2>6, OthersSecure DEF Upload
<1>4. CASE \E r \in Pollers, v \in Versions : Poll(r, v)
  <2>1. PICK r \in Pollers, v \in Versions : Poll(r, v)
    BY <1>4
  <2>2. run[r].pc \notin AfterSwitch /\ UNCHANGED <<job, documentStatus>>
    BY <2>1 DEF Poll, At, AfterSwitch, registryVars
  <2>3. \A q \in Runners : q # r => run'[q] = run[q]
    BY <2>1 DEF Poll, TypeOK, RunTypeOK
  <2> QED
    BY <2>2, <2>3, OthersSecure
<1>5. CASE Tick \/ UNCHANGED vars
  <2>1. \A v \in Versions : job'[v].status = job[v].status
    BY <1>0, <1>5 DEF Tick, vars, Aged
  <2>2. UNCHANGED documentStatus
    BY <1>5 DEF Tick, vars
  <2>3. \A r \in Runners : run'[r].pc = run[r].pc /\ run'[r].version = run[r].version
    BY <1>5 DEF Tick, vars, TypeOK, RunTypeOK, Run
  <2> QED
    BY <2>1, <2>2, <2>3, OthersSecure
<1> QED
  BY <1>0, <1>1, <1>2, <1>3, <1>4, <1>5 DEF Next

(* A failed job leaves the active version of its document alone.  Crashes, *)
(* failures of the registry and deletions are excluded: each of them can   *)
(* take the active version away.                                           *)
THEOREM FailureKeepsActive == ASSUME UndisturbedWorker PROVE Spec => []FailedJobKeepsActive
<1>1. SolePoller
  BY DEF UndisturbedWorker
<1>2. Init => SuccessorInv
  BY DEF Init, RegistryInit, NoJob, SuccessorInv
<1>3. TypeOK /\ JobInv /\ SuccessorInv /\ [Next]_vars => SuccessorInv'
  BY SuccessorInvStep
<1>4. SuccessorInv => FailedJobKeepsActive
  <2> SUFFICES ASSUME SuccessorInv, NEW v \in Versions, job[v].status = "succeeded",
                      \A w \in OtherVersions(v) : job[w].status \in {"none", "failed"} /\ Idle(w)
               PROVE  documentStatus[v] = "active"
    BY DEF FailedJobKeepsActive
  <2>1. PICK w \in VersionsOf(DocumentOf[v]) :
          /\ documentStatus[w] = "active"
          /\ \/ job[w].status = "succeeded"
             \/ \E r \in Runners : run[r].version = w /\ run[r].pc \in AfterSwitch
    BY DEF SuccessorInv, Secured
  <2>2. w \notin OtherVersions(v)
    BY <2>1 DEF Idle, At, AfterSwitch
  <2> QED
    BY <2>1, <2>2 DEF OtherVersions
<1> QED
  BY <1>1, <1>2, <1>3, <1>4, JobInvHolds, TypeCorrect, PTL DEF Spec
=============================================================================
