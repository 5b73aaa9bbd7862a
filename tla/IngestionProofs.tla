--------------------------- MODULE IngestionProofs ---------------------------
(***************************************************************************)
(* Theorems about the ingestion pipeline, for any number of versions,      *)
(* documents, chunks, poll loops, background tasks and delete requests,    *)
(* any bounds, and any set of calls that may fail; and about any number of *)
(* searches beside it.                                                     *)
(***************************************************************************)
EXTENDS IngestionProperties, Retrieval, TLAPS

-----------------------------------------------------------------------------
(* The retry delay stays within its cap.                                   *)
LEMMA RetryDelayType == \A n \in Nat : RetryDelay(n) \in 0..MaxBackoff
BY RegistryAssumption DEF RetryDelay

(* Time leaves a row a row.                                                *)
LEMMA AgedType == \A row \in JobRow : Aged(row) \in JobRow
BY RegistryAssumption DEF JobRow, Aged

LEMMA NoJobType == NoJob \in JobRow
BY RegistryAssumption DEF NoJob, JobRow

LEMMA IdleRunType == IdleRun \in Run
BY NoJobType DEF IdleRun, Run, RunPc

(* The four snapshots the worker writes are rows.                          *)
LEMMA StatusType ==
    ASSUME NEW row \in JobRow, NEW s \in JobStatus
    PROVE  [row EXCEPT !.status = s] \in JobRow
BY DEF JobRow

LEMMA RetryRowType ==
    ASSUME NEW row \in JobRow, NEW rejected \in BOOLEAN
    PROVE  RetryRow(row, rejected) \in JobRow
<1>1. RetryDelay(row.attempt_count) \in 0..MaxBackoff
  BY RetryDelayType, RegistryAssumption DEF JobRow
<1>2. MaxAttempts \in 0..MaxAttempts /\ 0 \in 0..MaxBackoff
  BY RegistryAssumption
<1> QED
  BY <1>1, <1>2 DEF RetryRow, JobRow

LEMMA ClaimedRowType ==
    ASSUME RegistryTypeOK, NEW v \in Versions, ~ReturnedUnclaimed(v)
    PROVE  ClaimedRow(v) \in JobRow
BY RegistryAssumption DEF RegistryTypeOK, ReturnedUnclaimed, Exhausted, ClaimedRow,
   JobRow, JobStatus

(* How a step of a task changes the tasks' states.                         *)
LEMMA TaskType ==
    ASSUME RunTypeOK, NEW r \in Runners, NEW t \in Run,
           t.pc # "idle" => t.version \in Versions,
           run' = [run EXCEPT ![r] = t]
    PROVE  RunTypeOK'
BY DEF RunTypeOK

LEMMA StopType ==
    ASSUME RunTypeOK, NEW r \in Runners, Stop(r)
    PROVE  RunTypeOK'
BY TaskType, IdleRunType DEF Stop, IdleRun

LEMMA GotoType ==
    ASSUME RunTypeOK, NEW r \in Runners, ~At(r, "idle"), NEW pc \in RunPc, Goto(r, pc)
    PROVE  RunTypeOK'
BY DEF RunTypeOK, Goto, At, Run

LEMMA GotoSnapType ==
    ASSUME RunTypeOK, NEW r \in Runners, ~At(r, "idle"), NEW pc \in RunPc, NEW s \in JobRow,
           run' = [run EXCEPT ![r].pc = pc, ![r].snap = s]
    PROVE  RunTypeOK'
BY DEF RunTypeOK, At, Run

-----------------------------------------------------------------------------
(* The Qdrant requests keep every point in one of its three states.        *)
LEMMA StageVersionType ==
    ASSUME ChunkStoreTypeOK, NEW v \in Versions, NEW S \in SUBSET Chunks, StageVersion(v, S)
    PROVE  ChunkStoreTypeOK'
BY DEF ChunkStoreTypeOK, StageVersion, PointState

LEMMA SetPayloadType ==
    ASSUME ChunkStoreTypeOK, NEW W, NEW s \in PointState, SetPayload(W, s)
    PROVE  ChunkStoreTypeOK'
BY DEF ChunkStoreTypeOK, SetPayload, PointState

LEMMA DeletePointsType ==
    ASSUME ChunkStoreTypeOK, NEW W, DeletePoints(W)
    PROVE  ChunkStoreTypeOK'
BY DEF ChunkStoreTypeOK, DeletePoints, PointState

LEMMA SamePointsType ==
    ASSUME ChunkStoreTypeOK, UNCHANGED points
    PROVE  ChunkStoreTypeOK'
BY DEF ChunkStoreTypeOK

(* The registry transactions keep its columns well typed.                  *)
LEMMA UpdateJobType ==
    ASSUME RegistryTypeOK, NEW v \in Versions, NEW row \in JobRow, UpdateJob(v, row),
           UNCHANGED <<documentStatus, keys>>
    PROVE  RegistryTypeOK'
BY DEF RegistryTypeOK, UpdateJob

LEMMA SetDocumentStatusType ==
    ASSUME RegistryTypeOK, NEW v \in Versions, NEW s \in DocumentStatus,
           SetDocumentStatus(v, s), UNCHANGED <<job, keys>>
    PROVE  RegistryTypeOK'
BY DEF RegistryTypeOK, SetDocumentStatus

LEMMA ActivateType ==
    ASSUME RegistryTypeOK, NEW v \in Versions, ActivateDocumentVersion(v),
           UNCHANGED <<job, keys>>
    PROVE  RegistryTypeOK'
BY DEF RegistryTypeOK, ActivateDocumentVersion, DocumentStatus

LEMMA MarkDeletedType ==
    ASSUME RegistryTypeOK, NEW d, MarkDeleted(d), UNCHANGED <<job, keys>>
    PROVE  RegistryTypeOK'
BY DEF RegistryTypeOK, MarkDeleted, DocumentStatus

LEMMA AcceptType ==
    ASSUME RegistryTypeOK, NEW v \in Versions, NEW k \in Keys \cup {NoKey}, Accept(v, k)
    PROVE  RegistryTypeOK'
<1>1. [NoJob EXCEPT !.status = "queued"] \in JobRow
  BY NoJobType, StatusType DEF JobStatus
<1>2. job' \in [Versions -> JobRow]
  BY <1>1 DEF RegistryTypeOK, Accept
<1>3. documentStatus' \in [Versions -> DocumentStatus \cup {"none"}]
  BY DEF RegistryTypeOK, Accept, DocumentStatus
<1>4. keys' \in [Keys -> Versions \cup {NoVersion}]
  BY DEF RegistryTypeOK, Accept
<1> QED
  BY <1>2, <1>3, <1>4 DEF RegistryTypeOK

LEMMA SameRegistryType ==
    ASSUME RegistryTypeOK, UNCHANGED registryVars
    PROVE  RegistryTypeOK'
BY DEF RegistryTypeOK, registryVars

-----------------------------------------------------------------------------
(* A step of a task keeps the types.                                       *)
LEMMA TaskStepType ==
    ASSUME NEW r \in Runners, RegistryTypeOK', ChunkStoreTypeOK', RunTypeOK',
           TypeOK, UNCHANGED <<deletion, crashes>>
    PROVE  TypeOK'
BY DEF TypeOK, DeletionTypeOK

LEMMA RunStepType ==
    ASSUME TypeOK, NEW r \in Runners, RunStep(r)
    PROVE  TypeOK'
<1> DEFINE v == run[r].version
<1> USE DEF TypeOK
<1>v. ~At(r, "idle") => v \in Versions
  BY DEF RunTypeOK, At
<1>snap. run[r].snap \in JobRow /\ run[r].rejected \in BOOLEAN /\ run[r].pc \in RunPc
  BY DEF RunTypeOK, Run
<1>row. v \in Versions => job[v] \in JobRow
  BY DEF RegistryTypeOK
<1>running. [run[r].snap EXCEPT !.status = "running"] \in JobRow
  BY <1>snap, StatusType DEF JobStatus
<1>failed. [run[r].snap EXCEPT !.status = "failed"] \in JobRow
  BY <1>snap, StatusType DEF JobStatus
<1>succeeded. [run[r].snap EXCEPT !.status = "succeeded"] \in JobRow
  BY <1>snap, StatusType DEF JobStatus
<1>after. AfterFailure(r) \in RunPc
  BY DEF AfterFailure, RunPc
<1>1. CASE Claim(r)
  <2>1. ClaimedRow(v) \in JobRow
    BY <1>1, <1>v, ClaimedRowType DEF Claim, ClaimJob, At
  <2>2. RegistryTypeOK'
    BY <1>1, <1>v, <2>1, UpdateJobType DEF Claim, ClaimJob, UpdateJob, onlyRun, At
  <2>3. RunTypeOK'
    BY <1>1, <2>1, GotoSnapType DEF Claim, At, RunPc
  <2> QED
    BY <1>1, <2>2, <2>3, TaskStepType, SamePointsType DEF Claim, onlyRun
<1>2. CASE SkipJob(r)
  BY <1>2, StopType, TaskStepType, SamePointsType, SameRegistryType DEF SkipJob
<1>3. CASE RunUnclaimed(r)
  <2>1. RunTypeOK'
    BY <1>3, <1>v, <1>row, GotoSnapType DEF RunUnclaimed, At, RunPc
  <2> QED
    BY <1>3, <2>1, TaskStepType, SamePointsType, SameRegistryType DEF RunUnclaimed
<1>4. CASE MarkIndexing(r)
  <2>1. RunTypeOK'
    BY <1>4, GotoType DEF MarkIndexing, At, RunPc, ReportPc
  <2>2. RegistryTypeOK'
    BY <1>4, <1>v, SetDocumentStatusType DEF MarkIndexing, At, DocumentStatus, onlyRun
  <2> QED
    BY <1>4, <2>1, <2>2, TaskStepType, SamePointsType DEF MarkIndexing, onlyRun
<1>5. CASE Report(r)
  <2>1. ~At(r, "idle") /\ NextStage[run[r].pc] \in RunPc
    BY <1>5 DEF Report, ReportPc, NextStage, RunPc, At
  <2>2. RunTypeOK'
    BY <1>5, <1>running, <2>1, GotoSnapType DEF Report
  <2>3. RegistryTypeOK'
    BY <1>5, <1>running, <1>v, <2>1, UpdateJobType DEF Report, onlyRun
  <2> QED
    BY <1>5, <2>2, <2>3, TaskStepType, SamePointsType DEF Report, onlyRun
<1>6. CASE FinishStage(r)
  <2>1. ~At(r, "idle") /\ NextReport[run[r].pc] \in RunPc
    BY <1>6 DEF FinishStage, FinishPc, NextReport, RunPc, ReportPc, At
  <2>2. RunTypeOK'
    BY <1>6, <1>v, <1>row, <2>1, GotoSnapType DEF FinishStage
  <2> QED
    BY <1>6, <2>2, TaskStepType, SamePointsType, SameRegistryType DEF FinishStage
<1>7. CASE Prepare(r)
  <2>1. RunTypeOK'
    BY <1>7, <1>v, <1>row, GotoSnapType DEF Prepare, At, RunPc, ReportPc
  <2> QED
    BY <1>7, <2>1, TaskStepType, SamePointsType, SameRegistryType DEF Prepare
<1>8. CASE Stage(r)
  <2>1. RunTypeOK'
    BY <1>8, ZenonT(40) DEF Stage, RunTypeOK, Run, At, RunPc, FinishPc
  <2>2. ChunkStoreTypeOK'
    BY <1>8, <1>v, StageVersionType DEF Stage, At
  <2> QED
    BY <1>8, <2>1, <2>2, TaskStepType, SameRegistryType DEF Stage, onlyRun, registryVars
<1>9. CASE Verify(r)
  <2>1. RunTypeOK'
    BY <1>9, GotoType DEF Verify, At, RunPc, FinishPc
  <2> QED
    BY <1>9, <2>1, TaskStepType, SamePointsType, SameRegistryType DEF Verify
<1>10. CASE Publish(r)
  <2>1. RunTypeOK'
    BY <1>10, ZenonT(40) DEF Publish, RunTypeOK, Run, At, RunPc
  <2>2. ChunkStoreTypeOK'
    BY <1>10, SetPayloadType DEF Publish, ActivateVersion, PointState
  <2> QED
    BY <1>10, <2>1, <2>2, TaskStepType, SameRegistryType DEF Publish, onlyRun, registryVars
<1>11. CASE Switch(r)
  <2>1. RunTypeOK'
    BY <1>11, GotoType DEF Switch, At, RunPc
  <2>2. RegistryTypeOK'
    BY <1>11, <1>v, ActivateType DEF Switch, At, onlyRun
  <2> QED
    BY <1>11, <2>1, <2>2, TaskStepType, SamePointsType DEF Switch, onlyRun
<1>12. CASE Clean(r)
  <2>1. RunTypeOK'
    BY <1>12, GotoType DEF Clean, At, RunPc, FinishPc
  <2>2. ChunkStoreTypeOK'
    BY <1>12, SetPayloadType, SamePointsType
    DEF Clean, DeactivatePreviousVersions, PointState
  <2> QED
    BY <1>12, <2>1, <2>2, TaskStepType, SameRegistryType DEF Clean, onlyRun, registryVars
<1>13. CASE Succeed(r)
  <2>1. RegistryTypeOK'
    BY <1>13, <1>v, <1>succeeded, UpdateJobType DEF Succeed, At, onlyRun
  <2> QED
    BY <1>13, <2>1, StopType, TaskStepType, SamePointsType DEF Succeed, onlyRun
<1>14. CASE PrepareFails(r)
  <2>1. PICK rejected \in BOOLEAN :
          run' = [run EXCEPT ![r].pc = "finish_failed", ![r].rejected = rejected]
    BY <1>14 DEF PrepareFails
  <2>2. [run[r] EXCEPT !.pc = "finish_failed", !.rejected = rejected] \in Run
    BY DEF RunTypeOK, Run, RunPc
  <2>3. [run[r] EXCEPT !.pc = "finish_failed", !.rejected = rejected].version = v
    BY DEF RunTypeOK, Run
  <2>4. run' = [run EXCEPT ![r] = [run[r] EXCEPT !.pc = "finish_failed", !.rejected = rejected]]
    BY <2>1 DEF RunTypeOK
  <2>5. v \in Versions
    BY <1>14, <1>v DEF PrepareFails, At
  <2>6. RunTypeOK'
    <3> HIDE DEF v
    <3> QED
    BY <2>2, <2>3, <2>4, <2>5, TaskType
  <2> QED
    BY <1>14, <2>6, TaskStepType, SamePointsType, SameRegistryType DEF PrepareFails
<1>15. CASE StageFails(r)
  <2>1. RunTypeOK'
    BY <1>15, GotoType DEF StageFails, At, RunPc
  <2>2. ChunkStoreTypeOK'
    BY <1>15, <1>v, StageVersionType DEF StageFails, At
  <2> QED
    BY <1>15, <2>1, <2>2, TaskStepType, SameRegistryType DEF StageFails, onlyRun, registryVars
<1>16. CASE VerifyFails(r)
  <2>1. RunTypeOK'
    BY <1>16, GotoType DEF VerifyFails, At, RunPc
  <2> QED
    BY <1>16, <2>1, TaskStepType, SamePointsType, SameRegistryType DEF VerifyFails
<1>17. CASE PublishFails(r)
  <2>1. RunTypeOK'
    BY <1>17, GotoType DEF PublishFails, At, RunPc
  <2>2. ChunkStoreTypeOK'
    BY <1>17, SetPayloadType, SamePointsType DEF PublishFails, ActivateVersion, PointState
  <2> QED
    BY <1>17, <2>1, <2>2, TaskStepType, SameRegistryType DEF PublishFails, onlyRun, registryVars
<1>18. CASE SwitchFails(r)
  <2>1. RunTypeOK'
    BY <1>18, GotoType DEF SwitchFails, At, RunPc
  <2> QED
    BY <1>18, <2>1, TaskStepType, SamePointsType, SameRegistryType DEF SwitchFails
<1>19. CASE RegistryFails(r)
  <2>1. ~At(r, "idle")
    BY <1>19 DEF RegistryFails, At, FinishPc, ReportPc, BeginPc
  <2>2. RunTypeOK'
    BY <1>19, <1>after, <2>1, GotoType DEF RegistryFails, RunPc
  <2> QED
    BY <1>19, <2>2, TaskStepType, SamePointsType, SameRegistryType DEF RegistryFails
<1>20. CASE FinishFailed(r)
  <2>1. RunTypeOK'
    BY <1>20, <1>v, <1>row, <1>after, GotoSnapType DEF FinishFailed, At
  <2> QED
    BY <1>20, <2>1, TaskStepType, SamePointsType, SameRegistryType DEF FinishFailed
<1>21. CASE Discard(r)
  <2>1. RunTypeOK'
    BY <1>21, GotoType DEF Discard, At, RunPc
  <2> QED
    BY <1>21, <2>1, TaskStepType, DeletePointsType, SameRegistryType
    DEF Discard, DiscardVersion, onlyRun, registryVars
<1>22. CASE DiscardFails(r)
  <2>1. ChunkStoreTypeOK'
    BY <1>22, DeletePointsType, SamePointsType DEF DiscardFails, DiscardVersion
  <2> QED
    BY <1>22, <2>1, StopType, TaskStepType, SameRegistryType
    DEF DiscardFails, onlyRun, registryVars
<1>23. CASE MarkFailed(r)
  <2>1. RunTypeOK'
    BY <1>23, GotoType DEF MarkFailed, At, RunPc
  <2>2. RegistryTypeOK'
    BY <1>23, <1>v, SetDocumentStatusType DEF MarkFailed, At, DocumentStatus, onlyRun
  <2> QED
    BY <1>23, <2>1, <2>2, TaskStepType, SamePointsType DEF MarkFailed, onlyRun
<1>24. CASE ReportFailed(r)
  <2>1. RunTypeOK'
    BY <1>24, <1>failed, GotoSnapType DEF ReportFailed, At, RunPc
  <2>2. RegistryTypeOK'
    BY <1>24, <1>v, <1>failed, UpdateJobType DEF ReportFailed, At, onlyRun
  <2> QED
    BY <1>24, <2>1, <2>2, TaskStepType, SamePointsType DEF ReportFailed, onlyRun
<1>25. CASE ReportRetry(r)
  <2>1. RetryRow(run[r].snap, run[r].rejected) \in JobRow
    BY <1>snap, RetryRowType
  <2>2. RegistryTypeOK'
    BY <1>25, <1>v, <2>1, UpdateJobType DEF ReportRetry, At, onlyRun
  <2> QED
    BY <1>25, <2>2, StopType, TaskStepType, SamePointsType DEF ReportRetry, onlyRun
<1> QED
  BY <1>1, <1>2, <1>3, <1>4, <1>5, <1>6, <1>7, <1>8, <1>9, <1>10, <1>11, <1>12, <1>13,
     <1>14, <1>15, <1>16, <1>17, <1>18, <1>19, <1>20, <1>21, <1>22, <1>23, <1>24, <1>25
  DEF RunStep

LEMMA UploadType ==
    ASSUME TypeOK, NEW v \in Versions, NEW k \in Keys \cup {NoKey}, Upload(v, k)
    PROVE  TypeOK'
<1>1. RegistryTypeOK' /\ ChunkStoreTypeOK'
  BY AcceptType, SamePointsType DEF Upload, TypeOK
<1>2. RunTypeOK'
  <2>1. CASE Tasks = {}
    BY <2>1 DEF Upload, TypeOK, RunTypeOK
  <2>2. CASE Tasks # {}
    <3>1. PICK t \in Tasks :
            run' = [run EXCEPT ![t] = [IdleRun EXCEPT !.pc = "claim", !.version = v]]
      BY <2>2 DEF Upload
    <3>2. [IdleRun EXCEPT !.pc = "claim", !.version = v] \in Run
      BY NoJobType DEF IdleRun, Run, RunPc
    <3>3. [IdleRun EXCEPT !.pc = "claim", !.version = v].version = v
      BY DEF IdleRun
    <3> QED
      BY <3>1, <3>2, <3>3, TaskType DEF TypeOK, Runners
  <2> QED
    BY <2>1, <2>2
<1> QED
  BY <1>1, <1>2 DEF TypeOK, Upload, DeletionTypeOK

LEMMA PollType ==
    ASSUME TypeOK, NEW r \in Pollers, NEW v \in Versions, Poll(r, v)
    PROVE  TypeOK'
<1>1. [IdleRun EXCEPT !.pc = "claim", !.version = v] \in Run
  BY NoJobType DEF IdleRun, Run, RunPc
<1>2. [IdleRun EXCEPT !.pc = "claim", !.version = v].version = v
  BY DEF IdleRun
<1>3. RunTypeOK'
  BY <1>1, <1>2, TaskType DEF Poll, TypeOK, Runners
<1> QED
  BY <1>3, TaskStepType, SamePointsType, SameRegistryType DEF Poll, TypeOK, Runners

LEMMA DeletionType ==
    ASSUME DeletionTypeOK, NEW x \in Deleters,
           NEW pc \in {"idle", "vectors", "registry", "refused"}, NEW d \in Documents,
           deletion' \in { [deletion EXCEPT ![x] = [pc |-> pc, document |-> d]],
                          [deletion EXCEPT ![x] = IdleDeletion] }
    PROVE  DeletionTypeOK'
BY DEF DeletionTypeOK, Deletion, IdleDeletion

LEMMA DeletionPcType ==
    ASSUME DeletionTypeOK, NEW x \in Deleters, deletion[x].pc # "idle",
           NEW pc \in {"vectors", "registry", "refused"},
           deletion' = [deletion EXCEPT ![x].pc = pc]
    PROVE  DeletionTypeOK'
BY DEF DeletionTypeOK, Deletion

LEMMA DeleteStepType ==
    ASSUME TypeOK, NEW x \in Deleters, DeleteStep(x)
    PROVE  TypeOK'
<1> USE DEF TypeOK
<1>1. deletion[x].pc # "idle" => deletion[x].document \in Documents
  BY DEF DeletionTypeOK
<1>2. CASE RemoveVectors(x)
  <2>1. DeletionTypeOK'
    BY <1>2, DeletionPcType DEF RemoveVectors
  <2>2. ChunkStoreTypeOK' /\ RegistryTypeOK'
    BY <1>2, DeletePointsType, SameRegistryType DEF RemoveVectors, DeleteDocumentPoints
  <2> QED
    BY <1>2, <2>1, <2>2 DEF RemoveVectors, RunTypeOK
<1>3. CASE RemoveVectorsFails(x)
  <2>1. DeletionTypeOK'
    BY <1>1, <1>3, DeletionType DEF RemoveVectorsFails
  <2>2. ChunkStoreTypeOK' /\ RegistryTypeOK'
    BY <1>3, DeletePointsType, SamePointsType, SameRegistryType
    DEF RemoveVectorsFails, DeleteDocumentPoints
  <2> QED
    BY <1>3, <2>1, <2>2 DEF RemoveVectorsFails, RunTypeOK
<1>4. CASE CommitDelete(x)
  <2>1. DeletionTypeOK'
    BY <1>1, <1>4, DeletionType DEF CommitDelete
  <2>2. ChunkStoreTypeOK' /\ RegistryTypeOK'
    BY <1>4, MarkDeletedType, SamePointsType DEF CommitDelete
  <2> QED
    BY <1>4, <2>1, <2>2 DEF CommitDelete, RunTypeOK
<1>5. CASE RefuseDelete(x)
  <2>1. DeletionTypeOK'
    BY <1>5, DeletionPcType DEF RefuseDelete
  <2>2. ChunkStoreTypeOK' /\ RegistryTypeOK'
    BY <1>5, SamePointsType, SameRegistryType DEF RefuseDelete
  <2> QED
    BY <1>5, <2>1, <2>2 DEF RefuseDelete, RunTypeOK
<1> QED
  BY <1>2, <1>3, <1>4, <1>5 DEF DeleteStep

LEMMA TickType ==
    ASSUME TypeOK, Tick
    PROVE  TypeOK'
<1> USE DEF TypeOK
<1>1. RegistryTypeOK'
  BY AgedType DEF Tick, RegistryTypeOK
<1>2. RunTypeOK'
  <2>1. \A r \in Runners : run[r] \in Run /\ Aged(run[r].snap) \in JobRow
    BY AgedType DEF RunTypeOK, Run
  <2>2. \A r \in Runners :
          /\ [run[r] EXCEPT !.snap = Aged(run[r].snap)] \in Run
          /\ [run[r] EXCEPT !.snap = Aged(run[r].snap)].pc = run[r].pc
          /\ [run[r] EXCEPT !.snap = Aged(run[r].snap)].version = run[r].version
    BY <2>1 DEF Run
  <2> QED
    BY <2>2 DEF Tick, RunTypeOK
<1> QED
  BY <1>1, <1>2, SamePointsType DEF Tick, DeletionTypeOK

LEMMA InitType == Init => TypeOK
<1> SUFFICES ASSUME Init PROVE TypeOK
  OBVIOUS
<1>1. RegistryTypeOK
  BY NoJobType DEF Init, RegistryInit, RegistryTypeOK
<1>2. ChunkStoreTypeOK
  BY DEF Init, ChunkStoreInit, ChunkStoreTypeOK, PointState
<1>3. RunTypeOK
  BY IdleRunType DEF Init, RunTypeOK, IdleRun
<1>4. DeletionTypeOK
  BY DEF Init, DeletionTypeOK, Deletion, IdleDeletion
<1> QED
  BY <1>1, <1>2, <1>3, <1>4, PipelineAssumption DEF Init, TypeOK

LEMMA NextType == TypeOK /\ [Next]_vars => TypeOK'
<1> SUFFICES ASSUME TypeOK, [Next]_vars PROVE TypeOK'
  OBVIOUS
<1>1. CASE \E v \in Versions, k \in Keys \cup {NoKey} : Upload(v, k)
  BY <1>1, UploadType
<1>2. CASE \E r \in Pollers, v \in Versions : Poll(r, v)
  BY <1>2, PollType
<1>3. CASE \E r \in Runners : RunStep(r)
  BY <1>3, RunStepType
<1>4. CASE \E r \in Runners : Crash(r)
  <2>1. PICK r \in Runners : Crash(r)
    BY <1>4
  <2>2. RegistryTypeOK' /\ ChunkStoreTypeOK' /\ RunTypeOK'
    BY <2>1, StopType, SamePointsType, SameRegistryType DEF Crash, TypeOK
  <2>3. crashes' \in 0..MaxCrashes
    BY <2>1, PipelineAssumption DEF Crash, TypeOK
  <2> QED
    BY <2>1, <2>2, <2>3 DEF Crash, TypeOK, DeletionTypeOK
<1>5. CASE \E x \in Deleters, d \in Documents : RequestDelete(x, d)
  <2>1. PICK x \in Deleters, d \in Documents : RequestDelete(x, d)
    BY <1>5
  <2>2. DeletionTypeOK'
    BY <2>1, DeletionType DEF RequestDelete, TypeOK
  <2>3. RegistryTypeOK' /\ ChunkStoreTypeOK'
    BY <2>1, SamePointsType, SameRegistryType DEF RequestDelete, TypeOK
  <2> QED
    BY <2>1, <2>2, <2>3 DEF RequestDelete, TypeOK, RunTypeOK
<1>6. CASE \E x \in Deleters : DeleteStep(x)
  BY <1>6, DeleteStepType
<1>7. CASE Tick
  BY <1>7, TickType
<1>8. CASE UNCHANGED vars
  BY <1>8 DEF vars, TypeOK, RegistryTypeOK, ChunkStoreTypeOK, RunTypeOK, DeletionTypeOK
<1> QED
  BY <1>1, <1>2, <1>3, <1>4, <1>5, <1>6, <1>7, <1>8 DEF Next

(* The variables of the pipeline always have their types.                  *)
THEOREM TypeCorrect == Spec => []TypeOK
BY InitType, NextType, PTL DEF Spec

-----------------------------------------------------------------------------
(* Only the registry switch makes a version active.                        *)
LEMMA OnlySwitchActivates ==
    ASSUME TypeOK, [Next]_vars, NEW v \in Versions,
           documentStatus'[v] = "active", documentStatus[v] # "active"
    PROVE  \E r \in Runners : Switch(r)
<1> SUFFICES ASSUME \A r \in Runners : ~Switch(r) PROVE FALSE
  OBVIOUS
<1> USE DEF TypeOK, RegistryTypeOK
<1>1. CASE \E w \in Versions, k \in Keys \cup {NoKey} : Upload(w, k)
  BY <1>1 DEF Upload, Accept
<1>2. CASE \E r \in Runners : MarkIndexing(r) \/ MarkFailed(r)
  BY <1>2 DEF MarkIndexing, MarkFailed, SetDocumentStatus
<1>3. CASE \E x \in Deleters : CommitDelete(x)
  BY <1>3 DEF CommitDelete, MarkDeleted
<1>4. CASE UNCHANGED documentStatus
  BY <1>4
<1>5. CASE \E r \in Runners : RunStep(r) \/ Crash(r)
  BY <1>2, <1>4, <1>5
  DEF RunStep, Claim, SkipJob, RunUnclaimed, Report, FinishStage, Prepare, Stage, Verify,
      Publish, Clean, Succeed, PrepareFails, StageFails, VerifyFails, PublishFails,
      SwitchFails, RegistryFails, FinishFailed, Discard, DiscardFails, ReportFailed,
      ReportRetry, Crash, registryVars
<1>6. CASE \E x \in Deleters : DeleteStep(x)
  BY <1>3, <1>4, <1>6
  DEF DeleteStep, RemoveVectors, RemoveVectorsFails, RefuseDelete, registryVars
<1> QED
  BY <1>1, <1>4, <1>5, <1>6 DEF Next, Poll, RequestDelete, Tick, vars, registryVars

LEMMA AtMostOneActiveStep == TypeOK /\ AtMostOneActive /\ [Next]_vars => AtMostOneActive'
<1> SUFFICES ASSUME TypeOK, AtMostOneActive, [Next]_vars,
                    NEW v \in Versions, NEW w \in Versions,
                    DocumentOf[v] = DocumentOf[w],
                    documentStatus'[v] = "active", documentStatus'[w] = "active"
             PROVE  v = w
  BY DEF AtMostOneActive
<1>1. CASE \E r \in Runners : Switch(r)
  <2>1. PICK r \in Runners : Switch(r)
    BY <1>1
  <2>2. run[r].version \in Versions
    BY <2>1 DEF Switch, At, TypeOK, RunTypeOK
  <2>3. ASSUME NEW u \in Versions, DocumentOf[u] = DocumentOf[run[r].version],
               documentStatus'[u] = "active"
        PROVE  u = run[r].version
    BY <2>1, <2>2, <2>3
    DEF Switch, ActivateDocumentVersion, OtherVersions, VersionsOf
  <2>4. ASSUME NEW u \in Versions, DocumentOf[u] # DocumentOf[run[r].version],
               documentStatus'[u] = "active"
        PROVE  documentStatus[u] = "active"
    BY <2>1, <2>2, <2>4
    DEF Switch, ActivateDocumentVersion, OtherVersions, VersionsOf
  <2> QED
    BY <2>2, <2>3, <2>4 DEF AtMostOneActive
<1>2. CASE \A r \in Runners : ~Switch(r)
  <2>1. documentStatus[v] = "active" /\ documentStatus[w] = "active"
    BY <1>2, OnlySwitchActivates
  <2> QED
    BY <2>1 DEF AtMostOneActive
<1> QED
  BY <1>1, <1>2

(* At most one version of a document is ever active, whatever tasks        *)
(* overlap, fail or crash: the transaction of the switch is enough.        *)
THEOREM OneActiveVersion == Spec => []AtMostOneActive
<1>1. Init => AtMostOneActive
  BY DEF Init, RegistryInit, AtMostOneActive
<1> QED
  BY <1>1, AtMostOneActiveStep, TypeCorrect, PTL DEF Spec

-----------------------------------------------------------------------------
(* What KeysPinned needs: a key in use names a stored row, and the last    *)
(* write of a failed run, which alone does not set the status, has one.    *)
KeysInv ==
    /\ \A k \in Keys : keys[k] # NoVersion => Stored(keys[k])
    /\ \A r \in Runners : At(r, "report_retry") => run[r].snap.status = "failed"

LEMMA RowsStay ==
    ASSUME TypeOK, KeysInv, [Next]_vars, NEW v \in Versions, Stored(v)
    PROVE  Stored(v)'
<1> USE DEF Stored
<1>0. job \in [Versions -> JobRow]
  BY DEF TypeOK, RegistryTypeOK
<1>1. CASE \E w \in Versions, k \in Keys \cup {NoKey} : Upload(w, k)
  BY <1>0, <1>1 DEF Upload, Accept
<1>2. CASE \E r \in Runners : Claim(r)
  BY <1>0, <1>2 DEF Claim, ClaimJob, ClaimedRow
<1>3. CASE \E r \in Runners : Report(r) \/ Succeed(r) \/ ReportFailed(r)
  <2>1. PICK r \in Runners : Report(r) \/ Succeed(r) \/ ReportFailed(r)
    BY <1>3
  <2>2. PICK s \in JobStatus :
          job' = [job EXCEPT ![run[r].version] = [run[r].snap EXCEPT !.status = s]]
    BY <2>1 DEF Report, Succeed, ReportFailed, UpdateJob, JobStatus
  <2>3. run[r].snap \in JobRow
    BY DEF TypeOK, RunTypeOK, Run
  <2>4. [run[r].snap EXCEPT !.status = s].status # "none"
    BY <2>3 DEF JobRow, JobStatus
  <2> QED
    BY <1>0, <2>2, <2>4
<1>4. CASE \E r \in Runners : ReportRetry(r)
  <2>1. PICK r \in Runners : ReportRetry(r)
    BY <1>4
  <2>2. run[r].snap \in JobRow /\ run[r].snap.status = "failed"
    BY <2>1 DEF ReportRetry, KeysInv, TypeOK, RunTypeOK, Run
  <2>3. RetryRow(run[r].snap, run[r].rejected).status = "failed"
    BY <2>2 DEF RetryRow, JobRow
  <2> QED
    BY <1>0, <2>1, <2>3 DEF ReportRetry, UpdateJob
<1>5. CASE Tick
  BY <1>0, <1>5 DEF Tick, Aged
<1>6. CASE UNCHANGED job
  BY <1>6
<1>7. CASE \E r \in Runners : RunStep(r) \/ Crash(r)
  BY <1>2, <1>3, <1>4, <1>6, <1>7
  DEF RunStep, SkipJob, RunUnclaimed, MarkIndexing, FinishStage, Prepare, Stage, Verify,
      Publish, Switch, Clean, PrepareFails, StageFails, VerifyFails, PublishFails,
      SwitchFails, RegistryFails, FinishFailed, Discard, DiscardFails, MarkFailed,
      Crash, registryVars
<1>8. CASE \E x \in Deleters : DeleteStep(x)
  BY <1>6, <1>8
  DEF DeleteStep, RemoveVectors, RemoveVectorsFails, CommitDelete, RefuseDelete, registryVars
<1> QED
  BY <1>1, <1>5, <1>6, <1>7, <1>8 DEF Next, Poll, RequestDelete, vars, registryVars

LEMMA OnlyUploadsBindKeys ==
    ASSUME TypeOK, [Next]_vars
    PROVE  \/ UNCHANGED keys
           \/ \E v \in Versions, k \in Keys \cup {NoKey} : Upload(v, k)
<1>1. ASSUME NEW r \in Runners, RunStep(r) \/ Crash(r) PROVE UNCHANGED keys
  BY <1>1
  DEF RunStep, Claim, SkipJob, RunUnclaimed, MarkIndexing, Report, FinishStage, Prepare,
      Stage, Verify, Publish, Switch, Clean, Succeed, PrepareFails, StageFails,
      VerifyFails, PublishFails, SwitchFails, RegistryFails, FinishFailed, Discard,
      DiscardFails, MarkFailed, ReportFailed, ReportRetry, Crash, registryVars, onlyRun
<1>2. ASSUME NEW x \in Deleters, DeleteStep(x) PROVE UNCHANGED keys
  BY <1>2
  DEF DeleteStep, RemoveVectors, RemoveVectorsFails, CommitDelete, RefuseDelete, registryVars
<1> QED
  BY <1>1, <1>2 DEF Next, Poll, RequestDelete, Tick, vars, registryVars

(* A task reaches the second write of a failed run only by the first.      *)
LEMMA OnlyReportFailed ==
    ASSUME TypeOK, [Next]_vars, NEW r \in Runners, run'[r].pc = "report_retry"
    PROVE  ReportFailed(r) \/ run'[r] = run[r] \/ Tick
<1> USE DEF TypeOK, RunTypeOK
<1>1. CASE UNCHANGED run
  BY <1>1
<1>2. CASE \E v \in Versions, k \in Keys \cup {NoKey} : Upload(v, k)
  BY <1>1, <1>2 DEF Upload, IdleRun, Runners
<1>3. CASE \E q \in Pollers, v \in Versions : Poll(q, v)
  BY <1>3 DEF Poll, IdleRun, Runners
<1>4. ASSUME NEW q \in Runners, RunStep(q) \/ Crash(q)
      PROVE  ReportFailed(r) \/ run'[r] = run[r]
  <2>1. CASE q # r
    BY <1>4, <2>1
    DEF RunStep, Claim, SkipJob, RunUnclaimed, MarkIndexing, Report, FinishStage, Prepare,
        Stage, Verify, Publish, Switch, Clean, Succeed, PrepareFails, StageFails,
        VerifyFails, PublishFails, SwitchFails, RegistryFails, FinishFailed, Discard,
        DiscardFails, MarkFailed, ReportFailed, ReportRetry, Crash, Goto, Stop
  <2>2. CASE q = r
    <3> SUFFICES ASSUME ~ReportFailed(r) PROVE FALSE
      OBVIOUS
    <3>1. ~ (Claim(r) \/ RunUnclaimed(r) \/ Prepare(r) \/ Stage(r) \/ Publish(r) \/ PrepareFails(r))
      BY DEF Claim, RunUnclaimed, Prepare, Stage, Publish, PrepareFails, Run
    <3>2. ~ (MarkIndexing(r) \/ Verify(r) \/ Switch(r) \/ Clean(r) \/ StageFails(r)
             \/ VerifyFails(r) \/ PublishFails(r) \/ SwitchFails(r) \/ Discard(r)
             \/ MarkFailed(r) \/ RegistryFails(r))
      BY DEF MarkIndexing, Verify, Switch, Clean, StageFails, VerifyFails, PublishFails,
             SwitchFails, Discard, MarkFailed, RegistryFails, AfterFailure, Goto, Run
    <3>3. ~ (SkipJob(r) \/ Succeed(r) \/ DiscardFails(r) \/ ReportRetry(r) \/ Crash(r))
      BY DEF SkipJob, Succeed, DiscardFails, ReportRetry, Crash, Stop, IdleRun
    <3>4. ~ Report(r)
      BY DEF Report, ReportPc, NextStage, Run
    <3>5. ~ FinishStage(r)
      BY DEF FinishStage, FinishPc, NextReport, Run
    <3>6. ~ FinishFailed(r)
      BY DEF FinishFailed, AfterFailure, Run
    <3> QED
      BY <1>4, <2>2, <3>1, <3>2, <3>3, <3>4, <3>5, <3>6 DEF RunStep
  <2> QED
    BY <2>1, <2>2
<1>5. ASSUME NEW x \in Deleters, DeleteStep(x) PROVE UNCHANGED run
  BY <1>5
  DEF DeleteStep, RemoveVectors, RemoveVectorsFails, CommitDelete, RefuseDelete
<1> QED
  BY <1>1, <1>2, <1>3, <1>4, <1>5 DEF Next, RequestDelete, vars

LEMMA KeysInvStep == TypeOK /\ KeysInv /\ [Next]_vars => KeysInv'
<1> SUFFICES ASSUME TypeOK, KeysInv, [Next]_vars PROVE KeysInv'
  OBVIOUS
<1>1. ASSUME NEW k \in Keys, keys'[k] # NoVersion PROVE job'[keys'[k]].status # "none"
  <2>1. CASE UNCHANGED keys
    <3>1. keys[k] \in Versions /\ Stored(keys[k])
      BY <1>1, <2>1 DEF KeysInv, TypeOK, RegistryTypeOK
    <3> QED
      BY <2>1, <3>1, RowsStay DEF Stored
  <2>2. CASE \E v \in Versions, i \in Keys \cup {NoKey} : Upload(v, i)
    <3>1. PICK v \in Versions, i \in Keys \cup {NoKey} : Upload(v, i)
      BY <2>2
    <3>2. job'[v].status # "none"
      BY <3>1 DEF Upload, Accept, Stored, NoJob, TypeOK, RegistryTypeOK
    <3>3. CASE k = i
      BY <1>1, <3>1, <3>2, <3>3 DEF Upload, Accept
    <3>4. CASE k # i
      <4>1. keys'[k] = keys[k] /\ keys[k] \in Versions /\ Stored(keys[k])
        BY <1>1, <3>1, <3>4 DEF Upload, Accept, KeysInv, TypeOK, RegistryTypeOK
      <4>2. Stored(keys[k])'
        BY <4>1, RowsStay
      <4> QED
        BY <4>1, <4>2 DEF Stored
    <3> QED
      BY <3>3, <3>4
  <2> QED
    BY <2>1, <2>2, OnlyUploadsBindKeys
<1>2. ASSUME NEW r \in Runners, run'[r].pc = "report_retry"
      PROVE  run'[r].snap.status = "failed"
  <2>1. CASE ReportFailed(r)
    BY <2>1 DEF ReportFailed, TypeOK, RunTypeOK, Run, JobRow
  <2>2. CASE run'[r] = run[r]
    BY <1>2, <2>2 DEF KeysInv, At
  <2>3. CASE Tick
    BY <1>2, <2>3 DEF Tick, Aged, KeysInv, At, TypeOK, RunTypeOK, Run
  <2> QED
    BY <1>2, <2>1, <2>2, <2>3, OnlyReportFailed
<1> QED
  BY <1>1, <1>2 DEF KeysInv, Stored, At

(* An Idempotency-Key stays bound to the upload that used it first, and    *)
(* that upload's row is never lost.                                        *)
THEOREM KeysStayPinned == Spec => KeysPinned
<1>1. Init => KeysInv
  BY DEF Init, RegistryInit, KeysInv, IdleRun, At
<1>2. TypeOK /\ KeysInv /\ [Next]_vars
        => [\A k \in Keys : keys[k] # NoVersion =>
              keys'[k] = keys[k] /\ job'[keys[k]].status # "none"]_vars
  <2> SUFFICES ASSUME TypeOK, KeysInv, [Next]_vars, NEW k \in Keys, keys[k] # NoVersion
               PROVE  keys'[k] = keys[k] /\ job'[keys[k]].status # "none"
    OBVIOUS
  <2>1. keys[k] \in Versions /\ Stored(keys[k])
    BY DEF KeysInv, TypeOK, RegistryTypeOK
  <2>2. job'[keys[k]].status # "none"
    BY <2>1, RowsStay DEF Stored
  <2>3. keys'[k] = keys[k]
    BY <2>1, OnlyUploadsBindKeys, RegistryAssumption, IdentityAssumption
    DEF Upload, Accept, KeyConflict
  <2> QED
    BY <2>2, <2>3
<1> QED
  BY <1>1, <1>2, KeysInvStep, TypeCorrect, PTL DEF Spec, KeysPinned

-----------------------------------------------------------------------------
(* One worker process without a delete request going on, the deployment of *)
(* compose.yaml.  The remaining theorems need it: run_job relies on  *)
(* its lease, which neither renews nor fences a second task.               *)
SoleWorker == (\A q, r \in Runners : q = r) /\ Deleters = {}

AfterPublish == {"switch", "clean", "finish_activate", "report_succeeded", "finish_failed",
                 "mark_failed", "report_failed", "report_retry"}

(* Where the task r stands tells what both stores say of its version.      *)
RunInv(r) ==
    /\ run[r].published => run[r].pc \in AfterPublish
    /\ At(r, "switch") => run[r].published /\ FullyActive(run[r].version)
    /\ run[r].pc \notin {"idle", "claim", "mark_indexing"} /\ ~run[r].published
         => documentStatus[run[r].version] # "active"
    /\ run[r].pc \in {"finish_verify", "report_verified", "publish"}
         => VerifiesStaged(run[r].version)
    /\ At(r, "clean")
         => \A w \in OtherVersions(run[r].version) : documentStatus[w] # "active"

ServingInv == ActiveServable /\ \A r \in Runners : RunInv(r)

LEMMA GotoFields ==
    ASSUME RunTypeOK, NEW r \in Runners, NEW pc, Goto(r, pc)
    PROVE  /\ run'[r].pc = pc
           /\ run'[r].version = run[r].version
           /\ run'[r].published = run[r].published
BY DEF RunTypeOK, Run, Goto

LEMMA GotoSnapFields ==
    ASSUME RunTypeOK, NEW r \in Runners, NEW pc, NEW s,
           run' = [run EXCEPT ![r].pc = pc, ![r].snap = s]
    PROVE  /\ run'[r].pc = pc
           /\ run'[r].version = run[r].version
           /\ run'[r].published = run[r].published
BY DEF RunTypeOK, Run

LEMMA StopInv ==
    ASSUME RunTypeOK, NEW r \in Runners, Stop(r)
    PROVE  RunInv(r)'
BY DEF RunTypeOK, Stop, IdleRun, RunInv, At

(* A task in the pc of a step that leaves both stores alone.               *)
LEMMA QuietStep ==
    ASSUME NEW r \in Runners, RunInv(r), UNCHANGED <<documentStatus, points>>,
           run'[r].version = run[r].version,
           run'[r].published = run[r].published,
           run[r].published => run'[r].pc \in AfterPublish,
           run'[r].pc \notin {"switch", "clean"},
           run[r].pc \in {"idle", "claim", "mark_indexing"}
             => run'[r].pc \in {"idle", "claim", "mark_indexing"},
           run'[r].pc \in {"finish_verify", "report_verified", "publish"}
             => VerifiesStaged(run[r].version)
    PROVE  RunInv(r)'
<1>1. run'[r].pc \notin {"idle", "claim", "mark_indexing"} /\ ~run'[r].published
         => documentStatus'[run'[r].version] # "active"
  BY DEF RunInv
<1>2. run'[r].pc \in {"finish_verify", "report_verified", "publish"}
         => \A c \in Chunks : points'[run'[r].version][c] = "inactive"
  BY DEF VerifiesStaged
<1> QED
  BY <1>1, <1>2 DEF RunInv, At, VerifiesStaged

(* A step of the task keeps every active version whole and published.      *)
LEMMA RunStepServes ==
    ASSUME SoleWorker, TypeOK, ServingInv, NEW r \in Runners, RunStep(r)
    PROVE  ActiveServable'
<1> DEFINE v == run[r].version
<1>inv. RunInv(r)
  BY DEF ServingInv
<1>types. points \in [Versions -> [Chunks -> PointState]] /\ (~At(r, "idle") => v \in Versions)
  BY DEF TypeOK, ChunkStoreTypeOK, RunTypeOK, At
<1> SUFFICES ASSUME NEW w \in Versions, documentStatus'[w] = "active", NEW c \in Chunks
             PROVE  points'[w][c] = "active"
  BY DEF ActiveServable, FullyActive
<1>1. CASE Switch(r)
  <2>1. UNCHANGED points /\ At(r, "switch") /\ v \in Versions
    BY <1>1, <1>types DEF Switch, At
  <2>2. w = v \/ documentStatus[w] = "active"
    BY <1>1 DEF Switch, ActivateDocumentVersion
  <2>3. FullyActive(w)
    BY <1>inv, <2>1, <2>2 DEF RunInv, ServingInv, ActiveServable
  <2> QED
    BY <2>1, <2>3 DEF FullyActive
<1>2. CASE ~Switch(r)
  <2>1. [Next]_vars /\ \A q \in Runners : ~Switch(q)
    BY <1>2 DEF Next, SoleWorker
  <2>2. documentStatus[w] = "active"
    BY <2>1, OnlySwitchActivates
  <2>3. points[w][c] = "active"
    BY <2>2 DEF ServingInv, ActiveServable, FullyActive
  <2>4. CASE UNCHANGED points
    BY <2>3, <2>4
  <2>5. CASE Stage(r) \/ StageFails(r)
    <3>1. v # w
      BY <1>inv, <2>2, <2>5 DEF Stage, StageFails, At, RunInv, AfterPublish
    <3> QED
      BY <1>types, <2>3, <2>5, <3>1 DEF Stage, StageFails, StageVersion, At
  <2>6. CASE Publish(r) \/ PublishFails(r)
    BY <2>3, <2>4, <2>6 DEF Publish, PublishFails, ActivateVersion, SetPayload
  <2>7. CASE Clean(r)
    <3>1. w \notin OtherVersions(v)
      BY <1>inv, <2>2, <2>7 DEF Clean, At, RunInv
    <3> QED
      BY <2>3, <2>4, <2>7, <3>1 DEF Clean, DeactivatePreviousVersions, SetPayload
  <2>8. CASE Discard(r) \/ DiscardFails(r)
    <3>1. v # w
      BY <1>inv, <2>2, <2>8 DEF Discard, DiscardFails, At, RunInv, AfterPublish
    <3> QED
      BY <2>3, <2>4, <2>8, <3>1 DEF Discard, DiscardFails, DiscardVersion, DeletePoints
  <2> QED
    BY <1>2, <2>4, <2>5, <2>6, <2>7, <2>8
    DEF RunStep, Claim, SkipJob, RunUnclaimed, MarkIndexing, Report, FinishStage, Prepare,
        Verify, Succeed, PrepareFails, VerifyFails, SwitchFails, RegistryFails,
        FinishFailed, MarkFailed, ReportFailed, ReportRetry
<1> QED
  BY <1>1, <1>2

(* A step of the task leads it to a state of which RunInv says the truth.  *)
LEMMA RunStepInv ==
    ASSUME TypeOK, NEW r \in Runners, RunInv(r), RunStep(r)
    PROVE  RunInv(r)'
<1> DEFINE v == run[r].version
<1>types. /\ RunTypeOK
          /\ points \in [Versions -> [Chunks -> PointState]]
          /\ documentStatus \in [Versions -> DocumentStatus \cup {"none"}]
          /\ ~At(r, "idle") => v \in Versions
  BY DEF TypeOK, RegistryTypeOK, ChunkStoreTypeOK, RunTypeOK, At
<1>published. run[r].published => run[r].pc \in AfterPublish
  BY DEF RunInv
<1>1. CASE Claim(r)
  <2>1. /\ run'[r].pc = "mark_indexing"
        /\ run'[r].version = v
        /\ run'[r].published = run[r].published
    BY <1>1, <1>types, GotoSnapFields DEF Claim
  <2> QED
    BY <1>1, <1>published, <2>1, QuietStep DEF Claim, At, AfterPublish, onlyRun
<1>2. CASE SkipJob(r) \/ Succeed(r) \/ DiscardFails(r) \/ ReportRetry(r)
  BY <1>2, <1>types, StopInv DEF SkipJob, Succeed, DiscardFails, ReportRetry
<1>3. CASE RunUnclaimed(r)
  <2>1. /\ run'[r].pc = "mark_indexing"
        /\ run'[r].version = v
        /\ run'[r].published = run[r].published
    BY <1>3, <1>types, GotoSnapFields DEF RunUnclaimed
  <2> QED
    BY <1>3, <1>published, <2>1, QuietStep DEF RunUnclaimed, At, AfterPublish, registryVars
<1>4. CASE MarkIndexing(r)
  <2>1. run'[r].pc = "start" /\ run'[r].version = v /\ ~run'[r].published
    BY <1>4, <1>types, <1>published, GotoFields DEF MarkIndexing, At, AfterPublish
  <2>2. documentStatus'[v] # "active"
    BY <1>4, <1>types DEF MarkIndexing, SetDocumentStatus, At
  <2> QED
    BY <2>1, <2>2 DEF RunInv, At
<1>5. CASE Report(r)
  <2>1. /\ run'[r].pc = NextStage[run[r].pc]
        /\ run'[r].version = v
        /\ run'[r].published = run[r].published
    BY <1>5, <1>types, GotoSnapFields DEF Report
  <2>2. ~run[r].published
    BY <1>5, <1>published DEF Report, ReportPc, AfterPublish
  <2>3. run[r].pc = "report_verified" => VerifiesStaged(v)
    BY DEF RunInv
  <2>4. /\ run'[r].pc \in {"prepare", "stage", "verify", "publish"}
        /\ run'[r].pc = "publish" => run[r].pc = "report_verified"
        /\ run[r].pc \notin {"idle", "claim", "mark_indexing"}
    BY <1>5, <2>1 DEF Report, ReportPc, NextStage
  <2> QED
    BY <1>5, <2>1, <2>2, <2>3, <2>4, QuietStep DEF Report, onlyRun
<1>6. CASE FinishStage(r)
  <2>1. /\ run'[r].pc = NextReport[run[r].pc]
        /\ run'[r].version = v
        /\ run'[r].published = run[r].published
    BY <1>6, <1>types, GotoSnapFields DEF FinishStage
  <2>2. run[r].pc = "finish_verify" => VerifiesStaged(v)
    BY DEF RunInv
  <2>3. /\ run'[r].pc \in {"report_staged", "report_verified", "report_succeeded"}
        /\ run'[r].pc = "report_verified" => run[r].pc = "finish_verify"
        /\ run[r].pc = "finish_activate" => run'[r].pc = "report_succeeded"
        /\ run[r].pc \notin {"idle", "claim", "mark_indexing"}
        /\ run[r].pc \in FinishPc
    BY <1>6, <2>1 DEF FinishStage, FinishPc, NextReport
  <2>4. run[r].published => run'[r].pc \in AfterPublish
    BY <1>published, <2>3 DEF FinishPc, AfterPublish
  <2> QED
    BY <1>6, <2>1, <2>2, <2>3, <2>4, QuietStep DEF FinishStage, registryVars
<1>7. CASE Prepare(r)
  <2>1. /\ run'[r].pc = "report_prepared"
        /\ run'[r].version = v
        /\ run'[r].published = run[r].published
    BY <1>7, <1>types, GotoSnapFields DEF Prepare
  <2> QED
    BY <1>7, <1>published, <2>1, QuietStep DEF Prepare, At, AfterPublish, registryVars
<1>8. CASE Stage(r)
  <2>1. /\ run'[r].pc = "finish_stage"
        /\ run'[r].version = v
        /\ run'[r].published = run[r].published
    BY <1>8, <1>types DEF Stage, RunTypeOK, Run
  <2>2. ~run[r].published /\ documentStatus'[v] # "active"
    BY <1>8, <1>published DEF Stage, At, AfterPublish, RunInv, onlyRun
  <2> QED
    BY <2>1, <2>2 DEF RunInv, At
<1>9. CASE Verify(r)
  <2>1. VerifiesStaged(v) /\ ~run[r].published
    BY <1>9, <1>published DEF Verify, At, AfterPublish
  <2> QED
    BY <1>9, <1>types, <2>1, GotoFields, QuietStep DEF Verify, At, registryVars
<1>10. CASE Publish(r)
  <2>1. run'[r].pc = "switch" /\ run'[r].version = v /\ run'[r].published
    BY <1>10, <1>types DEF Publish, RunTypeOK, Run
  <2>2. ASSUME NEW c \in Chunks PROVE points'[v][c] = "active"
    <3>1. points[v][c] = "inactive" /\ v \in Versions
      BY <1>10, <1>types DEF Publish, At, RunInv, VerifiesStaged
    <3> QED
      BY <1>10, <3>1 DEF Publish, ActivateVersion, SetPayload
  <2> QED
    BY <2>1, <2>2 DEF RunInv, At, FullyActive, AfterPublish
<1>11. CASE Switch(r)
  <2>1. run'[r].pc = "clean" /\ run'[r].version = v /\ run'[r].published
    BY <1>11, <1>types, GotoFields DEF Switch, RunInv
  <2>2. \A w \in OtherVersions(v) : documentStatus'[w] # "active"
    BY <1>11 DEF Switch, ActivateDocumentVersion, OtherVersions, VersionsOf
  <2> QED
    BY <2>1, <2>2 DEF RunInv, At, AfterPublish
<1>12. CASE Clean(r)
  <2>1. /\ run'[r].pc = "finish_activate"
        /\ run'[r].version = v
        /\ run'[r].published = run[r].published
    BY <1>12, <1>types, GotoFields DEF Clean
  <2>2. ~run[r].published => documentStatus'[v] # "active"
    BY <1>12 DEF Clean, At, RunInv, onlyRun
  <2> QED
    BY <2>1, <2>2 DEF RunInv, At, AfterPublish
<1>13. CASE PrepareFails(r)
  <2>1. /\ run'[r].pc = "finish_failed"
        /\ run'[r].version = v
        /\ run'[r].published = run[r].published
    BY <1>13, <1>types DEF PrepareFails, RunTypeOK, Run
  <2> QED
    BY <1>13, <2>1, QuietStep DEF PrepareFails, At, AfterPublish, registryVars
<1>14. CASE StageFails(r) \/ PublishFails(r)
  <2>1. /\ run'[r].pc = "finish_failed"
        /\ run'[r].version = v
        /\ run'[r].published = run[r].published
    BY <1>14, <1>types, GotoFields DEF StageFails, PublishFails
  <2>2. ~run[r].published => documentStatus'[v] # "active"
    BY <1>14 DEF StageFails, PublishFails, At, RunInv, onlyRun
  <2> QED
    BY <2>1, <2>2 DEF RunInv, At, AfterPublish
<1>15. CASE VerifyFails(r) \/ SwitchFails(r)
  BY <1>15, <1>types, GotoFields, QuietStep
  DEF VerifyFails, SwitchFails, At, AfterPublish, registryVars
<1>16. CASE RegistryFails(r)
  <2>1. run[r].published => AfterFailure(r) = "mark_failed"
    BY DEF AfterFailure
  <2>2. AfterFailure(r) \in {"discard", "mark_failed"}
    BY DEF AfterFailure
  <2> QED
    BY <1>16, <1>types, <2>1, <2>2, GotoFields, QuietStep
    DEF RegistryFails, FinishPc, ReportPc, BeginPc, AfterPublish, registryVars
<1>17. CASE FinishFailed(r)
  <2>1. run[r].published => AfterFailure(r) = "mark_failed"
    BY DEF AfterFailure
  <2>2. AfterFailure(r) \in {"discard", "mark_failed"}
    BY DEF AfterFailure
  <2> QED
    BY <1>17, <1>types, <2>1, <2>2, GotoSnapFields, QuietStep
    DEF FinishFailed, At, AfterPublish, registryVars
<1>18. CASE Discard(r)
  <2>1. /\ run'[r].pc = "mark_failed"
        /\ run'[r].version = v
        /\ run'[r].published = run[r].published
    BY <1>18, <1>types, GotoFields DEF Discard
  <2>2. ~run[r].published => documentStatus'[v] # "active"
    BY <1>18 DEF Discard, At, RunInv, onlyRun
  <2> QED
    BY <2>1, <2>2 DEF RunInv, At, AfterPublish
<1>19. CASE MarkFailed(r)
  <2>1. run'[r].pc = "report_failed" /\ run'[r].version = v
    BY <1>19, <1>types, GotoFields DEF MarkFailed
  <2>2. documentStatus'[v] # "active"
    BY <1>19, <1>types DEF MarkFailed, SetDocumentStatus, At
  <2> QED
    BY <2>1, <2>2 DEF RunInv, At, AfterPublish
<1>20. CASE ReportFailed(r)
  <2>1. /\ run'[r].pc = "report_retry"
        /\ run'[r].version = v
        /\ run'[r].published = run[r].published
    BY <1>20, <1>types, GotoSnapFields DEF ReportFailed
  <2> QED
    BY <1>20, <1>published, <2>1, QuietStep DEF ReportFailed, At, AfterPublish, onlyRun
<1> QED
  BY <1>1, <1>2, <1>3, <1>4, <1>5, <1>6, <1>7, <1>8, <1>9, <1>10, <1>11, <1>12, <1>13,
     <1>14, <1>15, <1>16, <1>17, <1>18, <1>19, <1>20
  DEF RunStep

LEMMA ServingInvStep ==
    ASSUME SoleWorker, TypeOK, ServingInv, [Next]_vars
    PROVE  ServingInv'
<1>1. CASE \E r \in Runners : RunStep(r)
  <2>1. PICK r \in Runners : RunStep(r)
    BY <1>1
  <2>2. ActiveServable'
    BY <2>1, RunStepServes
  <2>3. RunInv(r)'
    BY <2>1, RunStepInv DEF ServingInv
  <2> QED
    BY <2>2, <2>3 DEF ServingInv, SoleWorker
<1>2. ASSUME \A w \in Versions : documentStatus'[w] = "active" => documentStatus[w] = "active",
             UNCHANGED points
      PROVE  ActiveServable'
  BY <1>2 DEF ServingInv, ActiveServable, FullyActive
<1>3. CASE \E v \in Versions, k \in Keys \cup {NoKey} : Upload(v, k)
  <2>1. PICK u \in Versions, k \in Keys \cup {NoKey} : Upload(u, k)
    BY <1>3
  <2>2. \A w \in Versions : documentStatus'[w] = "active" => documentStatus[w] = "active"
    BY <2>1 DEF Upload, Accept, TypeOK, RegistryTypeOK
  <2>3. ASSUME NEW r \in Runners PROVE RunInv(r)'
    <3>1. run[r].pc # "idle" => run[r].version \in Versions
      BY DEF TypeOK, RunTypeOK
    <3>2. run[r].pc \in AfterPublish \/ ~run[r].published
      BY DEF ServingInv, RunInv
    <3>3. CASE run'[r] = run[r]
      <4>1. At(r, "clean") => \A w \in OtherVersions(run[r].version) : documentStatus'[w] # "active"
        BY <2>2 DEF ServingInv, RunInv, OtherVersions, VersionsOf
      <4>2. UNCHANGED points
        BY <2>1 DEF Upload
      <4> QED
        BY <2>2, <3>1, <3>3, <4>1, <4>2
        DEF ServingInv, RunInv, At, VerifiesStaged, FullyActive
    <3>4. CASE run'[r].pc = "claim" /\ ~run'[r].published
      BY <3>4 DEF RunInv, At
    <3> QED
      BY <2>1, <3>3, <3>4 DEF Upload, TypeOK, RunTypeOK, IdleRun
  <2> QED
    BY <1>2, <2>1, <2>2, <2>3 DEF ServingInv, Upload
<1>4. CASE \E r \in Pollers, v \in Versions : Poll(r, v)
  <2>1. PICK q \in Pollers, v \in Versions : Poll(q, v)
    BY <1>4
  <2>2. UNCHANGED <<documentStatus, points>>
    BY <2>1 DEF Poll, registryVars
  <2>3. run'[q].pc = "claim" /\ ~run'[q].published /\ q \in Runners
    BY <2>1 DEF Poll, TypeOK, RunTypeOK, IdleRun, Runners
  <2>4. RunInv(q)'
    BY <2>3 DEF RunInv, At
  <2> QED
    BY <1>2, <2>2, <2>3, <2>4 DEF ServingInv, SoleWorker
<1>5. CASE \E r \in Runners : Crash(r)
  <2>1. PICK r \in Runners : Crash(r)
    BY <1>5
  <2>2. RunInv(r)'
    BY <2>1, StopInv DEF Crash, TypeOK
  <2> QED
    BY <1>2, <2>1, <2>2 DEF Crash, registryVars, ServingInv, SoleWorker
<1>6. CASE Tick \/ UNCHANGED vars
  <2>1. UNCHANGED <<documentStatus, points>>
    BY <1>6 DEF Tick, vars
  <2>2. ASSUME NEW r \in Runners
        PROVE  /\ run'[r].pc = run[r].pc
               /\ run'[r].version = run[r].version
               /\ run'[r].published = run[r].published
    BY <1>6 DEF Tick, vars, TypeOK, RunTypeOK, Run
  <2>3. ASSUME NEW r \in Runners PROVE RunInv(r)'
    BY <2>1, <2>2 DEF ServingInv, RunInv, At, VerifiesStaged, FullyActive
  <2> QED
    BY <1>2, <2>1, <2>3 DEF ServingInv
<1> QED
  BY <1>1, <1>3, <1>4, <1>5, <1>6 DEF Next, SoleWorker

LEMMA ServingInvInit == Init => ServingInv
BY DEF Init, RegistryInit, ServingInv, ActiveServable, RunInv, IdleRun, At

LEMMA ServingInvHolds == ASSUME SoleWorker PROVE Spec => []ServingInv
<1>1. TypeOK /\ ServingInv /\ [Next]_vars => ServingInv'
  BY ServingInvStep
<1> QED
  BY <1>1, ServingInvInit, TypeCorrect, PTL DEF Spec

(* With one worker, every version a search is filtered by is in Qdrant     *)
(* with all its points published, at every step of every run, failed run,  *)
(* crash and retry.                                                        *)
THEOREM ActiveIsServable == ASSUME SoleWorker PROVE Spec => []ActiveServable
<1>1. ServingInv => ActiveServable
  BY DEF ServingInv
<1> QED
  BY <1>1, ServingInvHolds, PTL

-----------------------------------------------------------------------------
(* The pipeline implements ServedVersion.                                  *)
ServedBy == [d \in Documents |-> ActiveVersions(d)]
WholeVersions == {v \in Versions : FullyActive(v)}

LEMMA SwitchServes ==
    ASSUME ServingInv, NEW r \in Runners, Switch(r),
           NEW v \in Versions, v = run[r].version
    PROVE  Readers!Serve(v)
<1>1. FullyActive(v) /\ UNCHANGED points
  BY DEF Switch, At, ServingInv, RunInv
<1>2. ActiveVersions(DocumentOf[v])' = {v}
  <2>1. documentStatus'[v] = "active"
    BY DEF Switch, ActivateDocumentVersion
  <2>2. ASSUME NEW w \in VersionsOf(DocumentOf[v]), documentStatus'[w] = "active"
        PROVE  w = v
    BY <2>2 DEF Switch, ActivateDocumentVersion, OtherVersions, VersionsOf
  <2> QED
    BY <2>1, <2>2 DEF ActiveVersions, VersionsOf
<1>3. ASSUME NEW d \in Documents, d # DocumentOf[v]
      PROVE  ActiveVersions(d)' = ActiveVersions(d)
  BY <1>3 DEF Switch, ActivateDocumentVersion, ActiveVersions, OtherVersions, VersionsOf
<1>4. ServedBy' = [ServedBy EXCEPT ![DocumentOf[v]] = {v}]
  BY <1>2, <1>3 DEF ServedBy
<1>5. WholeVersions' = WholeVersions
  BY <1>1 DEF WholeVersions, FullyActive
<1> QED
  BY <1>1, <1>4, <1>5 DEF Readers!Serve, ServedBy, WholeVersions

(* Hiding a version withdraws it, if it was being served.                  *)
LEMMA HidingWithdraws ==
    ASSUME TypeOK, AtMostOneActive, NEW v \in Versions, NEW s, s # "active",
           SetDocumentStatus(v, s), UNCHANGED points
    PROVE  Readers!Withdraw(v) \/ UNCHANGED Readers!vars
<1>1. \A w \in Versions : documentStatus'[w] = IF w = v THEN s ELSE documentStatus[w]
  BY DEF SetDocumentStatus, TypeOK, RegistryTypeOK
<1>2. WholeVersions' = WholeVersions
  BY DEF WholeVersions, FullyActive
<1>3. ASSUME NEW d \in Documents, d # DocumentOf[v] \/ documentStatus[v] # "active"
      PROVE  ActiveVersions(d)' = ActiveVersions(d)
  BY <1>1, <1>3 DEF ActiveVersions, VersionsOf
<1>4. CASE documentStatus[v] = "active"
  <2>1. ActiveVersions(DocumentOf[v])' = {}
    BY <1>1, <1>4 DEF ActiveVersions, VersionsOf, AtMostOneActive
  <2>2. ServedBy' = [ServedBy EXCEPT ![DocumentOf[v]] = {}]
    BY <1>3, <2>1 DEF ServedBy
  <2>3. v \in ServedBy[DocumentOf[v]]
    BY <1>4, IdentityAssumption DEF ServedBy, ActiveVersions, VersionsOf
  <2> QED
    BY <1>2, <2>2, <2>3 DEF Readers!Withdraw, ServedBy, WholeVersions
<1>5. CASE documentStatus[v] # "active"
  BY <1>2, <1>3, <1>5 DEF Readers!vars, ServedBy, WholeVersions
<1> QED
  BY <1>4, <1>5

(* A request to Qdrant leaves the versions being served whole.             *)
LEMMA RequestReindexes ==
    ASSUME ActiveServable, ActiveServable', UNCHANGED documentStatus
    PROVE  Readers!Reindex(WholeVersions')
<1>1. ServedBy' = ServedBy
  BY DEF ServedBy, ActiveVersions, VersionsOf
<1>2. ASSUME NEW v \in Versions, v \in ServedBy[DocumentOf[v]]
      PROVE  v \in WholeVersions /\ v \in WholeVersions'
  BY <1>2, IdentityAssumption
  DEF ServedBy, ActiveVersions, VersionsOf, WholeVersions, ActiveServable
<1> QED
  BY <1>1, <1>2 DEF Readers!Reindex, ServedBy, WholeVersions

LEMMA RefinementStep ==
    ASSUME SoleWorker, TypeOK, AtMostOneActive, ServingInv, [Next]_vars
    PROVE  [Readers!Next]_(Readers!vars)
<1>1. CASE \E r \in Runners : Switch(r)
  <2>1. PICK r \in Runners : Switch(r)
    BY <1>1
  <2>2. run[r].version \in Versions
    BY <2>1 DEF Switch, At, TypeOK, RunTypeOK
  <2> QED
    BY <2>1, <2>2, SwitchServes DEF Readers!Next
<1>2. CASE \E r \in Runners : MarkIndexing(r) \/ MarkFailed(r)
  <2>1. PICK r \in Runners : MarkIndexing(r) \/ MarkFailed(r)
    BY <1>2
  <2>2. /\ run[r].version \in Versions
        /\ UNCHANGED points
        /\ \/ SetDocumentStatus(run[r].version, "indexing")
           \/ SetDocumentStatus(run[r].version, "failed")
    BY <2>1 DEF MarkIndexing, MarkFailed, At, TypeOK, RunTypeOK
  <2> QED
    BY <2>2, HidingWithdraws DEF Readers!Next
<1>3. CASE UNCHANGED documentStatus
  <2>1. ActiveServable /\ ActiveServable'
    BY ServingInvStep DEF ServingInv
  <2>2. WholeVersions' \in SUBSET Versions
    BY DEF WholeVersions
  <2> QED
    BY <1>3, <2>1, <2>2, RequestReindexes DEF Readers!Next
<1>4. CASE \E v \in Versions, k \in Keys \cup {NoKey} : Upload(v, k)
  <2>1. PICK v \in Versions, k \in Keys \cup {NoKey} : Upload(v, k)
    BY <1>4
  <2>2. UNCHANGED points /\ (UNCHANGED documentStatus \/ SetDocumentStatus(v, "indexing"))
    BY <2>1 DEF Upload, Accept, SetDocumentStatus, TypeOK, RegistryTypeOK
  <2> QED
    BY <1>3, <2>2, HidingWithdraws DEF Readers!Next
<1> QED
  <2>1. ASSUME NEW r \in Runners, RunStep(r) \/ Crash(r),
               ~(Switch(r) \/ MarkIndexing(r) \/ MarkFailed(r))
        PROVE  UNCHANGED documentStatus
    BY <2>1
    DEF RunStep, Claim, SkipJob, RunUnclaimed, Report, FinishStage, Prepare, Stage, Verify,
        Publish, Clean, Succeed, PrepareFails, StageFails, VerifyFails, PublishFails,
        SwitchFails, RegistryFails, FinishFailed, Discard, DiscardFails, ReportFailed,
        ReportRetry, Crash, registryVars
  <2> QED
    BY <1>1, <1>2, <1>3, <1>4, <2>1 DEF Next, Poll, Tick, SoleWorker, vars, registryVars

(* With one worker the pipeline keeps the promise of ServedVersion.        *)
THEOREM Refinement == ASSUME SoleWorker PROVE Spec => ServesWholeVersions
<1>1. Init => Readers!Init
  <2> SUFFICES ASSUME Init PROVE Readers!Init
    OBVIOUS
  <2>1. \A d \in Documents : ActiveVersions(d) = {}
    BY DEF Init, RegistryInit, ActiveVersions, VersionsOf
  <2>2. \A v \in Versions : ~FullyActive(v)
    BY IdentityAssumption DEF Init, ChunkStoreInit, FullyActive
  <2> QED
    BY <2>1, <2>2 DEF Readers!Init
<1>2. TypeOK /\ AtMostOneActive /\ ServingInv /\ [Next]_vars => [Readers!Next]_(Readers!vars)
  BY RefinementStep
<1> QED
  BY <1>1, <1>2, TypeCorrect, OneActiveVersion, ServingInvHolds, PTL
  DEF Spec, ServesWholeVersions, Readers!Spec

-----------------------------------------------------------------------------
(* Searches only read, so the pipeline beside them behaves as it does      *)
(* without them, and what is proved about it holds.                        *)
LEMMA SearchStepIsRead ==
    ASSUME NEW s \in Searchers, SearchStep(s)
    PROVE  UNCHANGED vars
BY DEF SearchStep, SearchDense, SearchSparse, SearchFails

LEMMA PipelineBeside == SearchSpec => Spec
<1>1. SearchInit => Init
  BY DEF SearchInit
<1>2. [SearchNext]_searchVars => [Next]_vars
  <2> SUFFICES ASSUME [SearchNext]_searchVars PROVE [Next]_vars
    OBVIOUS
  <2>1. CASE IngestionStep
    BY <2>1 DEF IngestionStep
  <2>2. CASE \E s \in Searchers, mode \in RetrievalMode, D \in SUBSET Documents \ {{}} :
               BeginSearch(s, mode, D)
    BY <2>2 DEF BeginSearch
  <2>3. CASE \E s \in Searchers : SearchStep(s)
    BY <2>3, SearchStepIsRead
  <2>4. CASE UNCHANGED searchVars
    BY <2>4 DEF searchVars
  <2> QED
    BY <2>1, <2>2, <2>3, <2>4 DEF SearchNext
<1> QED
  BY <1>1, <1>2, PTL DEF SearchSpec, Spec

-----------------------------------------------------------------------------
LEMMA ActiveVersionIdsType ==
    ASSUME NEW D PROVE ActiveVersionIds(D) \subseteq Versions
BY DEF ActiveVersionIds, ActiveVersions, VersionsOf

LEMMA MatchingType ==
    ASSUME NEW scope PROVE Matching(scope) \subseteq Points
BY DEF Matching

(* The type of the searches is inductive by itself.                        *)
LEMMA SearchTypeStep == SearchTypeOK /\ [SearchNext]_searchVars => SearchTypeOK'
<1> SUFFICES ASSUME SearchTypeOK, [SearchNext]_searchVars PROVE SearchTypeOK'
  OBVIOUS
<1> USE DEF SearchTypeOK
<1>1. CASE IngestionStep
  BY <1>1 DEF IngestionStep, SearchState
<1>2. ASSUME NEW s \in Searchers, NEW mode \in RetrievalMode,
             NEW D \in SUBSET Documents \ {{}}, BeginSearch(s, mode, D)
      PROVE  SearchTypeOK'
  <2>1. ActiveVersionIds(D) \in SUBSET Versions
    BY ActiveVersionIdsType
  <2> QED
    BY <1>2, <2>1 DEF BeginSearch, IdleSearch, SearchState, RetrievalMode
<1>3. ASSUME NEW s \in Searchers, SearchStep(s)
      PROVE  SearchTypeOK'
  <2>1. Matching(search[s].scope) \in SUBSET Points
    BY MatchingType
  <2>2. CASE SearchDense(s)
    <3> DEFINE pc == IF search[s].mode = "hybrid" THEN "sparse" ELSE "answered"
               t == [search[s] EXCEPT !.pc = pc, !.dense = Matching(search[s].scope)]
    <3>1. search' = [search EXCEPT ![s] = t]
      BY <2>2 DEF SearchDense
    <3>2. t \in SearchState
      BY <2>1 DEF SearchState
    <3> QED
      BY <3>1, <3>2
  <2>3. CASE SearchSparse(s)
    BY <2>1, <2>3 DEF SearchSparse, SearchState
  <2>4. CASE SearchFails(s)
    BY <2>4 DEF SearchFails, IdleSearch, SearchState, RetrievalMode
  <2> QED
    BY <1>3, <2>2, <2>3, <2>4 DEF SearchStep
<1>4. CASE UNCHANGED searchVars
  BY <1>4 DEF searchVars
<1> QED
  BY <1>1, <1>2, <1>3, <1>4 DEF SearchNext

LEMMA SearchTypeInit == SearchInit => SearchTypeOK
BY DEF SearchInit, SearchTypeOK, IdleSearch, SearchState, RetrievalMode

(* Every variable of the searches keeps its type.                          *)
THEOREM SearchTypeCorrect == SearchSpec => []SearchTypeOK
BY SearchTypeInit, SearchTypeStep, PTL DEF SearchSpec

-----------------------------------------------------------------------------
(* What a search has found lies in its scope, and its scope names one      *)
(* version of a document.                                                  *)
ScopeInv ==
    \A s \in Searchers :
        /\ \A v, w \in search[s].scope : DocumentOf[v] = DocumentOf[w] => v = w
        /\ \A p \in Found(s) : p[1] \in search[s].scope

LEMMA ScopeIsUnambiguous ==
    ASSUME AtMostOneActive, NEW D,
           NEW v \in ActiveVersionIds(D), NEW w \in ActiveVersionIds(D),
           DocumentOf[v] = DocumentOf[w]
    PROVE  v = w
BY DEF AtMostOneActive, ActiveVersionIds, ActiveVersions, VersionsOf

LEMMA ScopeInvStep ==
    SearchTypeOK /\ AtMostOneActive /\ ScopeInv /\ [SearchNext]_searchVars => ScopeInv'
<1> SUFFICES ASSUME SearchTypeOK, AtMostOneActive, ScopeInv, [SearchNext]_searchVars
             PROVE  ScopeInv'
  OBVIOUS
<1> USE DEF SearchTypeOK, ScopeInv, Found
<1>1. CASE IngestionStep
  BY <1>1 DEF IngestionStep, SearchState
<1>2. ASSUME NEW s \in Searchers, NEW mode \in RetrievalMode,
             NEW D \in SUBSET Documents \ {{}}, BeginSearch(s, mode, D)
      PROVE  ScopeInv'
  <2>1. \A v, w \in ActiveVersionIds(D) : DocumentOf[v] = DocumentOf[w] => v = w
    BY ScopeIsUnambiguous
  <2> QED
    BY <1>2, <2>1 DEF BeginSearch, IdleSearch, SearchState
<1>3. ASSUME NEW s \in Searchers, SearchStep(s)
      PROVE  ScopeInv'
  <2>1. \A p \in Matching(search[s].scope) : p[1] \in search[s].scope
    BY DEF Matching
  <2>2. CASE SearchDense(s)
    BY <2>1, <2>2 DEF SearchDense, SearchState
  <2>3. CASE SearchSparse(s)
    BY <2>1, <2>3 DEF SearchSparse, SearchState
  <2>4. CASE SearchFails(s)
    BY <2>4 DEF SearchFails, IdleSearch, SearchState
  <2> QED
    BY <1>3, <2>2, <2>3, <2>4 DEF SearchStep
<1>4. CASE UNCHANGED searchVars
  BY <1>4 DEF searchVars
<1> QED
  BY <1>1, <1>2, <1>3, <1>4 DEF SearchNext

(* No search mixes two versions of a document, however many tasks,         *)
(* deletions and other searches go on beside it.                           *)
THEOREM SearchesDoNotMix == SearchSpec => []OneVersionPerDocument
<1>1. SearchInit => ScopeInv
  BY DEF SearchInit, ScopeInv, Found, IdleSearch
<1>2. ScopeInv => OneVersionPerDocument
  BY DEF ScopeInv, OneVersionPerDocument
<1> QED
  BY <1>1, <1>2, ScopeInvStep, SearchTypeCorrect, PipelineBeside, OneActiveVersion, PTL
  DEF SearchSpec

-----------------------------------------------------------------------------
(* While no status changes, the scope is still what is served, and every   *)
(* branch that has been answered found all of it.                          *)
QuietInv ==
    \A s \in Searchers : search[s].quiet =>
        /\ \A v \in search[s].scope : documentStatus[v] = "active"
        /\ search[s].pc \in {"sparse", "answered"} /\ search[s].mode # "bm25"
             => search[s].dense = search[s].scope \X Chunks
        /\ search[s].pc = "answered" /\ search[s].mode # "dense"
             => search[s].sparse = search[s].scope \X Chunks
        /\ search[s].pc = "dense" => search[s].mode # "bm25"
        /\ search[s].pc = "sparse" => search[s].mode # "dense"

(* A request finds all points of the versions it asks for when they are    *)
(* served.                                                                 *)
LEMMA ServedIsFound ==
    ASSUME ActiveServable, NEW scope \in SUBSET Versions,
           \A v \in scope : documentStatus[v] = "active"
    PROVE  Matching(scope) = scope \X Chunks
BY DEF ActiveServable, FullyActive, Matching, Points

LEMMA QuietInvStep ==
    SearchTypeOK /\ ActiveServable /\ QuietInv /\ [SearchNext]_searchVars => QuietInv'
<1> SUFFICES ASSUME SearchTypeOK, ActiveServable, QuietInv, [SearchNext]_searchVars
             PROVE  QuietInv'
  OBVIOUS
<1> USE DEF SearchTypeOK, QuietInv
<1>1. CASE IngestionStep
  BY <1>1, ZenonT(40) DEF IngestionStep, SearchState
<1>2. ASSUME NEW s \in Searchers, NEW mode \in RetrievalMode,
             NEW D \in SUBSET Documents \ {{}}, BeginSearch(s, mode, D)
      PROVE  QuietInv'
  <2>1. \A v \in ActiveVersionIds(D) : documentStatus[v] = "active"
    BY DEF ActiveVersionIds, ActiveVersions
  <2>2. UNCHANGED documentStatus
    BY <1>2 DEF BeginSearch, vars
  <2> QED
    BY <1>2, <2>1, <2>2 DEF BeginSearch, IdleSearch, SearchState
<1>3. ASSUME NEW s \in Searchers, SearchStep(s)
      PROVE  QuietInv'
  <2>1. UNCHANGED documentStatus
    BY <1>3, SearchStepIsRead DEF vars
  <2>2. search[s].quiet => Matching(search[s].scope) = search[s].scope \X Chunks
    BY ServedIsFound DEF SearchState
  <2>3. CASE SearchDense(s)
    BY <2>1, <2>2, <2>3 DEF SearchDense, SearchState, RetrievalMode
  <2>4. CASE SearchSparse(s)
    BY <2>1, <2>2, <2>4 DEF SearchSparse, SearchState, RetrievalMode
  <2>5. CASE SearchFails(s)
    BY <2>1, <2>5 DEF SearchFails, IdleSearch, SearchState
  <2> QED
    BY <1>3, <2>3, <2>4, <2>5 DEF SearchStep
<1>4. CASE UNCHANGED searchVars
  BY <1>4 DEF searchVars, vars
<1> QED
  BY <1>1, <1>2, <1>3, <1>4 DEF SearchNext

(* With one task at a time and no deletions, a search during which no      *)
(* status changes finds every point of the served versions in each branch. *)
THEOREM QuietSearches == ASSUME SoleWorker PROVE SearchSpec => []QuietSearchIsComplete
<1>1. SearchInit => QuietInv
  BY DEF SearchInit, QuietInv, IdleSearch
<1>2. QuietInv => QuietSearchIsComplete
  BY DEF QuietInv, QuietSearchIsComplete, Branches
<1> QED
  BY <1>1, <1>2, QuietInvStep, SearchTypeCorrect, PipelineBeside, ActiveIsServable, PTL
  DEF SearchSpec
=============================================================================
