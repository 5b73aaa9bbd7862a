--------------------------- MODULE ServicesProofs ---------------------------
(***************************************************************************)
(* The components beside the ingestion: the heartbeat of the worker, the   *)
(* evaluation runs, the live query traces, the pages of the documents and  *)
(* the recovery queue.                                                     *)
(* Each theorem is about the specification of one of them.                 *)
(***************************************************************************)
EXTENDS WorkerHealth, Evaluations, LiveTraces, DocumentPages, RecoveryQueue, LoopProofs,
        FiniteSetTheorems, SequenceTheorems, TLAPS

-----------------------------------------------------------------------------
(* THE HEARTBEAT.                                                          *)

InLoop == health.worker \in {"polling", "processing"}

(* A heartbeat that counts is at least as old as the worker's death; the   *)
(* worker is not gone before it dies.  In the loop, one write is due each  *)
(* tick: the heartbeat is no older than the writes that failed, and the    *)
(* ticks since the last one was tried.                                     *)
GoneSinceLastBeat ==
    /\ health.worker # "down" => health.gone = 0
    /\ health.beat \notin {"absent", "stopped"} => health.gone <= health.age

BeatOrMissed ==
    /\ health.worker = "loading" => health.missed = MaxAge
    /\ InLoop =>
          \/ health.missed = MaxAge
          \/ /\ health.beat \notin {"absent", "stopped"}
             /\ health.age <= health.missed + health.round

HealthInv == health \in HealthState /\ GoneSinceLastBeat /\ BeatOrMissed

(* At the start nobody has written a heartbeat.                            *)
LEMMA HealthInitInv == HealthInit => HealthInv
  BY WorkerHealthAssumption
  DEF HealthInit, HealthInv, HealthState, GoneSinceLastBeat, BeatOrMissed, InLoop

(* Ages and counts stay within the bound up to which they are counted.     *)
LEMMA CappedSuccType ==
  \A n \in 0..MaxAge : /\ CappedSucc(n) \in 0..MaxAge
                       /\ CappedSucc(n) = MaxAge \/ CappedSucc(n) = n + 1
                       /\ CappedSucc(n) >= n
  BY WorkerHealthAssumption DEF CappedSucc

(* WorkerHeartbeat.write out of the loop: the write is done or is missed.  *)
LEMMA LoopBeats ==
  ASSUME HealthInv, InLoop \/ health.worker = "loading",
         NEW worker \in {"polling", "processing"}, NEW state \in {"idle", "processing"},
         Beats(state, [health EXCEPT !.worker = worker, !.round = 0])
  PROVE  HealthInv'
  <1>0. health \in HealthState BY DEF HealthInv
  <1>1. CASE health' = [[health EXCEPT !.worker = worker, !.round = 0]
                          EXCEPT !.beat = state, !.age = 0, !.missed = 0]
    <2>1. health' = [worker |-> worker, beat |-> state, age |-> 0, round |-> 0,
                     gone |-> health.gone, missed |-> 0]
      BY <1>0, <1>1 DEF HealthState
    <2>2. health.gone = 0
      BY DEF HealthInv, GoneSinceLastBeat, InLoop
    <2>3. health' \in HealthState
      BY <2>1, <2>2, WorkerHealthAssumption DEF HealthState
    <2> QED BY <2>1, <2>2, <2>3 DEF HealthInv, GoneSinceLastBeat, BeatOrMissed, InLoop
  <1>2. CASE health' = [[health EXCEPT !.worker = worker, !.round = 0]
                          EXCEPT !.missed = CappedSucc(@)]
    <2>1. health' = [worker |-> worker, beat |-> health.beat, age |-> health.age, round |-> 0,
                     gone |-> health.gone, missed |-> CappedSucc(health.missed)]
      BY <1>0, <1>2 DEF HealthState
    <2>2. /\ health.missed \in 0..MaxAge /\ health.age \in Nat /\ health.round \in 0..1
          /\ CappedSucc(health.missed) \in 0..MaxAge
      BY <1>0, CappedSuccType DEF HealthState
    <2>3. health' \in HealthState
      BY <1>0, <2>1, <2>2 DEF HealthState
    <2>4. GoneSinceLastBeat'
      BY <2>1 DEF HealthInv, GoneSinceLastBeat, InLoop
    <2>5. BeatOrMissed'
      BY <2>1, <2>2, WorkerHealthAssumption DEF HealthInv, BeatOrMissed, InLoop, CappedSucc
    <2> QED BY <2>3, <2>4, <2>5 DEF HealthInv
  <1> QED BY <1>1, <1>2 DEF Beats

(* Every step keeps the invariant.                                         *)
LEMMA HealthNextInv == HealthInv /\ [HealthNext]_health => HealthInv'
  <1> SUFFICES ASSUME HealthInv, [HealthNext]_health PROVE HealthInv' OBVIOUS
  <1>0. health \in HealthState BY DEF HealthInv
  <1>1. CASE StartProcess
    <2>1. \/ health' = [health EXCEPT !.worker = "loading", !.gone = 0, !.missed = MaxAge]
          \/ health' = [[health EXCEPT !.worker = "loading", !.gone = 0, !.missed = MaxAge]
                          EXCEPT !.beat = "starting", !.age = 0]
      BY <1>1 DEF StartProcess
    <2>2. \/ health' = [worker |-> "loading", beat |-> health.beat, age |-> health.age,
                        round |-> health.round, gone |-> 0, missed |-> MaxAge]
          \/ health' = [worker |-> "loading", beat |-> "starting", age |-> 0,
                        round |-> health.round, gone |-> 0, missed |-> MaxAge]
      BY <2>1, <1>0 DEF HealthState
    <2>3. health' \in HealthState
      BY <2>2, <1>0, WorkerHealthAssumption DEF HealthState
    <2> QED BY <2>2, <2>3, <1>0 DEF HealthInv, HealthState, GoneSinceLastBeat, BeatOrMissed, InLoop
  <1>2. CASE PollRegistry
    BY <1>2, LoopBeats DEF PollRegistry, InLoop
  <1>3. CASE BeginJob
    BY <1>3, LoopBeats DEF BeginJob, InLoop
  <1>4. CASE WaitForJob
    <2>1. [health EXCEPT !.round = 0] = [health EXCEPT !.worker = "processing", !.round = 0]
      BY <1>0, <1>4 DEF WaitForJob, HealthState
    <2> QED BY <1>4, <2>1, LoopBeats DEF WaitForJob, InLoop
  <1>5. CASE JobReturns
    BY <1>5, LoopBeats DEF JobReturns, InLoop
  <1>6. CASE StopWorker
    <2>1. \/ health' = [[health EXCEPT !.worker = "down", !.round = 0]
                          EXCEPT !.beat = "stopped", !.age = 0, !.missed = 0]
          \/ health' = [[health EXCEPT !.worker = "down", !.round = 0]
                          EXCEPT !.missed = CappedSucc(@)]
      BY <1>6 DEF StopWorker, Beats
    <2>2. \/ health' = [worker |-> "down", beat |-> "stopped", age |-> 0, round |-> 0,
                        gone |-> health.gone, missed |-> 0]
          \/ health' = [worker |-> "down", beat |-> health.beat, age |-> health.age, round |-> 0,
                        gone |-> health.gone, missed |-> CappedSucc(health.missed)]
      BY <2>1, <1>0 DEF HealthState
    <2>3. CappedSucc(health.missed) \in 0..MaxAge
      BY <1>0, CappedSuccType DEF HealthState
    <2>4. health' \in HealthState
      BY <2>2, <2>3, <1>0, WorkerHealthAssumption DEF HealthState
    <2> QED BY <2>2, <2>4 DEF HealthInv, GoneSinceLastBeat, BeatOrMissed, InLoop
  <1>7. CASE KillWorker
    <2>1. health' = [worker |-> "down", beat |-> health.beat, age |-> health.age, round |-> 0,
                     gone |-> health.gone, missed |-> health.missed]
      BY <1>0, <1>7 DEF KillWorker, HealthState
    <2>2. health' \in HealthState
      BY <2>1, <1>0 DEF HealthState
    <2> QED BY <2>1, <2>2 DEF HealthInv, GoneSinceLastBeat, BeatOrMissed, InLoop
  <1>8. CASE Tick
    <2>1. /\ health' = [worker |-> health.worker, beat |-> health.beat,
                        age    |-> IF health.beat = "absent" THEN health.age
                                   ELSE CappedSucc(health.age),
                        round  |-> IF InLoop THEN health.round + 1 ELSE health.round,
                        gone   |-> IF health.worker = "down" THEN CappedSucc(health.gone) ELSE 0,
                        missed |-> health.missed]
          /\ InLoop => health.round = 0
      BY <1>0, <1>8 DEF Tick, HealthState, InLoop
    <2>2. health' \in HealthState
      <3>1. CappedSucc(health.age) \in 0..MaxAge /\ CappedSucc(health.gone) \in 0..MaxAge
        BY <1>0, CappedSuccType DEF HealthState
      <3> QED BY <1>0, <2>1, <3>1, WorkerHealthAssumption DEF HealthState
    <2>3. health.age \in 0..MaxAge /\ health.gone \in 0..MaxAge /\ health.missed \in 0..MaxAge
      BY <1>0 DEF HealthState
    <2>4. GoneSinceLastBeat'
      BY <2>1, <2>3, WorkerHealthAssumption DEF HealthInv, GoneSinceLastBeat, CappedSucc
    <2>5. BeatOrMissed'
      BY <2>1, <2>3, WorkerHealthAssumption DEF HealthInv, BeatOrMissed, CappedSucc, InLoop
    <2> QED BY <2>2, <2>4, <2>5 DEF HealthInv
  <1>9. CASE UNCHANGED health
    BY <1>9 DEF HealthInv, GoneSinceLastBeat, BeatOrMissed, InLoop
  <1> QED BY <1>1, <1>2, <1>3, <1>4, <1>5, <1>6, <1>7, <1>8, <1>9 DEF HealthNext

LEMMA HealthInvHolds == HealthSpec => []HealthInv
  BY HealthInitInv, HealthNextInv, PTL DEF HealthSpec

(* HeartbeatFileProbe.check calls the worker up only while it runs, or for *)
(* stale_after_seconds after it died without a last word.                  *)
THEOREM UpIsRecent == HealthSpec => []UpMeansRecentlyAlive
  <1>1. HealthInv => UpMeansRecentlyAlive
    BY WorkerHealthAssumption
    DEF HealthInv, HealthState, GoneSinceLastBeat, UpMeansRecentlyAlive, ProbeUp
  <1> QED BY <1>1, HealthInvHolds, PTL

(* run_worker is not called down in its loop, however long its job takes,  *)
(* while fewer writes in a row failed than the probe waits intervals.      *)
THEOREM RunningIsUp == HealthSpec => []LiveWorkerIsUp
  <1>1. HealthInv => LiveWorkerIsUp
    <2> SUFFICES ASSUME HealthInv, InLoop, health.missed + 1 < StaleTicks PROVE ProbeUp
      BY DEF LiveWorkerIsUp, InLoop
    <2>1. health.missed \in Nat /\ health.age \in Nat /\ health.round \in 0..1
      BY DEF HealthInv, HealthState
    <2>2. /\ health.beat \notin {"absent", "stopped"}
          /\ health.age <= health.missed + health.round
      BY <2>1, WorkerHealthAssumption DEF HealthInv, BeatOrMissed
    <2> QED BY <2>1, <2>2, WorkerHealthAssumption DEF ProbeUp
  <1> QED BY <1>1, HealthInvHolds, PTL

-----------------------------------------------------------------------------
(* THE EVALUATION RUNS.                                                    *)

Measured == {"none", "low", "high"}
Snapshots == [status : {"none", "queued", "running"} \cup Finished,
              error : Failures \cup {"none"}, metrics : Measured,
              revision : Revisions \cup {"none"}]
EvalTasks == [pc : {"none", "scheduled", "executing", "writing", "written", "ended"},
              metrics : Measured]

EvaluationsType ==
    /\ registry \in [EvalRuns -> Snapshots]
    /\ jobs \in [EvalRuns -> EvalTasks]
    /\ head \in Revisions

HasFile(e, metrics) == e \in DOMAIN artifacts /\ artifacts[e].metrics = metrics

(* A file is there, with the measurements of its run, from the moment it   *)
(* is written; a run that succeeded has no task left that writes again.    *)
FilesMatch ==
    \A e \in EvalRuns :
        /\ jobs[e].pc = "written" => HasFile(e, jobs[e].metrics)
        /\ registry[e].status = "succeeded" =>
              jobs[e].pc = "ended" /\ HasFile(e, registry[e].metrics)

EvaluationsInv == EvaluationsType /\ FilesMatch

(* At the start no run was requested.                                      *)
LEMMA EvaluationsInitInv == EvaluationsInit => EvaluationsInv
  BY DEF EvaluationsInit, EvaluationsInv, EvaluationsType, FilesMatch, HasFile,
         Snapshots, EvalTasks, Measured, NoSnapshot, NoJob

(* What a step of run e does to the others: nothing.                       *)
OthersKeep(e) ==
    \A d \in EvalRuns \ {e} :
        /\ registry'[d] = registry[d] /\ jobs'[d] = jobs[d]
        /\ d \in DOMAIN artifacts => d \in DOMAIN artifacts' /\ artifacts'[d] = artifacts[d]

(* A step of one run keeps the files of all when it keeps those of e.      *)
LEMMA OneRunStep ==
  ASSUME FilesMatch, NEW e \in EvalRuns, OthersKeep(e),
         jobs'[e].pc = "written" => HasFile(e, jobs[e].metrics)' ,
         registry'[e].status = "succeeded" =>
            jobs'[e].pc = "ended" /\ HasFile(e, registry[e].metrics)'
  PROVE  FilesMatch'
  BY DEF FilesMatch, OthersKeep, HasFile

(* What is written for one run leaves the files of the others.             *)
LEMMA OneFile ==
  ASSUME NEW e \in EvalRuns, NEW file,
         artifacts' = [d \in DOMAIN artifacts \cup {e} |-> IF d = e THEN file ELSE artifacts[d]]
  PROVE  /\ e \in DOMAIN artifacts' /\ artifacts'[e] = file
         /\ \A d \in EvalRuns \ {e} :
               d \in DOMAIN artifacts => d \in DOMAIN artifacts' /\ artifacts'[d] = artifacts[d]
  OBVIOUS

(* The steps of one run.                                                   *)
LEMMA CreateRunInv ==
  ASSUME EvaluationsInv, NEW e \in EvalRuns, CreateRun(e) PROVE EvaluationsInv'
  <1>1. /\ registry' = [registry EXCEPT ![e].status = "queued"]
        /\ jobs' = [jobs EXCEPT ![e].pc = "scheduled"]
        /\ artifacts' = artifacts /\ head' = head
    BY DEF CreateRun
  <1>2. EvaluationsType'
    BY <1>1 DEF EvaluationsInv, EvaluationsType, Snapshots, EvalTasks
  <1>3. registry'[e].status = "queued" /\ jobs'[e].pc = "scheduled" /\ OthersKeep(e)
    BY <1>1 DEF EvaluationsInv, EvaluationsType, Snapshots, EvalTasks, OthersKeep
  <1> QED BY <1>2, <1>3, OneRunStep DEF EvaluationsInv

LEMMA BeginRunInv ==
  ASSUME EvaluationsInv, NEW e \in EvalRuns, BeginRun(e) PROVE EvaluationsInv'
  <1>0. registry[e].status # "succeeded"
    BY DEF BeginRun, EvaluationsInv, FilesMatch
  <1>1. /\ \/ jobs' = [jobs EXCEPT ![e].pc = "ended"] /\ registry' = registry
           \/ /\ jobs' = [jobs EXCEPT ![e].pc = "executing"]
              /\ registry' = [registry EXCEPT ![e] = [NoSnapshot EXCEPT !.status = "running"]]
        /\ artifacts' = artifacts /\ head' = head
    BY DEF BeginRun
  <1>2. [NoSnapshot EXCEPT !.status = "running"] \in Snapshots
    BY DEF NoSnapshot, Snapshots, Measured
  <1>3. EvaluationsType'
    BY <1>1, <1>2 DEF EvaluationsInv, EvaluationsType, EvalTasks
  <1>4. /\ registry'[e].status # "succeeded" /\ jobs'[e].pc # "written" /\ OthersKeep(e)
    BY <1>0, <1>1 DEF EvaluationsInv, EvaluationsType, EvalTasks, NoSnapshot, OthersKeep
  <1> QED BY <1>3, <1>4, OneRunStep DEF EvaluationsInv

LEMMA ExecutedInv ==
  ASSUME EvaluationsInv, NEW e \in EvalRuns, NEW m \in {"low", "high"}, Executed(e, m)
  PROVE  EvaluationsInv'
  <1>1. /\ jobs' = [jobs EXCEPT ![e] = [pc |-> "writing", metrics |-> m]]
        /\ registry' = registry /\ artifacts' = artifacts /\ head' = head
        /\ registry[e].status # "succeeded"
    BY DEF Executed, EvaluationsInv, FilesMatch
  <1>2. EvaluationsType'
    BY <1>1 DEF EvaluationsInv, EvaluationsType, EvalTasks, Measured
  <1>3. registry'[e].status # "succeeded" /\ jobs'[e].pc # "written" /\ OthersKeep(e)
    BY <1>1 DEF EvaluationsInv, EvaluationsType, OthersKeep
  <1> QED BY <1>2, <1>3, OneRunStep DEF EvaluationsInv

LEMMA RunFailsInv ==
  ASSUME EvaluationsInv, NEW e \in EvalRuns, NEW code \in Failures, RunFails(e, code)
  PROVE  EvaluationsInv'
  <1>1. /\ jobs' = [jobs EXCEPT ![e] = [NoJob EXCEPT !.pc = "ended"]]
        /\ registry' = [registry EXCEPT ![e].status = "failed", ![e].error = code]
        /\ head' = head
    BY DEF RunFails, Fail
  <1>2. [NoJob EXCEPT !.pc = "ended"] = [pc |-> "ended", metrics |-> "none"]
    BY DEF NoJob
  <1>3. EvaluationsType'
    <2>1. registry[e] \in Snapshots
      BY DEF EvaluationsInv, EvaluationsType
    <2>2. [registry[e] EXCEPT !.status = "failed"] \in Snapshots
      BY <2>1 DEF Snapshots, Finished
    <2>3. [[registry[e] EXCEPT !.status = "failed"] EXCEPT !.error = code] \in Snapshots
      BY <2>2 DEF Snapshots
    <2>4. registry' \in [EvalRuns -> Snapshots]
      BY <1>1, <2>3 DEF EvaluationsInv, EvaluationsType
    <2>5. jobs' \in [EvalRuns -> EvalTasks]
      BY <1>1, <1>2 DEF EvaluationsInv, EvaluationsType, EvalTasks, Measured
    <2> QED BY <1>1, <2>4, <2>5 DEF EvaluationsInv, EvaluationsType
  <1>4. /\ registry'[e].status = "failed" /\ jobs'[e].pc = "ended"
        /\ \A d \in EvalRuns \ {e} : registry'[d] = registry[d] /\ jobs'[d] = jobs[d]
    BY <1>1, <1>2 DEF EvaluationsInv, EvaluationsType, Snapshots
  <1>5. OthersKeep(e)
    <2>1. \/ artifacts' = artifacts
          \/ artifacts' = [d \in DOMAIN artifacts \cup {e} |->
                              IF d = e THEN [metrics |-> "torn", revision |-> head]
                              ELSE artifacts[d]]
      BY DEF RunFails
    <2> QED BY <1>4, <2>1, OneFile DEF OthersKeep
  <1> QED BY <1>3, <1>4, <1>5, OneRunStep DEF EvaluationsInv

LEMMA WriteArtifactInv ==
  ASSUME EvaluationsInv, NEW e \in EvalRuns, WriteArtifact(e) PROVE EvaluationsInv'
  <1> DEFINE file == [metrics |-> jobs[e].metrics, revision |-> head]
  <1>1. /\ artifacts' = [d \in DOMAIN artifacts \cup {e} |-> IF d = e THEN file ELSE artifacts[d]]
        /\ jobs' = [jobs EXCEPT ![e].pc = "written"]
        /\ registry' = registry /\ head' = head /\ registry[e].status # "succeeded"
    BY DEF WriteArtifact, EvaluationsInv, FilesMatch
  <1>2. EvaluationsType'
    BY <1>1 DEF EvaluationsInv, EvaluationsType, EvalTasks
  <1>3. /\ registry'[e].status # "succeeded" /\ jobs'[e].metrics = jobs[e].metrics
        /\ \A d \in EvalRuns \ {e} : registry'[d] = registry[d] /\ jobs'[d] = jobs[d]
    BY <1>1 DEF EvaluationsInv, EvaluationsType, EvalTasks
  <1>4. e \in DOMAIN artifacts' /\ artifacts'[e].metrics = jobs[e].metrics /\ OthersKeep(e)
    BY <1>1, <1>3, OneFile DEF OthersKeep
  <1> QED BY <1>2, <1>3, <1>4, OneRunStep DEF EvaluationsInv, HasFile

LEMMA SucceedInv ==
  ASSUME EvaluationsInv, NEW e \in EvalRuns, Succeed(e) PROVE EvaluationsInv'
  <1> DEFINE success == [NoSnapshot EXCEPT !.status = "succeeded", !.metrics = jobs[e].metrics,
                                           !.revision = head]
  <1>1. /\ registry' = [registry EXCEPT ![e] = success]
        /\ jobs' = [jobs EXCEPT ![e] = [NoJob EXCEPT !.pc = "ended"]]
        /\ artifacts' = artifacts /\ head' = head /\ HasFile(e, jobs[e].metrics)
    BY DEF Succeed, EvaluationsInv, FilesMatch
  <1>2. /\ success = [status |-> "succeeded", error |-> "none", metrics |-> jobs[e].metrics,
                      revision |-> head]
        /\ [NoJob EXCEPT !.pc = "ended"] = [pc |-> "ended", metrics |-> "none"]
    <2>1. ASSUME NEW s, s = success
          PROVE  s = [status |-> "succeeded", error |-> "none", metrics |-> jobs[e].metrics,
                      revision |-> head]
      BY <2>1 DEF NoSnapshot
    <2>2. [NoJob EXCEPT !.pc = "ended"] = [pc |-> "ended", metrics |-> "none"]
      BY DEF NoJob
    <2> QED BY <2>1, <2>2
  <1>3. jobs[e].metrics \in Measured /\ head \in Revisions
    BY DEF EvaluationsInv, EvaluationsType, EvalTasks
  <1>4. success \in Snapshots /\ [NoJob EXCEPT !.pc = "ended"] \in EvalTasks
    BY <1>2, <1>3 DEF Snapshots, Finished, EvalTasks, Measured
  <1>5. EvaluationsType'
    BY <1>1, <1>4 DEF EvaluationsInv, EvaluationsType
  <1>6. /\ registry'[e] = success /\ jobs'[e].pc = "ended"
        /\ \A d \in EvalRuns \ {e} : registry'[d] = registry[d] /\ jobs'[d] = jobs[d]
    BY <1>1, <1>2 DEF EvaluationsInv, EvaluationsType
  <1>7. OthersKeep(e) /\ registry'[e].metrics = jobs[e].metrics
    BY <1>1, <1>2, <1>6 DEF OthersKeep
  <1> QED BY <1>1, <1>5, <1>6, <1>7, OneRunStep DEF EvaluationsInv, HasFile

(* Every step keeps the invariant; a checkout changes the revision alone.  *)
LEMMA EvaluationsNextInv == EvaluationsInv /\ [EvaluationsNext]_evalVars => EvaluationsInv'
  <1> SUFFICES ASSUME EvaluationsInv, [EvaluationsNext]_evalVars PROVE EvaluationsInv'
    OBVIOUS
  <1>1. ASSUME NEW e \in EvalRuns,
               CreateRun(e) \/ BeginRun(e) \/ WriteArtifact(e) \/ Succeed(e)
        PROVE  EvaluationsInv'
    BY <1>1, CreateRunInv, BeginRunInv, WriteArtifactInv, SucceedInv
  <1>2. ASSUME NEW e \in EvalRuns, NEW m \in {"low", "high"}, Executed(e, m)
        PROVE  EvaluationsInv'
    BY <1>2, ExecutedInv
  <1>3. ASSUME NEW e \in EvalRuns, NEW code \in Failures, RunFails(e, code)
        PROVE  EvaluationsInv'
    BY <1>3, RunFailsInv
  <1>4. ASSUME NEW revision \in Revisions, Checkout(revision) PROVE EvaluationsInv'
    BY <1>4 DEF Checkout, EvaluationsInv, EvaluationsType, FilesMatch, HasFile
  <1>5. CASE UNCHANGED evalVars
    BY <1>5 DEF evalVars, EvaluationsInv, EvaluationsType, FilesMatch, HasFile
  <1> QED BY <1>1, <1>2, <1>3, <1>4, <1>5 DEF EvaluationsNext

(* A run that the registry tells to have succeeded is backed by a complete *)
(* file of artifact_dir with the same measurements, however the runs and   *)
(* their failures interleave.                                              *)
THEOREM SuccessIsBacked == EvaluationsSpec => []SuccessHasItsArtifact
  <1>1. EvaluationsInv => SuccessHasItsArtifact
    BY DEF EvaluationsInv, FilesMatch, HasFile, SuccessHasItsArtifact
  <1> QED BY <1>1, EvaluationsInitInv, EvaluationsNextInv, PTL DEF EvaluationsSpec

-----------------------------------------------------------------------------
(* THE LIVE QUERY TRACES.                                                  *)

HeldRun   == [status : {"pending", "running"} \cup Outcomes,
              answer : {"none"} \cup Outcomes, diagnosed : BOOLEAN]
QueryTask == [pc : {"none", "scheduled", "executing", "comparing", "ended", "crashed"},
              gold : BOOLEAN, outcome : {"none"} \cup Outcomes]

TracesType ==
    /\ Held \subseteq Runs /\ store \in [Held -> HeldRun]
    /\ order \in Seq(Runs)
    /\ task \in [Runs -> QueryTask]
    /\ newer \in [Runs -> SUBSET Runs]

(* A run is held only after its request, and what is published of it is    *)
(* the last thing its task does.                                           *)
PublishedLast ==
    /\ \A r \in Held : /\ task[r].pc # "none"
                       /\ task[r].pc \in {"scheduled", "executing", "comparing"} =>
                              store[r].status \notin Outcomes
    /\ \A r \in Runs : task[r].pc = "comparing" => task[r].outcome \in Outcomes

(* list holds each run of held once, and those accessed after another are  *)
(* in its history.                                                         *)
Listing(list, held, history) ==
    /\ list \in Seq(Runs)
    /\ \A i, j \in 1..Len(list) : list[i] = list[j] => i = j
    /\ held = {list[i] : i \in 1..Len(list)}
    /\ \A i, j \in 1..Len(list) : i < j => list[j] \in history[list[i]]

TracesInv == TracesType /\ PublishedLast /\ Listing(order, Held, newer)

(* At the start nothing is held.                                           *)
LEMMA TracesInitInv == TracesInit => TracesInv /\ DroppedOnlyWhenOld
  <1> SUFFICES ASSUME TracesInit PROVE TracesInv /\ DroppedOnlyWhenOld
    OBVIOUS
  <1>1. Held = {} /\ order = << >> /\ Len(order) = 0 /\ order \in Seq(Runs)
    BY DEF TracesInit, Held
  <1>2. /\ task \in [Runs -> QueryTask] /\ newer \in [Runs -> SUBSET Runs]
        /\ \A r \in Runs : task[r].pc = "none"
    BY DEF TracesInit, NoTask, QueryTask, Outcomes
  <1>3. store \in [Held -> HeldRun]
    BY <1>1 DEF TracesInit, Held
  <1> QED BY <1>1, <1>2, <1>3
          DEF TracesInv, TracesType, PublishedLast, Listing, DroppedOnlyWhenOld

(* The lists that the handlers make.  A list without one of its runs.      *)
LEMMA WithoutOne ==
  ASSUME NEW list, NEW held, NEW history, Listing(list, held, history),
         NEW r \in held
  PROVE  /\ Listing(Without(list, r), held \ {r}, history)
         /\ Len(Without(list, r)) = Len(list) - 1
  <1>1. PICK p \in 1..Len(list) : list[p] = r
    BY DEF Listing
  <1>2. Position(list, r) = p
    BY <1>1 DEF Listing, Position
  <1> DEFINE rest == Without(list, r)
             at(k) == IF k < p THEN k ELSE k + 1
  <1>3. Len(list) \in Nat /\ \A i \in 1..Len(list) : list[i] \in Runs
    BY DEF Listing
  <1>4. rest = SubSeq(list, 1, p - 1) \o SubSeq(list, p + 1, Len(list))
    BY <1>2 DEF Without
  <1>5. /\ SubSeq(list, 1, p - 1) \in Seq(Runs) /\ Len(SubSeq(list, 1, p - 1)) = p - 1
        /\ \A k \in 1..p - 1 : SubSeq(list, 1, p - 1)[k] = list[k]
    BY <1>3, SubSeqProperties
  <1>6. /\ SubSeq(list, p + 1, Len(list)) \in Seq(Runs)
        /\ Len(SubSeq(list, p + 1, Len(list))) = Len(list) - p
        /\ \A k \in 1..Len(list) - p : SubSeq(list, p + 1, Len(list))[k] = list[p + k]
    BY <1>3, SubSeqProperties
  <1>7. /\ rest \in Seq(Runs) /\ Len(rest) = Len(list) - 1
        /\ \A k \in 1..Len(list) - 1 : rest[k] = list[at(k)]
    <2>1. /\ rest \in Seq(Runs) /\ Len(rest) = (p - 1) + (Len(list) - p)
          /\ \A k \in 1..(p - 1) + (Len(list) - p) :
                rest[k] = IF k <= p - 1 THEN SubSeq(list, 1, p - 1)[k]
                          ELSE SubSeq(list, p + 1, Len(list))[k - (p - 1)]
      <3>1. \A a, b \in Seq(Runs) :
               /\ a \o b \in Seq(Runs) /\ Len(a \o b) = Len(a) + Len(b)
               /\ \A k \in 1..Len(a) + Len(b) :
                     (a \o b)[k] = IF k <= Len(a) THEN a[k] ELSE b[k - Len(a)]
        BY ConcatProperties
      <3>2. PICK a \in Seq(Runs) : a = SubSeq(list, 1, p - 1)
        BY <1>5
      <3>3. PICK b \in Seq(Runs) : b = SubSeq(list, p + 1, Len(list))
        BY <1>6
      <3>4. Len(a) = p - 1 /\ Len(b) = Len(list) - p /\ rest = a \o b
        BY <1>4, <1>5, <1>6, <3>2, <3>3
      <3>5. /\ rest \in Seq(Runs) /\ Len(rest) = Len(a) + Len(b)
            /\ \A k \in 1..Len(a) + Len(b) :
                  rest[k] = IF k <= Len(a) THEN a[k] ELSE b[k - Len(a)]
        <4> HIDE DEF rest
        <4> QED BY <3>1, <3>4
      <3> HIDE DEF rest
      <3> QED BY <3>2, <3>3, <3>4, <3>5
    <2>2. ASSUME NEW k \in 1..Len(list) - 1 PROVE rest[k] = list[at(k)]
      <3>0. k \in 1..(p - 1) + (Len(list) - p)
        BY <1>3
      <3>1. CASE k < p
        <4>1. k <= p - 1 /\ k \in 1..p - 1
          BY <3>1
        <4> QED BY <1>5, <2>1, <3>0, <3>1, <4>1
      <3>2. CASE k >= p
        <4>1. k - (p - 1) \in 1..Len(list) - p /\ p + (k - (p - 1)) = k + 1 /\ ~(k <= p - 1)
          BY <1>3, <3>2
        <4> QED BY <1>6, <2>1, <3>0, <3>2, <4>1
      <3> QED BY <1>3, <3>1, <3>2
    <2> QED BY <1>3, <2>1, <2>2
  <1>8. /\ \A k \in 1..Len(list) - 1 : at(k) \in 1..Len(list)
        /\ \A j, k \in 1..Len(list) - 1 : (at(j) = at(k) => j = k) /\ (j < k => at(j) < at(k))
    BY <1>3
  <1>9. held \ {r} = {rest[i] : i \in 1..Len(rest)}
    <2>1. ASSUME NEW x \in held \ {r} PROVE \E i \in 1..Len(rest) : x = rest[i]
      <3>1. PICK i \in 1..Len(list) : x = list[i] /\ i # p
        BY <1>1 DEF Listing
      <3>2. CASE i < p
        BY <1>3, <1>7, <3>1, <3>2
      <3>3. CASE i > p
        <4>1. i - 1 \in 1..Len(list) - 1 /\ at(i - 1) = i
          BY <1>3, <3>1, <3>3
        <4> QED BY <1>7, <3>1, <4>1
      <3> QED BY <1>3, <3>1, <3>2, <3>3
    <2>2. ASSUME NEW i \in 1..Len(rest) PROVE rest[i] \in held \ {r}
      <3>1. at(i) \in 1..Len(list) /\ at(i) # p /\ rest[i] = list[at(i)]
        BY <1>3, <1>7, <1>8
      <3> QED BY <1>1, <3>1 DEF Listing
    <2> QED BY <2>1, <2>2
  <1>10. ASSUME NEW i \in 1..Len(rest), NEW j \in 1..Len(rest), rest[i] = rest[j]
         PROVE  i = j
    <2>1. /\ i \in 1..Len(list) - 1 /\ j \in 1..Len(list) - 1
          /\ list[at(i)] = list[at(j)]
      BY <1>7, <1>10
    <2>2. at(i) \in 1..Len(list) /\ at(j) \in 1..Len(list)
      BY <1>8, <2>1
    <2>3. at(i) = at(j)
      BY <2>1, <2>2 DEF Listing
    <2> QED BY <1>8, <2>1, <2>3
  <1>11. \A i, j \in 1..Len(rest) : i < j => rest[j] \in history[rest[i]]
    BY <1>7, <1>8, SMTT(20) DEF Listing
  <1>12. Listing(rest, held \ {r}, history)
    BY <1>7, <1>9, <1>10, <1>11 DEF Listing
  <1> QED BY <1>7, <1>12

(* A list without its first n runs.                                        *)
LEMMA WithoutFirst ==
  ASSUME NEW list, NEW held, NEW history, Listing(list, held, history),
         NEW n \in 0..Len(list)
  PROVE  Listing(SubSeq(list, n + 1, Len(list)), held \ {list[i] : i \in 1..n}, history)
  <1> DEFINE rest == SubSeq(list, n + 1, Len(list))
  <1>1. Len(list) \in Nat /\ \A i \in 1..Len(list) : list[i] \in Runs
    BY DEF Listing
  <1>2. /\ rest \in Seq(Runs) /\ Len(rest) = Len(list) - n
        /\ \A k \in 1..Len(list) - n : rest[k] = list[n + k]
    BY <1>1, SubSeqProperties
  <1>3. held \ {list[i] : i \in 1..n} = {rest[i] : i \in 1..Len(rest)}
    <2>1. ASSUME NEW x \in held \ {list[i] : i \in 1..n}
          PROVE  \E k \in 1..Len(rest) : x = rest[k]
      <3>1. PICK i \in 1..Len(list) : x = list[i] /\ ~(i \in 1..n)
        BY DEF Listing
      <3>2. i - n \in 1..Len(list) - n /\ n + (i - n) = i
        BY <1>1, <3>1
      <3> QED BY <1>2, <3>1, <3>2
    <2>2. ASSUME NEW k \in 1..Len(rest) PROVE rest[k] \in held \ {list[i] : i \in 1..n}
      <3>1. n + k \in 1..Len(list) /\ ~(n + k \in 1..n) /\ rest[k] = list[n + k]
        BY <1>1, <1>2
      <3>2. \A i \in 1..n : i \in 1..Len(list) /\ list[i] # list[n + k]
        BY <1>1, <3>1 DEF Listing
      <3> QED BY <3>1, <3>2 DEF Listing
    <2> QED BY <2>1, <2>2
  <1>4. \A k \in 1..Len(rest) : n + k \in 1..Len(list)
    BY <1>1, <1>2
  <1>5. ASSUME NEW i \in 1..Len(rest), NEW j \in 1..Len(rest), rest[i] = rest[j]
        PROVE  i = j
    <2>1. n + i \in 1..Len(list) /\ n + j \in 1..Len(list) /\ list[n + i] = list[n + j]
      BY <1>2, <1>4, <1>5
    <2>2. n + i = n + j
      BY <2>1 DEF Listing
    <2> QED BY <1>1, <1>2, <2>2
  <1>6. \A i, j \in 1..Len(rest) : i < j => rest[j] \in history[rest[i]]
    BY <1>1, <1>2, <1>4 DEF Listing
  <1> QED BY <1>2, <1>3, <1>5, <1>6 DEF Listing

(* A list with a run that was accessed now, after all others.              *)
LEMMA WithLast ==
  ASSUME NEW list, NEW held, NEW history, Listing(list, held, history),
         NEW r \in Runs \ held, NEW later,
         \A x \in held : history[x] \cup {r} \subseteq later[x]
  PROVE  /\ Listing(Append(list, r), held \cup {r}, later)
         /\ Len(Append(list, r)) = Len(list) + 1
  <1> DEFINE longer == Append(list, r)
  <1>1. list \in Seq(Runs) /\ Len(list) \in Nat
    BY DEF Listing
  <1>2. /\ longer \in Seq(Runs) /\ Len(longer) = Len(list) + 1
        /\ \A i \in 1..Len(list) : longer[i] = list[i] /\ list[i] \in held
        /\ longer[Len(list) + 1] = r
    BY <1>1, AppendProperties DEF Listing
  <1>3. \A i \in 1..Len(longer) : i \in 1..Len(list) \/ i = Len(list) + 1
    BY <1>1, <1>2
  <1>4. held \cup {r} = {longer[i] : i \in 1..Len(longer)}
    BY <1>1, <1>2, <1>3 DEF Listing
  <1>5. \A i, j \in 1..Len(longer) : longer[i] = longer[j] => i = j
    BY <1>2, <1>3 DEF Listing
  <1>6. \A i, j \in 1..Len(longer) : i < j => longer[j] \in later[longer[i]]
    <2> SUFFICES ASSUME NEW i \in 1..Len(longer), NEW j \in 1..Len(longer), i < j
                 PROVE  longer[j] \in later[longer[i]]
      OBVIOUS
    <2>1. i \in 1..Len(list)
      BY <1>1, <1>2
    <2>2. CASE j \in 1..Len(list)
      BY <1>2, <2>1, <2>2 DEF Listing
    <2>3. CASE j = Len(list) + 1
      BY <1>2, <2>1, <2>3
    <2> QED BY <1>3, <2>2, <2>3
  <1> QED BY <1>2, <1>4, <1>5, <1>6 DEF Listing

(* The first of more than MaxRuns runs has seen MaxRuns others accessed.   *)
LEMMA FirstIsOld ==
  ASSUME NEW list, NEW held, NEW history \in [Runs -> SUBSET Runs],
         Listing(list, held, history), Len(list) > MaxRuns
  PROVE  Head(list) \in held /\ Cardinality(history[Head(list)]) >= MaxRuns
  <1>1. /\ MaxRuns \in Nat \ {0} /\ IsFiniteSet(Runs)
        /\ list \in Seq(Runs) /\ Len(list) \in Nat
    BY LiveTracesAssumption DEF Listing
  <1>2. Head(list) = list[1] /\ 1 \in 1..Len(list)
    BY <1>1
  <1> DEFINE f == [i \in 1..MaxRuns |-> list[i + 1]]
  <1>3. \A i \in 1..MaxRuns : i + 1 \in 1..Len(list) /\ 1 < i + 1
    BY <1>1
  <1>4. f \in [1..MaxRuns -> history[list[1]]]
    BY <1>2, <1>3 DEF Listing
  <1>5. \A i, j \in 1..MaxRuns : f[i] = f[j] => i = j
    BY <1>1, <1>3 DEF Listing
  <1>6. f \in Injection(1..MaxRuns, history[list[1]])
    BY <1>4, <1>5 DEF Injection, IsInjective
  <1>7. IsFiniteSet(history[list[1]])
    BY <1>1, <1>2, FS_Subset DEF Listing
  <1>8. Cardinality(1..MaxRuns) = MaxRuns
    BY <1>1, FS_Interval
  <1>9. Cardinality(1..MaxRuns) <= Cardinality(history[list[1]])
    BY <1>6, <1>7, FS_Injection
  <1>10. Cardinality(history[list[1]]) \in Nat
    BY <1>7, FS_CardinalityType
  <1> QED BY <1>1, <1>2, <1>8, <1>9, <1>10 DEF Listing

-----------------------------------------------------------------------------
(* The steps of the handlers and the tasks.                                *)

(* What was published stays; what an access leaves as it was.              *)
Stays ==
    \A r \in Held \cap Held' : store[r].status \in Outcomes =>
        store'[r].status = store[r].status /\ store'[r].answer = store[r].answer
SameRuns ==
    /\ Held' = Held
    /\ \A r \in Runs \ Held : newer'[r] = newer[r]
    /\ \A r \in Runs : (task'[r].pc = "none") <=> (task[r].pc = "none")

LEMMA EndedTask == Ended = [pc |-> "ended", gold |-> FALSE, outcome |-> "none"]
  <1>1. ASSUME NEW ended, ended = [NoTask EXCEPT !.pc = "ended"]
        PROVE  ended = [pc |-> "ended", gold |-> FALSE, outcome |-> "none"]
    BY <1>1 DEF NoTask
  <1> QED BY <1>1 DEF Ended

(* last_access of a run that is held.                                      *)
LEMMA TouchLists ==
  ASSUME TracesInv, NEW r \in Held, Touch(r)
  PROVE  /\ Listing(order', Held, newer') /\ newer' \in [Runs -> SUBSET Runs]
         /\ \A x \in Runs \ Held : newer'[x] = newer[x]
  <1>1. r \in Runs /\ Held \subseteq Runs /\ newer \in [Runs -> SUBSET Runs]
    BY DEF TracesInv, TracesType
  <1>2. newer' = NewerThan(r, newer) /\ order' = Append(Without(order, r), r)
    BY DEF Touch, Touched
  <1>3. /\ newer' \in [Runs -> SUBSET Runs]
        /\ \A x \in Runs \ Held : newer'[x] = newer[x]
        /\ \A x \in Held \ {r} : newer'[x] = newer[x] \cup {r}
    BY <1>1, <1>2 DEF NewerThan
  <1>4. Listing(Without(order, r), Held \ {r}, newer)
    BY WithoutOne DEF TracesInv
  <1>5. (Held \ {r}) \cup {r} = Held
    OBVIOUS
  <1>6. Listing(Append(Without(order, r), r), (Held \ {r}) \cup {r}, newer')
    BY <1>1, <1>3, <1>4, WithLast
  <1> QED BY <1>2, <1>3, <1>5, <1>6

(* A step that writes at most one held run and at most one task.           *)
LEMMA AccessInv ==
  ASSUME TracesInv, NEW held \in [Held -> HeldRun], store' = held,
         task' \in [Runs -> QueryTask],
         \A x \in Runs : (task'[x].pc = "none") <=> (task[x].pc = "none"),
         PublishedLast',
         UNCHANGED <<order, newer>> \/ \E r \in Held : Touch(r)
  PROVE  TracesInv' /\ SameRuns
  <1>1. Held' = Held
    BY DEF Held
  <1>2. /\ Listing(order', Held, newer') /\ newer' \in [Runs -> SUBSET Runs]
        /\ \A x \in Runs \ Held : newer'[x] = newer[x]
    <2>1. CASE UNCHANGED <<order, newer>>
      BY <2>1 DEF TracesInv, TracesType
    <2>2. CASE \E r \in Held : Touch(r)
      BY <2>2, TouchLists
    <2> QED BY <2>1, <2>2
  <1>3. Listing(order, Held, newer)'
    BY <1>1, <1>2
  <1>4. TracesType'
    BY <1>1, <1>2 DEF TracesInv, TracesType, Listing
  <1> QED BY <1>1, <1>2, <1>3, <1>4 DEF TracesInv, SameRuns

LEMMA EmitInv ==
  ASSUME TracesInv, NEW r \in Runs, Emit(r) PROVE TracesInv' /\ SameRuns /\ Stays
  <1>1. /\ r \in Held /\ store[r].status = "pending" /\ Touch(r)
        /\ store' = [store EXCEPT ![r].status = "running"] /\ task' = task
    BY DEF Emit
  <1>2. store \in [Held -> HeldRun]
    BY DEF TracesInv, TracesType
  <1>3. /\ store' \in [Held -> HeldRun] /\ store'[r].status = "running"
        /\ \A x \in Held \ {r} : store'[x] = store[x]
    BY <1>1, <1>2 DEF HeldRun
  <1>4. Held' = Held
    BY <1>3 DEF Held
  <1>5. PublishedLast'
    BY <1>1, <1>3, <1>4 DEF TracesInv, PublishedLast, Outcomes
  <1>6. Stays
    BY <1>1, <1>3, <1>4 DEF Stays, Outcomes
  <1> QED BY <1>1, <1>3, <1>5, <1>6, AccessInv DEF TracesInv, TracesType

(* finish and fail, of a run that is not published yet.                    *)
LEMMA PublishStore ==
  ASSUME TracesInv, NEW r \in Runs, NEW outcome \in Outcomes, Publish(r, outcome)
  PROVE  /\ store' \in [Held -> HeldRun] /\ \A x \in Held \ {r} : store'[x] = store[x]
         /\ UNCHANGED <<order, newer>> \/ (r \in Held /\ Touch(r))
  <1>1. store \in [Held -> HeldRun]
    BY DEF TracesInv, TracesType
  <1>2. CASE r \notin Held
    BY <1>1, <1>2 DEF Publish
  <1>3. CASE r \in Held
    <2>1. /\ store' = [store EXCEPT ![r] = [[store[r] EXCEPT !.status = outcome] EXCEPT !.answer = outcome]]
          /\ Touch(r)
      BY <1>1, <1>3 DEF Publish
    <2>2. store[r] \in HeldRun
      BY <1>1, <1>3
    <2>3. [store[r] EXCEPT !.status = outcome] \in HeldRun
      BY <2>2 DEF HeldRun
    <2>4. [[store[r] EXCEPT !.status = outcome] EXCEPT !.answer = outcome] \in HeldRun
      BY <2>3 DEF HeldRun
    <2> QED BY <1>1, <1>3, <2>1, <2>4
  <1> QED BY <1>2, <1>3

(* The task that publishes has ended.                                      *)
LEMMA PublishInv ==
  ASSUME TracesInv, NEW r \in Runs, NEW outcome \in Outcomes, Publish(r, outcome),
         task[r].pc \in {"executing", "comparing"}, task' = [task EXCEPT ![r] = Ended]
  PROVE  TracesInv' /\ SameRuns /\ Stays
  <1>1. /\ store' \in [Held -> HeldRun] /\ \A x \in Held \ {r} : store'[x] = store[x]
        /\ UNCHANGED <<order, newer>> \/ (r \in Held /\ Touch(r))
    BY PublishStore
  <1>2. Ended = [pc |-> "ended", gold |-> FALSE, outcome |-> "none"]
    BY EndedTask
  <1>3. task \in [Runs -> QueryTask]
    BY DEF TracesInv, TracesType
  <1>4. /\ task' \in [Runs -> QueryTask] /\ task'[r].pc = "ended"
        /\ \A x \in Runs \ {r} : task'[x] = task[x]
    BY <1>2, <1>3 DEF QueryTask
  <1>5. Held' = Held
    BY <1>1 DEF Held
  <1>6. PublishedLast'
    BY <1>1, <1>4, <1>5 DEF TracesInv, TracesType, PublishedLast
  <1>7. \A x \in Runs : (task'[x].pc = "none") <=> (task[x].pc = "none")
    BY <1>4
  <1>8. Stays
    BY <1>1, <1>5 DEF Stays, TracesInv, PublishedLast
  <1> QED BY <1>1, <1>4, <1>6, <1>7, <1>8, AccessInv

LEMMA QueryEndsInv ==
  ASSUME TracesInv, NEW r \in Runs, NEW outcome \in Outcomes, QueryEnds(r, outcome)
  PROVE  TracesInv' /\ SameRuns /\ Stays
  <1>1. CASE ~task[r].gold
    BY <1>1, PublishInv DEF QueryEnds
  <1>2. CASE task[r].gold
    <2>1. /\ task' = [task EXCEPT ![r].pc = "comparing", ![r].outcome = outcome]
          /\ store' = store /\ task[r].pc = "executing"
          /\ UNCHANGED <<order, newer>> \/ (r \in Held /\ Touch(r))
      BY <1>2 DEF QueryEnds
    <2>2. task \in [Runs -> QueryTask] /\ store \in [Held -> HeldRun]
      BY DEF TracesInv, TracesType
    <2>3. \A x \in Runs \ {r} : task'[x] = task[x]
      BY <2>1, <2>2
    <2>4. task'[r] = [pc |-> "comparing", gold |-> task[r].gold, outcome |-> outcome]
      <3>1. PICK t \in QueryTask : t = task[r]
        BY <2>2
      <3>2. task'[r] = [[t EXCEPT !.pc = "comparing"] EXCEPT !.outcome = outcome]
        BY <2>1, <2>2, <3>1
      <3>3. task'[r] = [pc |-> "comparing", gold |-> t.gold, outcome |-> outcome]
        BY <3>2 DEF QueryTask
      <3> QED BY <3>1, <3>3
    <2>5. task'[r] \in QueryTask
      BY <2>2, <2>4 DEF QueryTask
    <2>6. task' \in [Runs -> QueryTask]
      BY <2>1, <2>2, <2>3, <2>5
    <2>7. /\ Held' = Held /\ store' = store
          /\ task[r].pc = "executing" /\ task'[r].pc = "comparing" /\ task'[r].outcome = outcome
      BY <2>1, <2>4 DEF Held
    <2>8. PublishedLast'
      <3>1. ASSUME NEW x \in Held
            PROVE  /\ task'[x].pc # "none"
                   /\ task'[x].pc \in {"scheduled", "executing", "comparing"} =>
                         store[x].status \notin Outcomes
        BY <2>3, <2>7, <2>2 DEF TracesInv, TracesType, PublishedLast
      <3>2. ASSUME NEW x \in Runs, task'[x].pc = "comparing" PROVE task'[x].outcome \in Outcomes
        BY <2>3, <2>7, <3>2 DEF TracesInv, PublishedLast
      <3> QED BY <2>7, <3>1, <3>2 DEF PublishedLast
    <2>9. \A x \in Runs : (task'[x].pc = "none") <=> (task[x].pc = "none")
      BY <2>3, <2>7
    <2>10. Stays
      BY <2>1 DEF Stays
    <2> QED BY <2>1, <2>2, <2>6, <2>8, <2>9, <2>10, AccessInv
  <1> QED BY <1>1, <1>2

LEMMA ComparedInv ==
  ASSUME TracesInv, NEW r \in Runs, Compared(r) PROVE TracesInv' /\ SameRuns /\ Stays
  BY PublishInv DEF Compared, TracesInv, PublishedLast

LEMMA ComparisonRaisesInv ==
  ASSUME TracesInv, NEW r \in Runs, ComparisonRaises(r)
  PROVE  TracesInv' /\ SameRuns /\ Stays
  <1>1. /\ task' = [task EXCEPT ![r] = [NoTask EXCEPT !.pc = "crashed"]]
        /\ task[r].pc = "comparing"
        /\ store' = store /\ UNCHANGED <<order, newer>>
    BY DEF ComparisonRaises
  <1>2. task \in [Runs -> QueryTask] /\ store \in [Held -> HeldRun]
    BY DEF TracesInv, TracesType
  <1>3. task'[r] = [pc |-> "crashed", gold |-> FALSE, outcome |-> "none"]
    BY <1>1, <1>2 DEF NoTask
  <1>4. task'[r] \in QueryTask
    BY <1>3 DEF QueryTask
  <1>5. task' \in [Runs -> QueryTask] /\ \A x \in Runs \ {r} : task'[x] = task[x]
    BY <1>1, <1>2, <1>4
  <1>6. Held' = Held
    BY <1>1 DEF Held
  <1>7. PublishedLast'
    BY <1>1, <1>3, <1>5, <1>6 DEF TracesInv, PublishedLast
  <1>8. \A x \in Runs : (task'[x].pc = "none") <=> (task[x].pc = "none")
    BY <1>1, <1>3, <1>5
  <1>9. Stays
    BY <1>1 DEF Stays
  <1> QED BY <1>1, <1>2, <1>5, <1>7, <1>8, <1>9, AccessInv

(* A read, of a client or of a diagnosis, is an access.                    *)
LEMMA ReadInv ==
  ASSUME TracesInv, NEW r \in Held, Touch(r), store' = store, task' = task
  PROVE  TracesInv' /\ SameRuns /\ Stays
  <1>1. task \in [Runs -> QueryTask] /\ store \in [Held -> HeldRun]
    BY DEF TracesInv, TracesType
  <1>2. Held' = Held
    BY DEF Held
  <1>3. PublishedLast'
    BY <1>2 DEF TracesInv, PublishedLast
  <1>4. Stays
    BY DEF Stays
  <1> QED BY <1>1, <1>3, <1>4, AccessInv

LEMMA PickEndsInv == ASSUME TracesInv, PickEnds PROVE TracesInv' /\ SameRuns /\ Stays
  <1> DEFINE r == picker.run
  <1>0. task \in [Runs -> QueryTask] /\ store \in [Held -> HeldRun] /\ task' = task
    BY DEF TracesInv, TracesType, PickEnds
  <1>1. CASE r \in Held /\ store[r].status = "completed"
    <2>1. store' = [store EXCEPT ![r] = [store[r] EXCEPT !.diagnosed = TRUE]] /\ Touch(r)
      BY <1>0, <1>1 DEF PickEnds, MergedRun
    <2>2. [store[r] EXCEPT !.diagnosed = TRUE] \in HeldRun
      BY <1>0, <1>1 DEF HeldRun
    <2>3. /\ store' \in [Held -> HeldRun]
          /\ \A x \in Held \ {r} : store'[x] = store[x]
          /\ store'[r] = [store[r] EXCEPT !.diagnosed = TRUE]
      BY <1>0, <1>1, <2>1, <2>2
    <2>4. store'[r].status = store[r].status /\ store'[r].answer = store[r].answer
      BY <1>0, <1>1, <2>3 DEF HeldRun
    <2>5. Held' = Held
      BY <2>3 DEF Held
    <2>6. PublishedLast'
      BY <1>0, <2>3, <2>4, <2>5 DEF TracesInv, PublishedLast
    <2>7. Stays
      BY <2>3, <2>4, <2>5 DEF Stays
    <2> QED BY <1>0, <1>1, <2>1, <2>3, <2>6, <2>7, AccessInv
  <1>2. CASE ~(r \in Held /\ store[r].status = "completed")
    <2>1. store' = store /\ UNCHANGED <<order, newer>>
      BY <1>2 DEF PickEnds
    <2>2. Held' = Held
      BY <2>1 DEF Held
    <2>3. PublishedLast' /\ Stays
      BY <1>0, <2>1, <2>2 DEF TracesInv, PublishedLast, Stays
    <2> QED BY <1>0, <2>1, <2>3, AccessInv
  <1> QED BY <1>1, <1>2

(* The steps that clean the store up: a run that is not held after them    *)
(* was not before, or is dropped for its age.                              *)
DropsOld ==
    \A x \in Runs \ Held' : task'[x].pc # "none" =>
        \/ x \notin Held /\ task[x].pc # "none" /\ newer'[x] = newer[x]
        \/ newer'[x] = Runs
        \/ Cardinality(newer'[x]) >= MaxRuns

LEMMA ExpiredHeld ==
  ASSUME TracesInv, NEW n \in 0..Len(order)
  PROVE  /\ Expired(n) \subseteq Held /\ Listing(Unexpired(n), Held \ Expired(n), newer)
         /\ AfterExpiry(n) \in [Runs -> SUBSET Runs]
  <1>1. Listing(Unexpired(n), Held \ Expired(n), newer)
    BY WithoutFirst DEF TracesInv, Unexpired, Expired
  <1>2. Len(order) \in Nat
    BY DEF TracesInv, TracesType
  <1>3. Expired(n) \subseteq Held
    BY <1>2 DEF TracesInv, Listing, Expired
  <1> QED BY <1>1, <1>3 DEF TracesInv, TracesType, AfterExpiry

LEMMA BeginTaskInv ==
  ASSUME TracesInv, NEW r \in Runs, BeginTask(r) PROVE TracesInv' /\ Stays /\ DropsOld
  <1>1. PICK n \in 0..Len(order) :
           /\ store' = [x \in Held \ Expired(n) |-> store[x]]
           /\ order' = Unexpired(n) /\ newer' = AfterExpiry(n)
           /\ task' = [task EXCEPT ![r] = IF r \in Held \ Expired(n)
                                          THEN [@ EXCEPT !.pc = "executing"] ELSE Ended]
    BY DEF BeginTask
  <1>2. /\ Expired(n) \subseteq Held /\ Listing(Unexpired(n), Held \ Expired(n), newer)
        /\ AfterExpiry(n) \in [Runs -> SUBSET Runs]
    BY ExpiredHeld
  <1>3. /\ task \in [Runs -> QueryTask] /\ store \in [Held -> HeldRun] /\ Held \subseteq Runs
        /\ newer \in [Runs -> SUBSET Runs] /\ task[r].pc = "scheduled"
    BY DEF TracesInv, TracesType, BeginTask
  <1>4. /\ Held' = Held \ Expired(n) /\ store' \in [Held' -> HeldRun]
        /\ \A x \in Held' : store'[x] = store[x]
    BY <1>1, <1>3 DEF Held
  <1>5. /\ task' \in [Runs -> QueryTask] /\ \A x \in Runs \ {r} : task'[x] = task[x]
        /\ task'[r].pc = IF r \in Held' THEN "executing" ELSE "ended"
    <2>1. CASE r \in Held \ Expired(n)
      BY <1>1, <1>3, <1>4, <2>1 DEF QueryTask
    <2>2. CASE r \notin Held \ Expired(n)
      BY <1>1, <1>3, <1>4, <2>2, EndedTask DEF QueryTask
    <2> QED BY <2>1, <2>2
  <1>6. \A x \in Runs : newer'[x] = IF x \in Expired(n) THEN Runs ELSE newer[x]
    BY <1>1 DEF AfterExpiry
  <1>7. Listing(order, Held, newer)'
    <2>1. \A x \in Held \ Expired(n) : newer'[x] = newer[x]
      BY <1>3, <1>6
    <2>2. Listing(Unexpired(n), Held \ Expired(n), newer')
      BY <1>2, <2>1 DEF Listing
    <2> QED BY <1>1, <1>4, <2>2
  <1>8. TracesType'
    BY <1>1, <1>2, <1>3, <1>4, <1>5, <1>7 DEF TracesType, Listing
  <1>9. PublishedLast'
    <2>1. ASSUME NEW x \in Held'
          PROVE  /\ task'[x].pc # "none"
                 /\ task'[x].pc \in {"scheduled", "executing", "comparing"} =>
                       store'[x].status \notin Outcomes
      BY <1>3, <1>4, <1>5 DEF TracesInv, PublishedLast
    <2>2. ASSUME NEW x \in Runs, task'[x].pc = "comparing" PROVE task'[x].outcome \in Outcomes
      BY <1>5, <2>2 DEF TracesInv, PublishedLast
    <2> QED BY <2>1, <2>2 DEF PublishedLast
  <1>10. Stays
    BY <1>4 DEF Stays
  <1>11. DropsOld
    BY <1>3, <1>4, <1>5, <1>6 DEF DropsOld
  <1> QED BY <1>7, <1>8, <1>9, <1>10, <1>11 DEF TracesInv

LEMMA StartQueryRunInv ==
  ASSUME TracesInv, NEW r \in Runs, NEW gold \in BOOLEAN, StartQueryRun(r, gold)
  PROVE  TracesInv' /\ Stays /\ DropsOld
  <1>0. /\ task \in [Runs -> QueryTask] /\ store \in [Held -> HeldRun] /\ Held \subseteq Runs
        /\ newer \in [Runs -> SUBSET Runs]
        /\ task[r].pc = "none" /\ r \notin Held
        /\ task' = [task EXCEPT ![r].pc = "scheduled", ![r].gold = gold]
    BY DEF TracesInv, TracesType, PublishedLast, StartQueryRun
  <1> DEFINE kept(n) == Append(Unexpired(n), r)
             over(n) == IF Len(kept(n)) > MaxRuns THEN {Evicted(kept(n))} ELSE {}
             held(n) == (Held \cup {r}) \ (Expired(n) \cup over(n))
  <1>1. PICK n \in 0..Len(order) :
           /\ store' = [x \in held(n) |-> IF x = r THEN NoRun ELSE store[x]]
           /\ order' = IF over(n) = {} THEN kept(n) ELSE Without(kept(n), Evicted(kept(n)))
           /\ newer' = [x \in Runs |-> IF x \in Held \ Expired(n) THEN newer[x] \cup {r}
                                        ELSE AfterExpiry(n)[x]]
    BY DEF StartQueryRun
  <1>2. /\ Expired(n) \subseteq Held /\ Listing(Unexpired(n), Held \ Expired(n), newer)
        /\ AfterExpiry(n) \in [Runs -> SUBSET Runs]
    BY ExpiredHeld
  <1>3. newer' \in [Runs -> SUBSET Runs]
    BY <1>0, <1>1, <1>2
  <1>4. /\ \A x \in Held \ Expired(n) : newer'[x] = newer[x] \cup {r}
        /\ \A x \in Expired(n) : newer'[x] = Runs
        /\ \A x \in Runs \ Held : newer'[x] = newer[x]
    BY <1>0, <1>1, <1>2 DEF AfterExpiry
  <1>5. /\ Listing(kept(n), (Held \ Expired(n)) \cup {r}, newer')
        /\ Len(kept(n)) \in Nat /\ kept(n) # << >>
    <2>1. Listing(kept(n), (Held \ Expired(n)) \cup {r}, newer')
      BY <1>0, <1>2, <1>4, WithLast
    <2>2. Unexpired(n) \in Seq(Runs)
      BY <1>2 DEF Listing
    <2> QED BY <2>1, <2>2, AppendProperties DEF Listing
  <1>6. held(n) = ((Held \ Expired(n)) \cup {r}) \ over(n)
    BY <1>0, <1>2
  <1>7. Held' = held(n)
    BY <1>1 DEF Held
  <1>8. /\ Listing(order', held(n), newer')
        /\ \A x \in over(n) : Cardinality(newer'[x]) >= MaxRuns
    <2>1. CASE Len(kept(n)) > MaxRuns
      <3>1. over(n) = {Head(kept(n))} /\ order' = Without(kept(n), Head(kept(n)))
        BY <1>1, <2>1 DEF Evicted
      <3>2. /\ Head(kept(n)) \in (Held \ Expired(n)) \cup {r}
            /\ Cardinality(newer'[Head(kept(n))]) >= MaxRuns
        BY <1>3, <1>5, <2>1, FirstIsOld
      <3>3. Listing(Without(kept(n), Head(kept(n))),
                    ((Held \ Expired(n)) \cup {r}) \ {Head(kept(n))}, newer')
        BY <1>5, <3>2, WithoutOne
      <3> QED BY <1>6, <3>1, <3>2, <3>3
    <2>2. CASE ~(Len(kept(n)) > MaxRuns)
      <3>1. over(n) = {} /\ order' = kept(n)
        BY <1>1, <2>2
      <3> QED BY <1>5, <1>6, <3>1
    <2> QED BY <2>1, <2>2
  <1> HIDE DEF kept, over
  <1>9. Held' \subseteq Runs
    BY <1>0, <1>7
  <1>10. /\ store' \in [Held' -> HeldRun]
         /\ \A x \in Held' \ {r} : x \in Held /\ store'[x] = store[x]
         /\ r \in Held' => store'[r].status = "pending"
    BY <1>0, <1>1, <1>7 DEF HeldRun, NoRun, Outcomes
  <1>11. /\ task' \in [Runs -> QueryTask] /\ task'[r].pc = "scheduled"
         /\ \A x \in Runs \ {r} : task'[x] = task[x]
    <2>1. \A x \in Runs \ {r} : task'[x] = task[x]
      BY <1>0
    <2>2. PICK t \in QueryTask : t = task[r]
      BY <1>0
    <2>3. task'[r] = [[t EXCEPT !.pc = "scheduled"] EXCEPT !.gold = gold]
      BY <1>0, <2>2
    <2>4. task'[r] = [pc |-> "scheduled", gold |-> gold, outcome |-> t.outcome]
      BY <2>3 DEF QueryTask
    <2>5. task'[r] \in QueryTask
      BY <2>2, <2>4 DEF QueryTask
    <2>6. task' \in [Runs -> QueryTask]
      BY <1>0, <2>1, <2>5
    <2> QED BY <2>1, <2>4, <2>6
  <1>12. PublishedLast'
    <2>1. ASSUME NEW x \in Held'
          PROVE  /\ task'[x].pc # "none"
                 /\ task'[x].pc \in {"scheduled", "executing", "comparing"} =>
                       store'[x].status \notin Outcomes
      BY <1>9, <1>10, <1>11 DEF TracesInv, PublishedLast, Outcomes
    <2>2. ASSUME NEW x \in Runs, task'[x].pc = "comparing" PROVE task'[x].outcome \in Outcomes
      BY <1>11, <2>2 DEF TracesInv, PublishedLast
    <2> QED BY <2>1, <2>2 DEF PublishedLast
  <1>13. Stays
    BY <1>0, <1>10 DEF Stays
  <1>14. DropsOld
    <2> SUFFICES ASSUME NEW x \in Runs \ Held', task'[x].pc # "none"
                 PROVE  \/ x \notin Held /\ task[x].pc # "none" /\ newer'[x] = newer[x]
                        \/ newer'[x] = Runs
                        \/ Cardinality(newer'[x]) >= MaxRuns
      BY DEF DropsOld
    <2>1. x \in over(n) \/ x \in Expired(n) \/ (x \notin Held /\ x # r)
      BY <1>7
    <2> QED BY <1>4, <1>8, <1>11, <2>1
  <1>15. TracesType'
    BY <1>3, <1>7, <1>8, <1>9, <1>10, <1>11 DEF TracesType, Listing
  <1> QED BY <1>7, <1>8, <1>12, <1>13, <1>14, <1>15 DEF TracesInv

(* Every step.                                                             *)
LEMMA TracesStep ==
  ASSUME TracesInv, [TracesNext]_traceVars PROVE TracesInv' /\ Stays /\ DropsOld
  <1>1. SameRuns => DropsOld
    BY DEF SameRuns, DropsOld
  <1>2. ASSUME NEW r \in Runs, NEW gold \in BOOLEAN, StartQueryRun(r, gold)
        PROVE  TracesInv' /\ Stays /\ DropsOld
    BY <1>2, StartQueryRunInv
  <1>3. ASSUME NEW r \in Runs, BeginTask(r) PROVE TracesInv' /\ Stays /\ DropsOld
    BY <1>3, BeginTaskInv
  <1>4. ASSUME NEW r \in Runs, Emit(r) \/ Compared(r) \/ ComparisonRaises(r)
        PROVE  TracesInv' /\ Stays /\ DropsOld
    BY <1>1, <1>4, EmitInv, ComparedInv, ComparisonRaisesInv
  <1>5. ASSUME NEW r \in Runs, NEW outcome \in Outcomes, QueryEnds(r, outcome)
        PROVE  TracesInv' /\ Stays /\ DropsOld
    BY <1>1, <1>5, QueryEndsInv
  <1>6. ASSUME NEW r \in Runs, Poll(r) \/ PickEvidence(r)
        PROVE  TracesInv' /\ Stays /\ DropsOld
    BY <1>1, <1>6, ReadInv DEF Poll, PickEvidence
  <1>7. CASE PickEnds
    BY <1>1, <1>7, PickEndsInv
  <1>8. CASE UNCHANGED traceVars
    <2>1. UNCHANGED <<store, order, task, newer>>
      BY <1>8 DEF traceVars
    <2>2. Held' = Held
      BY <2>1 DEF Held
    <2> QED BY <2>1, <2>2 DEF TracesInv, TracesType, PublishedLast, Listing, Stays, DropsOld
  <1> QED BY <1>2, <1>3, <1>4, <1>5, <1>6, <1>7, <1>8 DEF TracesNext

LEMMA TracesInvHolds == TracesSpec => []TracesInv
  <1>1. TracesInv /\ [TracesNext]_traceVars => TracesInv'
    BY TracesStep
  <1> QED BY <1>1, TracesInitInv, PTL DEF TracesSpec

(* What LiveQueryTraceStore has published of a run is never changed, only  *)
(* diagnosed again, whatever polls, drops and diagnoses interleave.        *)
THEOREM PublishedIsFinal == TracesSpec => PublishedStays
  <1>1. TracesInv /\ [TracesNext]_traceVars =>
           [\A r \in Held \cap DOMAIN store' :
               store[r].status \in {"completed", "failed"} =>
                  /\ store'[r].status = store[r].status
                  /\ store'[r].answer = store[r].answer]_traceVars
    BY TracesStep DEF Stays, Held, Outcomes
  <1> QED BY <1>1, TracesInvHolds, PTL DEF TracesSpec, PublishedStays

(* The store drops a run only after its TTL, or when max_runs other runs   *)
(* were accessed since: polling keeps a run alive.  The supply of run ids  *)
(* is not smaller than the store.                                          *)
THEOREM DropsAreOld ==
  ASSUME MaxRuns <= Cardinality(Runs) PROVE TracesSpec => []DroppedOnlyWhenOld
  <1>1. TracesInv /\ DroppedOnlyWhenOld /\ [TracesNext]_traceVars => DroppedOnlyWhenOld'
    <2> SUFFICES ASSUME TracesInv, DroppedOnlyWhenOld, [TracesNext]_traceVars
                 PROVE  DroppedOnlyWhenOld'
      OBVIOUS
    <2>1. DropsOld
      BY TracesStep
    <2>2. Cardinality(Runs) >= MaxRuns
      BY LiveTracesAssumption, FS_CardinalityType
    <2> QED BY <2>1, <2>2 DEF DropsOld, DroppedOnlyWhenOld
  <1> QED BY <1>1, TracesInitInv, TracesInvHolds, PTL DEF TracesSpec

-----------------------------------------------------------------------------
(* THE PAGES.                                                              *)

Docs == Seq(Documents)

(* ByAge of any uploads, and its loop.                                     *)
AgeOf(stored) ==
    LET list[n \in 0..Len(stored)] ==
          IF n = 0 THEN << >>
          ELSE IF Contains(list[n - 1], stored[n]) THEN list[n - 1]
          ELSE Append(list[n - 1], stored[n])
    IN  list[Len(stored)]

WithUpload(list, d) == IF Contains(list, d) THEN list ELSE Append(list, d)

Ages(list, stored) ==
    /\ list \in [0..Len(stored) -> Docs] /\ list[0] = << >>
    /\ \A i \in 1..Len(stored) : list[i] = WithUpload(list[i - 1], stored[i])

LEMMA AgeLoop ==
  ASSUME NEW stored, stored \in Docs
  PROVE  \E list : Ages(list, stored) /\ AgeOf(stored) = list[Len(stored)]
  <1> DEFINE n == Len(stored)
             After(i, list) == IF Contains(list, stored[i]) THEN list ELSE Append(list, stored[i])
             Step == [x \in (1..n) \X Docs |-> After(x[1], x[2])]
             Defines(list) == list = [i \in 0..n |-> IF i = 0 THEN << >> ELSE After(i, list[i - 1])]
  <1>1. n \in Nat /\ << >> \in Docs
    BY DEF Docs
  <1>2. \A i \in 1..n, list \in Docs : After(i, list) \in Docs
    BY DEF Docs
  <1>3. \A i \in 1..n, list \in Docs : Step[<<i, list>>] = After(i, list)
    <2> HIDE DEF After
    <2> QED OBVIOUS
  <1>4. Step \in LoopBody(n, Docs)
    <2> HIDE DEF After, n
    <2> QED BY <1>2 DEF LoopBody
  <1>5. PICK list : IsLoop(list, n, Docs, << >>, Step)
    <2> HIDE DEF Step, n
    <2> QED BY <1>1, <1>4, LoopRuns
  <1>6. /\ list \in [0..n -> Docs] /\ list[0] = << >>
        /\ \A i \in 1..n : list[i - 1] \in Docs /\ list[i] = After(i, list[i - 1])
    <2> HIDE DEF Step, After, n
    <2> QED BY <1>3, <1>5 DEF IsLoop
  <1>7. Defines(list)
    <2> HIDE DEF n, After
    <2>1. list = [i \in 0..n |-> list[i]]
      BY <1>6
    <2>2. \A i \in 0..n : list[i] = IF i = 0 THEN << >> ELSE After(i, list[i - 1])
      BY <1>1, <1>6
    <2> QED BY <2>1, <2>2
  <1>8. ASSUME NEW other, Defines(other) PROVE other = list
    <2>1. other = [i \in 0..n |-> other[i]] /\ other[0] = << >>
      <3> HIDE DEF n, After
      <3>1. 0 \in 0..n
        BY <1>1
      <3> QED BY <1>8, <3>1
    <2>2. \A i \in 1..n : other[i] = After(i, other[i - 1])
      <3> HIDE DEF n, After
      <3>1. \A i \in 1..n : i \in 0..n /\ i # 0
        BY <1>1
      <3> QED BY <1>8, <3>1
    <2> HIDE DEF Step, After, n
    <2>3. Follows(other, n, Docs, << >>, Step)
      BY <1>3, <2>1, <2>2 DEF Follows
    <2> QED BY <1>1, <1>5, <2>3, LoopIsUnique
  <1>9. AgeOf(stored) = (CHOOSE other : Defines(other))[n]
    BY DEF AgeOf
  <1>10. AgeOf(stored) = list[n]
    <2> HIDE DEF Defines
    <2> QED BY <1>7, <1>8, <1>9
  <1>11. Ages(list, stored)
    <2> HIDE DEF n
    <2> QED BY <1>6 DEF Ages, WithUpload, n
  <1> QED BY <1>10, <1>11

LEMMA AgeOfStored == ASSUME NEW stored, stored \in Docs PROVE AgeOf(stored) \in Docs
  <1>1. PICK list : Ages(list, stored) /\ AgeOf(stored) = list[Len(stored)]
    BY AgeLoop
  <1>2. Len(stored) \in Nat
    BY DEF Docs
  <1> QED BY <1>1, <1>2 DEF Ages

(* A version of a new document is behind the older ones; one of a document *)
(* that is there changes nothing.                                          *)
LEMMA AgeAfterUpload ==
  ASSUME NEW stored, stored \in Docs, NEW d, d \in Documents
  PROVE  AgeOf(Append(stored, d)) = WithUpload(AgeOf(stored), d)
  <1> DEFINE more == Append(stored, d)
             n == Len(stored)
  <1>1. /\ n \in Nat /\ more \in Docs /\ Len(more) = n + 1
        /\ more[n + 1] = d /\ \A i \in 1..n : more[i] = stored[i]
    BY DEF Docs
  <1> HIDE DEF more
  <1>2. PICK old : Ages(old, stored) /\ AgeOf(stored) = old[n]
    BY AgeLoop
  <1>3. PICK new : Ages(new, more) /\ AgeOf(more) = new[n + 1]
    BY <1>1, AgeLoop
  <1> HIDE DEF n
  <1> DEFINE Good == {i \in 0..n : new[i] = old[i]}
  <1>4. 0 \in Good
    BY <1>1, <1>2, <1>3 DEF Ages
  <1>5. ASSUME NEW i \in 1..n, i - 1 \in Good PROVE i \in Good
    <2>1. i \in 1..n + 1 /\ i \in 0..n
      BY <1>1
    <2>2. old[i] = WithUpload(old[i - 1], stored[i])
      BY <1>2 DEF Ages, n
    <2>3. new[i] = WithUpload(new[i - 1], more[i])
      BY <1>1, <1>3, <2>1 DEF Ages
    <2> QED BY <1>1, <1>5, <2>1, <2>2, <2>3
  <1>6. n \in Good
    <2> HIDE DEF Good
    <2>1. \A i \in 1..n : i - 1 \in Good => i \in Good
      BY <1>5
    <2>2. 0..n \subseteq Good
      BY <1>1, <1>4, <2>1, EveryRound
    <2> QED BY <1>1, <2>2
  <1>7. new[n + 1] = WithUpload(new[n], more[n + 1])
    <2>1. n + 1 \in 1..n + 1 /\ (n + 1) - 1 = n
      BY <1>1
    <2> QED BY <1>1, <1>3, <2>1 DEF Ages
  <1> QED BY <1>1, <1>2, <1>3, <1>6, <1>7 DEF more

LEMMA AgeOfNothing == AgeOf(<< >>) = << >>
  <1>1. << >> \in Docs /\ Len(<< >>) = 0
    BY DEF Docs
  <1>2. PICK list : Ages(list, << >>) /\ AgeOf(<< >>) = list[Len(<< >>)]
    BY <1>1, AgeLoop
  <1> QED BY <1>1, <1>2 DEF Ages

-----------------------------------------------------------------------------
WalkState == [pc : {"idle", "walking", "done"}, limit : Nat \ {0}, offset : Nat,
              seen : SUBSET Documents, expected : SUBSET Documents]

(* What the walk has not reached is at the old end of the list, where no   *)
(* upload puts anything.                                                   *)
StillAhead ==
    walk.pc = "walking" =>
        \A i \in 1..Len(ByAge) :
            ByAge[i] \in walk.expected =>
                ByAge[i] \in walk.seen \/ i + walk.offset <= Len(ByAge)

PagesInv ==
    /\ uploads \in Docs /\ walk \in WalkState
    /\ Range(ByAge) = Range(uploads)
    /\ walk.expected \subseteq Range(uploads)
    /\ StillAhead /\ WalkMissesNothing

LEMMA ByAgeIs == ByAge = AgeOf(uploads) /\ ByAge' = AgeOf(uploads')
  BY DEF ByAge, AgeOf

LEMMA PagesInitInv == PagesInit => PagesInv
  <1> SUFFICES ASSUME PagesInit PROVE PagesInv
    OBVIOUS
  <1>1. uploads = << >> /\ ByAge = << >> /\ walk = NoWalk
    BY ByAgeIs, AgeOfNothing DEF PagesInit
  <1>2. uploads \in Docs /\ walk \in WalkState
    BY <1>1 DEF Docs, WalkState, NoWalk
  <1> QED BY <1>1, <1>2 DEF PagesInv, StillAhead, WalkMissesNothing, NoWalk

LEMMA UploadVersionInv ==
  ASSUME PagesInv, NEW d \in Documents, UploadVersion(d)
  PROVE  PagesInv'
  <1>1. uploads' = Append(uploads, d) /\ walk' = walk /\ uploads \in Docs
    BY DEF UploadVersion, PagesInv
  <1> DEFINE old == ByAge
             new == ByAge'
             n == Len(old)
  <1>2. old \in Docs /\ new = WithUpload(old, d) /\ uploads' \in Docs
    <2>1. old \in Docs
      BY <1>1, ByAgeIs, AgeOfStored
    <2>2. new = WithUpload(old, d)
      BY <1>1, ByAgeIs, AgeAfterUpload
    <2>3. uploads' \in Docs
      BY <1>1 DEF Docs
    <2> QED BY <2>1, <2>2, <2>3
  <1>3. Range(uploads') = Range(uploads) \cup {d}
    <2>1. /\ Len(uploads') = Len(uploads) + 1 /\ Len(uploads) \in Nat
          /\ DOMAIN uploads' = 1..Len(uploads) + 1 /\ DOMAIN uploads = 1..Len(uploads)
          /\ uploads'[Len(uploads) + 1] = d
          /\ \A i \in 1..Len(uploads) : uploads'[i] = uploads[i]
      BY <1>1 DEF Docs
    <2> QED BY <2>1 DEF Range
  <1>4. Range(old) = Range(uploads) /\ walk.expected \subseteq Range(uploads)
        /\ walk \in WalkState /\ StillAhead /\ WalkMissesNothing
    BY DEF PagesInv
  <1> HIDE DEF old, new
  <1>5. /\ n \in Nat /\ DOMAIN old = 1..n
        /\ Contains(old, d) <=> d \in Range(old)
    <2>1. n \in Nat /\ DOMAIN old = 1..n
      BY <1>2 DEF Docs
    <2> QED BY <2>1 DEF Contains, Range
  <1>6. CASE Contains(old, d)
    <2>1. new = old /\ Range(uploads') = Range(uploads)
      BY <1>2, <1>3, <1>4, <1>5, <1>6 DEF WithUpload
    <2> QED BY <1>1, <1>2, <1>4, <2>1 DEF PagesInv, StillAhead, WalkMissesNothing, old, new
  <1>7. CASE ~Contains(old, d)
    <2>1. new = Append(old, d)
      BY <1>2, <1>7 DEF WithUpload
    <2>2. /\ Len(new) = n + 1 /\ DOMAIN new = 1..n + 1 /\ new[n + 1] = d
          /\ \A i \in 1..n : new[i] = old[i]
      BY <1>2, <2>1 DEF Docs
    <2>3. Range(new) = Range(uploads')
      <3>1. Range(new) = Range(old) \cup {d}
        <4> HIDE DEF n
        <4> QED BY <1>5, <2>2 DEF Range
      <3> QED BY <1>3, <1>4, <3>1
    <2>4. d \notin walk.expected
      BY <1>4, <1>5, <1>7
    <2>5. StillAhead'
      <3>1. SUFFICES ASSUME walk.pc = "walking", NEW i \in 1..Len(new), new[i] \in walk.expected
                     PROVE  new[i] \in walk.seen \/ i + walk.offset <= Len(new)
        BY <1>1 DEF StillAhead, new
      <3>2. i \in 1..n /\ new[i] = old[i]
        <4> HIDE DEF n
        <4> QED BY <1>5, <2>2, <2>4, <3>1
      <3>3. old[i] \in walk.seen \/ i + walk.offset <= n
        BY <1>4, <3>1, <3>2 DEF StillAhead, old
      <3>4. walk.offset \in Nat
        BY <1>4 DEF WalkState
      <3> HIDE DEF n
      <3> QED BY <1>5, <2>2, <3>2, <3>3, <3>4
    <2> QED BY <1>1, <1>2, <1>3, <1>4, <2>3, <2>5 DEF PagesInv, WalkMissesNothing, new
  <1> QED BY <1>6, <1>7

LEMMA BeginWalkInv ==
  ASSUME PagesInv, NEW limit \in Limits, BeginWalk(limit)
  PROVE  PagesInv'
  <1>1. /\ walk' = [pc |-> "walking", limit |-> limit, offset |-> 0, seen |-> {},
                    expected |-> Range(uploads)]
        /\ uploads' = uploads /\ ByAge' = ByAge
    BY ByAgeIs DEF BeginWalk, NoWalk
  <1>2. uploads \in Docs /\ limit \in Nat \ {0}
    BY PagesAssumption DEF PagesInv
  <1>3. Range(uploads) \subseteq Documents
    BY <1>2 DEF Docs, Range
  <1>4. Len(ByAge) \in Nat
    BY <1>2, ByAgeIs, AgeOfStored DEF Docs
  <1>5. walk' \in WalkState
    BY <1>1, <1>2, <1>3 DEF WalkState
  <1> QED BY <1>1, <1>2, <1>4, <1>5 DEF PagesInv, StillAhead, WalkMissesNothing

LEMMA NextPageInv == ASSUME PagesInv, NextPage PROVE PagesInv'
  <1> DEFINE list == ByAge
             n == Len(list)
             next == walk.offset + walk.limit
             page == {Listed[i] : i \in (walk.offset + 1..next) \cap DOMAIN Listed}
  <1>1. /\ walk.pc = "walking" /\ uploads' = uploads /\ walk \in WalkState /\ uploads \in Docs
        /\ ByAge' = ByAge
        /\ walk' = [walk EXCEPT !.seen = walk.seen \cup page, !.offset = next,
                                !.pc = IF next < Len(Listed) THEN "walking" ELSE "done"]
    BY ByAgeIs DEF NextPage, PagesInv
  <1>2. list \in Docs
    BY <1>1, ByAgeIs, AgeOfStored
  <1>3. Range(list) = Range(uploads) /\ walk.expected \subseteq Range(uploads) /\ StillAhead
    BY DEF PagesInv
  <1>4. Listed = [i \in 1..n |-> list[n - i + 1]]
    BY DEF Listed, Reverse
  <1> HIDE DEF list
  <1>5. n \in Nat /\ DOMAIN list = 1..n /\ DOMAIN Listed = 1..n /\ Len(Listed) = n
        /\ \A i \in 1..n : list[i] \in Documents /\ n - i + 1 \in 1..n
    <2>1. n \in Nat /\ DOMAIN list = 1..n /\ \A i \in 1..n : list[i] \in Documents
      BY <1>2 DEF Docs
    <2> HIDE DEF n
    <2>2. \A i \in 1..n : n - i + 1 \in 1..n
      BY <2>1
    <2>3. Listed \in [1..n -> Documents]
      BY <1>4, <2>1, <2>2
    <2> QED BY <2>1, <2>2, <2>3
  <1> HIDE DEF n
  <1>6. walk.offset \in Nat /\ walk.limit \in Nat /\ next \in Nat
    BY <1>1 DEF WalkState
  <1>7. page \subseteq Documents
    BY <1>4, <1>5
  <1>8. ASSUME NEW i \in 1..n, list[i] \in walk.expected
        PROVE  list[i] \in walk.seen \cup page \/ i + next <= n
    <2>1. list[i] \in walk.seen \/ i + walk.offset <= n
      BY <1>1, <1>3, <1>8 DEF StillAhead, list, n
    <2>2. CASE i + walk.offset <= n /\ ~(i + next <= n)
      <3>1. PICK j : j = n - i + 1 /\ j \in 1..n /\ j \in walk.offset + 1..next /\ n - j + 1 = i
        BY <1>5, <1>6, <2>2
      <3>2. Listed[j] = list[i]
        BY <1>4, <3>1
      <3> QED BY <1>5, <3>1, <3>2
    <2> QED BY <2>1, <2>2
  <1> HIDE DEF page, next
  <1>9. /\ walk'.expected = walk.expected /\ walk'.seen = walk.seen \cup page
        /\ walk'.offset = next
        /\ walk'.pc = IF next < n THEN "walking" ELSE "done"
        /\ walk' \in WalkState
    BY <1>1, <1>5, <1>6, <1>7 DEF WalkState
  <1>10. StillAhead'
    BY <1>1, <1>8, <1>9 DEF StillAhead, list, n
  <1>11. WalkMissesNothing'
    <2>1. SUFFICES ASSUME ~(next < n), NEW d \in walk.expected PROVE d \in walk.seen \cup page
      BY <1>9 DEF WalkMissesNothing
    <2>2. PICK i \in 1..n : list[i] = d
      BY <1>3, <1>5 DEF Range
    <2>3. ~(i + next <= n)
      BY <1>5, <1>6, <2>1 DEF next
    <2> QED BY <1>8, <2>2, <2>3
  <1> QED BY <1>1, <1>3, <1>9, <1>10, <1>11 DEF PagesInv, list

LEMMA EndWalkInv == ASSUME PagesInv, EndWalk PROVE PagesInv'
  <1>1. walk' = NoWalk /\ uploads' = uploads /\ ByAge' = ByAge
    BY ByAgeIs DEF EndWalk
  <1> QED BY <1>1 DEF PagesInv, StillAhead, WalkMissesNothing, NoWalk, WalkState

LEMMA PagesStepInv == PagesInv /\ [PagesNext]_pagesVars => PagesInv'
  <1> SUFFICES ASSUME PagesInv, [PagesNext]_pagesVars PROVE PagesInv'
    OBVIOUS
  <1>1. CASE \E d \in Documents : UploadVersion(d)
    BY <1>1, UploadVersionInv
  <1>2. CASE \E limit \in Limits : BeginWalk(limit)
    BY <1>2, BeginWalkInv
  <1>3. CASE NextPage
    BY <1>3, NextPageInv
  <1>4. CASE EndWalk
    BY <1>4, EndWalkInv
  <1>5. CASE UNCHANGED pagesVars
    <2>1. walk' = walk /\ uploads' = uploads /\ ByAge' = ByAge
      BY <1>5, ByAgeIs DEF pagesVars
    <2> QED BY <2>1 DEF PagesInv, StillAhead, WalkMissesNothing
  <1> QED BY <1>1, <1>2, <1>3, <1>4, <1>5 DEF PagesNext

(* list_documents, for any page size and any uploads beside it: a client   *)
(* that follows the cursors to the end has seen every document that was    *)
(* there when it began.                                                    *)
THEOREM NoDocumentIsMissed == PagesSpec => []WalkMissesNothing
  <1>1. PagesInv => WalkMissesNothing
    BY DEF PagesInv
  <1> QED BY <1>1, PagesInitInv, PagesStepInv, PTL DEF PagesSpec

-----------------------------------------------------------------------------
(* THE RECOVERY QUEUE.                                                     *)

JobRows == [status   : {"none", "queued", "running", "failed", "succeeded"},
            attempts : Nat,
            wait     : {"null", "future", "due"},
            fresh    : BOOLEAN]

(* The rows in a line: each once, and only rows.                          *)
Lines(line, table) ==
    /\ line \in Seq(QueuedJobs)
    /\ \A m, n \in DOMAIN line : line[m] = line[n] => m = n
    /\ \A j \in QueuedJobs : table[j].status # "none" <=> \E m \in DOMAIN line : line[m] = j

(* Jobs are accepted in the order of their ids; only rows are offered.    *)
QueueInv ==
    /\ rows \in [QueuedJobs -> JobRows]
    /\ \A j \in QueuedJobs : rows[j].status = "none" => rows[j].wait = "null"
    /\ \A j, k \in QueuedJobs :
          k < j /\ rows[j].status # "none" => rows[k].status # "none"
    /\ Lines(keyOrder, rows) /\ Ordered(keyOrder, rows)
    /\ pollers \in [Pollers -> [pc : {"idle", "offered", "working"}, job : QueuedJobs \cup {0},
                                attempts : Nat]]
    /\ \A w \in Pollers :
          pollers[w].pc # "idle" =>
              pollers[w].job \in QueuedJobs /\ rows[pollers[w].job].status # "none"

LEMMA QueueInitInv == QueueInit => QueueInv
  BY DEF QueueInit, QueueInv, NoRow, NoAttempt, JobRows, Lines, Ordered

LEMMA MovedLines ==
  ASSUME Lines(keyOrder, rows), NEW p \in DOMAIN keyOrder, NEW i \in DOMAIN keyOrder
  PROVE  Lines(Moved(p, i), rows)
  <1> DEFINE n == Len(keyOrder)
             at(m) == CASE m = i           -> p
                        [] p <= m /\ m < i -> m + 1
                        [] i < m /\ m <= p -> m - 1
                        [] OTHER           -> m
             to(m) == CASE m = p           -> i
                        [] p < m /\ m <= i -> m - 1
                        [] i <= m /\ m < p -> m + 1
                        [] OTHER           -> m
             moved == Moved(p, i)
  <1>1. n \in Nat /\ DOMAIN keyOrder = 1..n /\ p \in 1..n /\ i \in 1..n
    BY DEF Lines
  <1>2. \A m \in 1..n : at(m) \in 1..n /\ to(m) \in 1..n /\ at(to(m)) = m /\ to(at(m)) = m
    <2> HIDE DEF n
    <2> QED BY <1>1
  <1>3. moved = [m \in 1..n |-> keyOrder[at(m)]]
    BY <1>1 DEF Moved
  <1> HIDE DEF at, to, moved
  <1>4. \A m \in 1..n : moved[m] = keyOrder[at(m)] /\ moved[m] \in QueuedJobs
    BY <1>1, <1>2, <1>3 DEF Lines
  <1>5. moved \in Seq(QueuedJobs) /\ DOMAIN moved = 1..n
    BY <1>1, <1>3, <1>4
  <1>6. ASSUME NEW a \in 1..n, NEW b \in 1..n, moved[a] = moved[b] PROVE a = b
    <2>1. at(a) = at(b)
      BY <1>1, <1>2, <1>4, <1>6 DEF Lines
    <2> QED BY <1>2, <2>1
  <1>7. ASSUME NEW j PROVE (\E m \in 1..n : moved[m] = j) <=> (\E m \in 1..n : keyOrder[m] = j)
    BY <1>2, <1>4
  <1> HIDE DEF n
  <1> QED BY <1>1, <1>5, <1>6, <1>7 DEF Lines, moved

(* Rows are overwritten, never added or removed, by Write.                 *)
Stored(j) == rows[j].status # "none"

LEMMA WriteKeeps ==
  ASSUME QueueInv, NEW j \in QueuedJobs, Stored(j),
         NEW row \in JobRows, row.status # "none", Write(j, row)
  PROVE  /\ rows' \in [QueuedJobs -> JobRows]
         /\ \A k \in QueuedJobs : rows'[k].status = "none" <=> rows[k].status = "none"
         /\ \A k \in QueuedJobs : rows'[k].status = "none" => rows'[k].wait = "null"
         /\ Lines(keyOrder', rows') /\ Ordered(keyOrder', rows')
  <1>1. rows' = [rows EXCEPT ![j] = row] /\ rows \in [QueuedJobs -> JobRows]
    BY DEF Write, QueueInv
  <1>2. /\ rows' \in [QueuedJobs -> JobRows] /\ rows'[j] = row
        /\ \A k \in QueuedJobs : k # j => rows'[k] = rows[k]
        /\ \A k \in QueuedJobs : rows'[k].status = "none" <=> rows[k].status = "none"
    BY <1>1 DEF Stored
  <1>3. \A k \in QueuedJobs : rows'[k].status = "none" => rows'[k].wait = "null"
    BY <1>2 DEF QueueInv
  <1>4. \A line : Lines(line, rows) => Lines(line, rows')
    BY <1>2 DEF Lines
  <1>5. CASE row.wait = rows[j].wait /\ UNCHANGED keyOrder
    <2>1. \A k \in QueuedJobs : rows'[k].wait = rows[k].wait
      BY <1>2, <1>5
    <2>2. \A m \in DOMAIN keyOrder : keyOrder[m] \in QueuedJobs
      BY DEF QueueInv, Lines
    <2>3. Ordered(keyOrder, rows')
      BY <2>1, <2>2 DEF QueueInv, Ordered
    <2> QED BY <1>2, <1>3, <1>4, <1>5, <2>3 DEF QueueInv
  <1>6. ASSUME NEW p \in DOMAIN keyOrder, NEW i \in DOMAIN keyOrder,
               Ordered(Moved(p, i), rows'), keyOrder' = Moved(p, i)
        PROVE  Lines(keyOrder', rows') /\ Ordered(keyOrder', rows')
    BY <1>4, <1>6, MovedLines DEF QueueInv
  <1> QED BY <1>2, <1>3, <1>5, <1>6 DEF Write

LEMMA AcceptJobInv ==
  ASSUME QueueInv, NEW j \in QueuedJobs, AcceptJob(j)
  PROVE  QueueInv'
  <1> DEFINE n == Len(keyOrder)
             with(i) == [m \in 1..n + 1 |-> IF m < i THEN keyOrder[m]
                                            ELSE IF m = i THEN j ELSE keyOrder[m - 1]]
  <1>1. PICK i \in 1..n + 1 : NowIsAt(i) /\ keyOrder' = with(i)
    BY DEF AcceptJob
  <1>2. /\ keyOrder \in Seq(QueuedJobs) /\ n \in Nat /\ i \in 1..n + 1 /\ DOMAIN keyOrder = 1..n
        /\ \A m \in 1..n : keyOrder[m] \in QueuedJobs
    BY DEF QueueInv, Lines
  <1> HIDE DEF n
  <1> DEFINE line == with(i)
  <1>3. /\ keyOrder' = line /\ line \in Seq(QueuedJobs) /\ DOMAIN line = 1..n + 1
        /\ \A m \in 1..n + 1 : line[m] \in QueuedJobs
    <2>1. \A m \in 1..n + 1 : line[m] \in QueuedJobs
      BY <1>2
    <2> QED BY <1>1, <1>2, <2>1
  <1>4. /\ rows' = [rows EXCEPT ![j].status = "queued"] /\ rows[j].status = "none"
        /\ \A k \in QueuedJobs : k < j => rows[k].status # "none"
        /\ pollers' = pollers
    BY DEF AcceptJob
  <1>5. /\ rows \in [QueuedJobs -> JobRows] /\ rows[j].wait = "null"
        /\ \A k, l \in QueuedJobs : k < l /\ rows[l].status # "none" => rows[k].status # "none"
        /\ \A m, l \in 1..n : keyOrder[m] = keyOrder[l] => m = l
        /\ \A k \in QueuedJobs : rows[k].status # "none" <=> \E m \in 1..n : keyOrder[m] = k
        /\ QueuedJobs \subseteq Nat
    BY <1>2, <1>4, QueueAssumption DEF QueueInv, Lines
  <1>6. /\ rows' \in [QueuedJobs -> JobRows]
        /\ \A k \in QueuedJobs : rows'[k].wait = rows[k].wait
        /\ rows'[j].status = "queued"
        /\ \A k \in QueuedJobs : k # j => rows'[k] = rows[k]
    BY <1>4, <1>5 DEF JobRows
  <1>7. \A m \in 1..n : keyOrder[m] # j
    BY <1>2, <1>4, <1>5
  <1>8. Lines(line, rows')
    <2>1. ASSUME NEW a \in 1..n + 1, NEW b \in 1..n + 1, line[a] = line[b] PROVE a = b
      BY <1>2, <1>5, <1>7, <2>1
    <2>2. ASSUME NEW k \in QueuedJobs, NEW m \in 1..n, keyOrder[m] = k
          PROVE  \E a \in 1..n + 1 : line[a] = k
      <3>1. CASE m < i
        BY <1>2, <2>2, <3>1
      <3>2. CASE m >= i
        <4>1. m + 1 \in 1..n + 1 /\ line[m + 1] = k
          BY <1>2, <2>2, <3>2
        <4> QED BY <4>1
      <3> QED BY <1>2, <3>1, <3>2
    <2>3. line[i] = j
      BY <1>2
    <2>4. ASSUME NEW a \in 1..n + 1, line[a] # j
          PROVE  \E m \in 1..n : keyOrder[m] = line[a]
      BY <1>2, <2>4
    <2> HIDE DEF line
    <2>5. ASSUME NEW k \in QueuedJobs
          PROVE  rows'[k].status # "none" <=> \E a \in 1..n + 1 : line[a] = k
      BY <1>2, <1>5, <1>6, <2>2, <2>3, <2>4
    <2> QED BY <1>3, <2>1, <2>5 DEF Lines
  <1>9. Ordered(line, rows')
    <2>1. /\ \A m \in 1..n : m < i => rows[keyOrder[m]].wait # "future"
          /\ \A m \in 1..n : m >= i => rows[keyOrder[m]].wait = "future"
      BY <1>1, <1>2 DEF NowIsAt
    <2>2. ASSUME NEW m \in 1..n PROVE keyOrder[m] < j
      BY <1>2, <1>4, <1>5, <1>7
    <2>3. \A m, l \in 1..n : m < l =>
             /\ rows[keyOrder[m]].wait = "future" => rows[keyOrder[l]].wait = "future"
             /\ rows[keyOrder[l]].wait = "null" => keyOrder[m] < keyOrder[l]
      BY <1>2 DEF QueueInv, Ordered
    <2>4. ASSUME NEW a \in 1..n + 1, NEW b \in 1..n + 1, a < b
          PROVE  /\ rows[line[a]].wait = "future" => rows[line[b]].wait = "future"
                 /\ rows[line[b]].wait = "null" => line[a] < line[b]
      <3>1. CASE b < i
        BY <1>2, <2>3, <2>4, <3>1
      <3>2. CASE b = i
        BY <1>2, <2>1, <2>2, <2>4, <3>2
      <3>3. CASE b > i
        <4>1. b - 1 \in 1..n /\ line[b] = keyOrder[b - 1] /\ rows[line[b]].wait = "future"
          BY <1>2, <2>1, <3>3
        <4> QED BY <4>1
      <3> QED BY <1>2, <3>1, <3>2, <3>3
    <2> HIDE DEF line
    <2> QED BY <1>3, <1>6, <2>4 DEF Ordered
  <1> HIDE DEF line, with
  <1>10. \A k \in QueuedJobs : rows'[k].status = "none" => rows'[k].wait = "null"
    BY <1>6 DEF QueueInv
  <1>11. \A k, l \in QueuedJobs : k < l /\ rows'[l].status # "none" => rows'[k].status # "none"
    BY <1>4, <1>5, <1>6
  <1>12. \A k \in QueuedJobs : rows[k].status # "none" => rows'[k].status # "none"
    BY <1>6
  <1> QED BY <1>3, <1>4, <1>6, <1>8, <1>9, <1>10, <1>11, <1>12 DEF QueueInv

LEMMA BackoffEndsInv ==
  ASSUME QueueInv, NEW j \in QueuedJobs, BackoffEnds(j)
  PROVE  QueueInv'
  <1>1. PICK i \in DOMAIN keyOrder : NowIsAt(i) /\ keyOrder[i] = j
    BY DEF BackoffEnds
  <1>2. /\ rows' = [rows EXCEPT ![j].wait = "due"] /\ keyOrder' = keyOrder /\ pollers' = pollers
        /\ rows \in [QueuedJobs -> JobRows]
    BY DEF BackoffEnds, QueueInv
  <1>3. /\ rows' \in [QueuedJobs -> JobRows] /\ rows'[j].wait = "due"
        /\ \A k \in QueuedJobs : k # j => rows'[k] = rows[k]
        /\ \A k \in QueuedJobs : rows'[k].status = rows[k].status
    BY <1>2 DEF JobRows
  <1>4. rows[j].status # "none"
    BY <1>1 DEF QueueInv, Lines
  <1>5. DOMAIN keyOrder \subseteq Nat /\ \A m \in DOMAIN keyOrder : keyOrder[m] \in QueuedJobs
    BY DEF QueueInv, Lines
  <1>6. Ordered(keyOrder, rows')
    BY <1>1, <1>3, <1>5 DEF QueueInv, Ordered, NowIsAt, Lines
  <1>7. Lines(keyOrder, rows')
    BY <1>3 DEF QueueInv, Lines
  <1>8. \A k \in QueuedJobs : rows'[k].status = "none" => rows'[k].wait = "null"
    BY <1>3, <1>4 DEF QueueInv
  <1> QED BY <1>2, <1>3, <1>6, <1>7, <1>8 DEF QueueInv

LEMMA LeaseEndsInv ==
  ASSUME QueueInv, NEW j \in QueuedJobs, LeaseEnds(j)
  PROVE  QueueInv'
  <1>1. /\ rows' = [rows EXCEPT ![j].fresh = FALSE] /\ keyOrder' = keyOrder /\ pollers' = pollers
        /\ rows \in [QueuedJobs -> JobRows]
    BY DEF LeaseEnds, QueueInv
  <1>2. /\ rows' \in [QueuedJobs -> JobRows]
        /\ \A k \in QueuedJobs : rows'[k].status = rows[k].status /\ rows'[k].wait = rows[k].wait
    BY <1>1 DEF JobRows
  <1>3. \A m \in DOMAIN keyOrder : keyOrder[m] \in QueuedJobs
    BY DEF QueueInv, Lines
  <1>4. Lines(keyOrder, rows') /\ Ordered(keyOrder, rows')
    BY <1>2, <1>3, SMTT(20) DEF QueueInv, Lines, Ordered
  <1> QED BY <1>1, <1>2, <1>4 DEF QueueInv

LEMMA OfferedIsStored == QueueInv => \A j \in Offered : j \in QueuedJobs /\ Stored(j)
  BY DEF Offered, FirstOf, Eligible, Stored

LEMMA PollersStepInv ==
  ASSUME QueueInv, NEW w \in Pollers,
         PollQueue(w) \/ ClaimOffered(w) \/ PollerDies(w)
            \/ \E outcome \in {"succeeded", "retryable", "fatal"} : AttemptEnds(w, outcome)
  PROVE  QueueInv'
  <1> DEFINE j == pollers[w].job
             Attempt == [pc : {"idle", "offered", "working"}, job : QueuedJobs \cup {0}, attempts : Nat]
  <1>1. pollers \in [Pollers -> Attempt] /\ NoAttempt \in Attempt /\ NoAttempt.pc = "idle"
    BY DEF QueueInv, NoAttempt
  <1>2. ASSUME NEW next \in Attempt, pollers' = [pollers EXCEPT ![w] = next],
               next.pc # "idle" => next.job \in QueuedJobs /\ Stored(next.job),
               \A k \in QueuedJobs : rows'[k].status = "none" <=> rows[k].status = "none"
        PROVE  /\ pollers' \in [Pollers -> Attempt]
               /\ \A v \in Pollers :
                     pollers'[v].pc # "idle" =>
                         pollers'[v].job \in QueuedJobs /\ rows'[pollers'[v].job].status # "none"
    BY <1>1, <1>2 DEF QueueInv, Stored
  <1>3. CASE PollQueue(w)
    <2>1. PICK k \in Offered :
             pollers' = [pollers EXCEPT ![w] = [NoAttempt EXCEPT !.pc = "offered", !.job = k]]
      BY <1>3 DEF PollQueue
    <2>2. k \in QueuedJobs /\ Stored(k)
      BY <2>1, OfferedIsStored
    <2>3. LET next == [NoAttempt EXCEPT !.pc = "offered", !.job = k]
          IN  next \in Attempt /\ next.job = k
      BY <2>2 DEF NoAttempt
    <2>4. rows' = rows /\ keyOrder' = keyOrder
      BY <1>3 DEF PollQueue
    <2> QED BY <1>2, <2>1, <2>2, <2>3, <2>4 DEF QueueInv
  <1>4. CASE PollerDies(w)
    <2>1. rows' = rows /\ keyOrder' = keyOrder /\ pollers' = [pollers EXCEPT ![w] = NoAttempt]
      BY <1>4 DEF PollerDies
    <2> QED BY <1>1, <1>2, <2>1 DEF QueueInv
  <1>5. ASSUME NEW row \in JobRows, row.status # "none", Write(j, row), NEW next \in Attempt,
               pollers[w].pc # "idle", pollers' = [pollers EXCEPT ![w] = next],
               next.pc # "idle" => next.job = j
        PROVE  QueueInv'
    <2>1. j \in QueuedJobs /\ Stored(j)
      BY <1>5 DEF QueueInv, Stored
    <2>2. /\ rows' \in [QueuedJobs -> JobRows]
          /\ \A k \in QueuedJobs : rows'[k].status = "none" <=> rows[k].status = "none"
          /\ \A k \in QueuedJobs : rows'[k].status = "none" => rows'[k].wait = "null"
          /\ Lines(keyOrder', rows') /\ Ordered(keyOrder', rows')
      BY <1>5, <2>1, WriteKeeps
    <2>3. \A k, l \in QueuedJobs : k < l /\ rows'[l].status # "none" => rows'[k].status # "none"
      BY <2>2 DEF QueueInv
    <2> HIDE DEF j
    <2>4. /\ pollers' \in [Pollers -> Attempt]
          /\ \A v \in Pollers :
                pollers'[v].pc # "idle" =>
                    pollers'[v].job \in QueuedJobs /\ rows'[pollers'[v].job].status # "none"
      BY <1>2, <1>5, <2>1, <2>2
    <2> QED BY <2>2, <2>3, <2>4 DEF QueueInv
  <1>6. CASE ClaimOffered(w)
    <2> DEFINE n == rows[j].attempts + 1
               row == [status |-> "running", attempts |-> n, wait |-> "null", fresh |-> TRUE]
               claimed == [pc |-> "working", job |-> j, attempts |-> n]
    <2>1. pollers[w].pc = "offered" /\ j \in QueuedJobs /\ n \in Nat
      <3>1. pollers[w].pc = "offered" /\ j \in QueuedJobs
        BY <1>6 DEF ClaimOffered, QueueInv
      <3>2. rows[j] \in JobRows
        BY <3>1 DEF QueueInv
      <3> QED BY <3>1, <3>2 DEF JobRows
    <2>2. \/ pollers' = [pollers EXCEPT ![w] = claimed] /\ Write(j, row)
          \/ pollers' = [pollers EXCEPT ![w] = NoAttempt] /\ UNCHANGED <<rows, keyOrder>>
      BY <1>6 DEF ClaimOffered
    <2>3. row \in JobRows /\ row.status # "none" /\ claimed \in Attempt /\ claimed.job = j
      BY <2>1 DEF JobRows
    <2> HIDE DEF row, claimed
    <2>4. CASE pollers' = [pollers EXCEPT ![w] = claimed] /\ Write(j, row)
      BY <1>5, <2>1, <2>3, <2>4
    <2>5. CASE pollers' = [pollers EXCEPT ![w] = NoAttempt] /\ UNCHANGED <<rows, keyOrder>>
      BY <1>1, <1>2, <2>5 DEF QueueInv
    <2> QED BY <2>2, <2>4, <2>5
  <1>7. ASSUME NEW outcome \in {"succeeded", "retryable", "fatal"}, AttemptEnds(w, outcome)
        PROVE  QueueInv'
    <2> DEFINE n == pollers[w].attempts
               retried == outcome = "retryable" /\ n < Attempts
               row == [status   |-> IF outcome = "succeeded" THEN "succeeded" ELSE "failed",
                       attempts |-> IF outcome = "succeeded" \/ retried THEN n ELSE Attempts,
                       wait     |-> IF retried THEN "future" ELSE "null",
                       fresh    |-> FALSE]
    <2>1. /\ pollers[w].pc = "working" /\ pollers' = [pollers EXCEPT ![w] = NoAttempt]
          /\ Write(j, row)
      BY <1>7 DEF AttemptEnds
    <2>2. row \in JobRows /\ row.status # "none"
      <3>1. n \in Nat /\ Attempts \in Nat
        BY <1>1, QueueAssumption
      <3> QED BY <3>1 DEF JobRows
    <2> HIDE DEF row
    <2> QED BY <1>1, <1>5, <2>1, <2>2
  <1> QED BY <1>3, <1>4, <1>6, <1>7

LEMMA QueueStepInv == QueueInv /\ [QueueNext]_queueVars => QueueInv'
  <1> SUFFICES ASSUME QueueInv, [QueueNext]_queueVars PROVE QueueInv'
    OBVIOUS
  <1>1. ASSUME NEW j \in QueuedJobs, AcceptJob(j) \/ BackoffEnds(j) \/ LeaseEnds(j)
        PROVE  QueueInv'
    BY <1>1, AcceptJobInv, BackoffEndsInv, LeaseEndsInv
  <1>2. ASSUME NEW w \in Pollers,
               PollQueue(w) \/ ClaimOffered(w) \/ PollerDies(w)
                  \/ \E outcome \in {"succeeded", "retryable", "fatal"} : AttemptEnds(w, outcome)
        PROVE  QueueInv'
    BY <1>2, PollersStepInv
  <1>3. CASE UNCHANGED queueVars
    BY <1>3 DEF queueVars, QueueInv, Lines, Ordered
  <1> QED BY <1>1, <1>2, <1>3 DEF QueueNext

(* Of rows in the list, one comes first.                                   *)
LEMMA FirstIsThere ==
  ASSUME QueueInv, NEW n \in Nat, n > 0, NEW some, some \subseteq QueuedJobs, some # {},
         \A j \in some : Stored(j)
  PROVE  FirstOf(n, some) # {}
  <1> DEFINE T == {m \in DOMAIN keyOrder : keyOrder[m] \in some}
  <1>1. T \subseteq Nat /\ T # {}
    BY DEF QueueInv, Lines, Stored
  <1>2. PICK m \in T : \A l \in T : m <= l
    BY <1>1, NatLeast
  <1>3. ASSUME NEW k \in some, Precedes(k, keyOrder[m]) PROVE FALSE
    BY <1>1, <1>2, <1>3 DEF Precedes, QueueInv, Lines
  <1>4. {k \in some : Precedes(k, keyOrder[m])} = {}
    BY <1>3
  <1>5. Cardinality({k \in some : Precedes(k, keyOrder[m])}) < n
    BY <1>4, FS_EmptySet
  <1> QED BY <1>2, <1>5 DEF FirstOf

(* _list_recoverable_jobs_sync, for any some, workers, attempts and limit: *)
(* when a poll is offered nothing although a job is ready, then at least   *)
(* 2 * limit others are leased; back-off alone hides nothing.              *)
THEOREM ReadyIsOffered == QueueSpec => []HiddenOnlyByLeases
  <1>1. ASSUME QueueInv PROVE HiddenOnlyByLeases
    <2> DEFINE Open(j)  == Eligible(j) /\ Ready(j)
               eligible == {j \in QueuedJobs : Eligible(j)}
               selected == FirstOf(2 * Limit, eligible)
               leased   == {j \in QueuedJobs : LeasedRow(j)}
    <2> SUFFICES ASSUME NEW k \in QueuedJobs, Open(k), Offered = {}
                 PROVE  Cardinality(leased) >= 2 * Limit
      BY DEF HiddenOnlyByLeases
    <2>1. \A j \in eligible : j \in QueuedJobs /\ Stored(j)
      BY DEF Eligible, Stored
    <2>2. \A j \in selected : ~Ready(j)
      <3>1. Offered = FirstOf(Limit, {j \in selected : Ready(j)})
        BY DEF Offered
      <3>2. selected \subseteq eligible
        BY DEF FirstOf
      <3> HIDE DEF selected, eligible
      <3>3. \A j \in {l \in selected : Ready(l)} : j \in QueuedJobs /\ Stored(j)
        BY <2>1, <3>2
      <3>4. {j \in selected : Ready(j)} = {}
        BY <1>1, <3>1, <3>3, FirstIsThere, QueueAssumption
      <3> QED BY <3>4
    <2> DEFINE T == {m \in DOMAIN keyOrder : Open(keyOrder[m])}
    <2>3. T \subseteq Nat /\ T # {}
      BY <1>1 DEF QueueInv, Lines, Eligible
    <2>4. PICK m \in T : \A l \in T : m <= l
      BY <2>3, NatLeast
    <2> DEFINE j == keyOrder[m]
               before == {i \in eligible : Precedes(i, j)}
    <2>5. j \in eligible /\ Ready(j)
      BY <1>1, <2>4 DEF QueueInv, Lines
    <2>6. ~(Cardinality(before) < 2 * Limit)
      <3>1. j \notin selected
        BY <2>2, <2>5
      <3> QED BY <2>5, <3>1 DEF FirstOf
    <2>7. ASSUME NEW i \in before PROVE i \in leased
      <3>1. PICK a, b \in DOMAIN keyOrder : a < b /\ keyOrder[a] = i /\ keyOrder[b] = j
        BY <2>7 DEF Precedes
      <3>2. b = m /\ a \in Nat /\ m \in Nat
        BY <1>1, <2>4, <3>1 DEF QueueInv, Lines
      <3>3. ~Ready(i)
        BY <2>4, <2>7, <3>1, <3>2
      <3>4. rows[i].wait # "future"
        BY <1>1, <2>5, <3>1 DEF QueueInv, Ordered, Ready
      <3> QED BY <2>7, <3>3, <3>4 DEF Ready
    <2>8. IsFiniteSet(leased)
      <3> DEFINE S == {keyOrder[l] : l \in DOMAIN keyOrder}
      <3>1. PICK n \in Nat : DOMAIN keyOrder = 1..n /\ keyOrder \in [1..n -> QueuedJobs]
        BY <1>1 DEF QueueInv, Lines
      <3>2. keyOrder \in Surjection(1..n, S)
        BY <3>1 DEF Surjection
      <3>3. IsFiniteSet(S)
        BY <3>1, <3>2, FS_Interval, FS_Surjection
      <3>4. leased \subseteq S
        BY <1>1 DEF QueueInv, Lines, LeasedRow
      <3> QED BY <3>3, <3>4, FS_Subset
    <2> HIDE DEF before, leased
    <2>9. before \subseteq leased
      BY <2>7
    <2>10. /\ Cardinality(before) <= Cardinality(leased)
           /\ Cardinality(before) \in Nat /\ Cardinality(leased) \in Nat
      BY <2>8, <2>9, FS_Subset, FS_CardinalityType
    <2> QED BY <2>6, <2>10, QueueAssumption
  <1> QED BY <1>1, QueueInitInv, QueueStepInv, PTL DEF QueueSpec
=============================================================================
