----------------------------- MODULE Evaluations -----------------------------
(***************************************************************************)
(* EvaluationService and its process-local registry: a run is queued by    *)
(* the request, executed by its background task and persisted as an        *)
(* artifact.  A step is the code between two awaits; the benchmark and the *)
(* writing of the artifact run in threads.                                 *)
(***************************************************************************)
EXTENDS Naturals, Sequences, FiniteSets

CONSTANTS EvalRuns,    \* run ids in the order of their requests
          Revisions    \* source revisions

VARIABLES registry,    \* the snapshots
          jobs,        \* the background tasks: execute_run
          artifacts,   \* files of artifact_dir: run |-> what was written
          head         \* the revision checked out

evalVars == <<registry, jobs, artifacts, head>>

NoSnapshot == [status |-> "none", error |-> "none", metrics |-> "none", revision |-> "none"]
NoJob      == [pc |-> "none", metrics |-> "none"]

(* What the benchmark can come to.  OfflineEvaluationExecutor.execute      *)
(* raises when the retrieval service is missing, the request is not        *)
(* supported, the dataset is missing or a search fails.                    *)
Failures == {"DEPENDENCY_UNAVAILABLE", "INVALID_REQUEST", "EVALUATION_FAILED"}

EvaluationsInit ==
    /\ registry = [e \in EvalRuns |-> NoSnapshot]
    /\ jobs = [e \in EvalRuns |-> NoJob]
    /\ artifacts = << >>
    /\ head \in Revisions

Finished == {"succeeded", "failed"}

-----------------------------------------------------------------------------
(* create_run, and the task that is added to the response.                 *)
CreateRun(e) ==
    /\ registry[e].status = "none"
    /\ \A d \in EvalRuns : d < e => registry[d].status # "none"
    /\ registry' = [registry EXCEPT ![e].status = "queued"]
    /\ jobs' = [jobs EXCEPT ![e].pc = "scheduled"]
    /\ UNCHANGED <<artifacts, head>>

(* execute_run: a finished run is left alone.                              *)
BeginRun(e) ==
    /\ jobs[e].pc = "scheduled"
    /\ IF registry[e].status \in Finished
       THEN jobs' = [jobs EXCEPT ![e].pc = "ended"] /\ UNCHANGED registry
       ELSE /\ jobs' = [jobs EXCEPT ![e].pc = "executing"]
            /\ registry' = [registry EXCEPT ![e] = [NoSnapshot EXCEPT !.status = "running"]]
    /\ UNCHANGED <<artifacts, head>>

(* The benchmark returned its measurements.                                *)
Executed(e, metrics) ==
    /\ jobs[e].pc = "executing"
    /\ jobs' = [jobs EXCEPT ![e] = [pc |-> "writing", metrics |-> metrics]]
    /\ UNCHANGED <<registry, artifacts, head>>

(* Mutant of Fail: an unexpected exception is not persisted.               *)
FailServiceErrorsOnly(e, code) ==
    IF code = "EVALUATION_FAILED" THEN UNCHANGED registry
    ELSE registry' = [registry EXCEPT ![e].status = "failed", ![e].error = code]

(* _fail.                                                                  *)
Fail(e, code) ==
    registry' = [registry EXCEPT ![e].status = "failed", ![e].error = code]

(* The benchmark or the write raised.  A write that fails may leave a part *)
(* of the file.                                                            *)
RunFails(e, code) ==
    /\ jobs[e].pc \in {"executing", "writing"}
    /\ jobs[e].pc = "writing" => code = "EVALUATION_FAILED"
    /\ jobs' = [jobs EXCEPT ![e] = [NoJob EXCEPT !.pc = "ended"]]
    /\ Fail(e, code)
    /\ artifacts' \in {artifacts} \cup
          (IF jobs[e].pc = "writing"
           THEN {[d \in DOMAIN artifacts \cup {e} |->
                    IF d = e THEN [metrics |-> "torn", revision |-> head] ELSE artifacts[d]]}
           ELSE {})
    /\ UNCHANGED head

(* _write_artifact, with the revision of that moment.                      *)
WriteArtifact(e) ==
    /\ jobs[e].pc = "writing"
    /\ artifacts' = [d \in DOMAIN artifacts \cup {e} |->
                        IF d = e THEN [metrics |-> jobs[e].metrics, revision |-> head]
                        ELSE artifacts[d]]
    /\ jobs' = [jobs EXCEPT ![e].pc = "written"]
    /\ UNCHANGED <<registry, head>>

(* Mutant of Succeed: the state is persisted before the file is complete.  *)
SucceedEarly(e) ==
    /\ jobs[e].pc = "writing"
    /\ registry' = [registry EXCEPT ![e] = [NoSnapshot EXCEPT !.status = "succeeded",
                                             !.metrics = jobs[e].metrics, !.revision = head]]
    /\ jobs' = [jobs EXCEPT ![e] = [NoJob EXCEPT !.pc = "ended"]]
    /\ UNCHANGED <<artifacts, head>>

(* The terminal state, with the revision read once more.                   *)
Succeed(e) ==
    /\ jobs[e].pc = "written"
    /\ registry' = [registry EXCEPT ![e] = [NoSnapshot EXCEPT !.status = "succeeded",
                                             !.metrics = jobs[e].metrics, !.revision = head]]
    /\ jobs' = [jobs EXCEPT ![e] = [NoJob EXCEPT !.pc = "ended"]]
    /\ UNCHANGED <<artifacts, head>>

(* Someone checks out another revision while runs are in progress.         *)
Checkout(revision) ==
    /\ head # revision /\ head' = revision
    /\ UNCHANGED <<registry, jobs, artifacts>>

EvaluationsNext ==
    \/ \E e \in EvalRuns :
          \/ CreateRun(e) \/ BeginRun(e) \/ WriteArtifact(e) \/ Succeed(e)
          \/ \E metrics \in {"low", "high"} : Executed(e, metrics)
          \/ \E code \in Failures : RunFails(e, code)
    \/ \E revision \in Revisions : Checkout(revision)

(* Threads and tasks run on; a search has a timeout.                       *)
RunStep(e) == BeginRun(e) \/ (\E m \in {"low", "high"} : Executed(e, m)) \/ WriteArtifact(e)
                          \/ Succeed(e) \/ (\E code \in Failures : RunFails(e, code))
EvaluationsFairness == \A e \in EvalRuns : WF_evalVars(RunStep(e))
EvaluationsSpec == EvaluationsInit /\ [][EvaluationsNext]_evalVars /\ EvaluationsFairness

-----------------------------------------------------------------------------
(* A success is backed by a complete file with the same measurements.      *)
SuccessHasItsArtifact ==
    \A e \in EvalRuns : registry[e].status = "succeeded" =>
        e \in DOMAIN artifacts /\ artifacts[e].metrics = registry[e].metrics

(* Every queued run is told to have succeeded or failed.                   *)
EveryEvaluationEnds ==
    \A e \in EvalRuns : (registry[e].status = "queued") ~> (registry[e].status \in Finished)
=============================================================================
