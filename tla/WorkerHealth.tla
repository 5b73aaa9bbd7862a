---------------------------- MODULE WorkerHealth ----------------------------
(***************************************************************************)
(* How the API learns that the worker is alive: run_worker writes a        *)
(* heartbeat file while it polls and while a job runs, and the readiness   *)
(* probe of the API reads its age and its state.                           *)
(*                                                                         *)
(* One tick is worker_heartbeat_interval_seconds.  The loop of a running   *)
(* worker comes round at least once a tick, because a poll sleeps and a    *)
(* wait for the job lasts no longer; loading the models before the loop    *)
(* takes any time.                                                         *)
(***************************************************************************)
EXTENDS Naturals

CONSTANTS StaleTicks,   \* 4: stale_after_seconds of the probe, in ticks
          MaxAge        \* bound: ages are counted up to it

ASSUME WorkerHealthAssumption == StaleTicks \in Nat \ {0} /\ MaxAge \in Nat /\ MaxAge > StaleTicks

VARIABLE health

(* worker: where run_worker is.  beat: the file, its age, its state.       *)
(* round: ticks since the loop last came round.  gone: ticks since the     *)
(* worker process was last alive; missed: writes of the loop that failed   *)
(* since one succeeded, MaxAge if none has.                                *)
HealthState == [worker : {"down", "loading", "polling", "processing"},
                beat   : {"absent", "starting", "idle", "processing", "stopped"},
                age : 0..MaxAge, round : 0..1, gone : 0..MaxAge, missed : 0..MaxAge]

HealthInit == health = [worker |-> "down", beat |-> "absent", age |-> 0,
                        round |-> 0, gone |-> MaxAge, missed |-> 0]

CappedSucc(n) == IF n < MaxAge THEN n + 1 ELSE MaxAge

-----------------------------------------------------------------------------
(* WorkerHeartbeat.write replaces the file, or fails and leaves it.        *)
Beats(state, next) ==
    \/ health' = [next EXCEPT !.beat = state, !.age = 0, !.missed = 0]
    \/ health' = [next EXCEPT !.missed = CappedSucc(@)]

StartProcess ==
    /\ health.worker = "down"
    /\ LET started == [health EXCEPT !.worker = "loading", !.gone = 0, !.missed = MaxAge]
       IN  health' \in {started, [started EXCEPT !.beat = "starting", !.age = 0]}

(* The models are loaded, the registry answers: the loop comes round.      *)
PollRegistry ==
    /\ health.worker \in {"loading", "polling"}
    /\ Beats("idle", [health EXCEPT !.worker = "polling", !.round = 0])

(* The poll returned a job.                                                *)
BeginJob ==
    /\ health.worker = "polling"
    /\ Beats("processing", [health EXCEPT !.worker = "processing", !.round = 0])

(* Mutant of WaitForJob: the job is awaited without an interval.           *)
WaitForJobSilently ==
    health.worker = "processing" /\ health' = [health EXCEPT !.round = 0]

(* wait_for timed out, and the job is still running.                       *)
WaitForJob ==
    /\ health.worker = "processing"
    /\ Beats("processing", [health EXCEPT !.round = 0])

(* The job has ended, however it did.                                      *)
JobReturns ==
    /\ health.worker = "processing"
    /\ Beats("idle", [health EXCEPT !.worker = "polling", !.round = 0])

(* An interrupt or an error of the registry leaves the loop through its    *)
(* finally; a load that fails, or a kill, leaves no trace.                 *)
StopWorker ==
    /\ health.worker \in {"polling", "processing"}
    /\ Beats("stopped", [health EXCEPT !.worker = "down", !.round = 0])

KillWorker == /\ health.worker # "down"
              /\ health' = [health EXCEPT !.worker = "down", !.round = 0]

Tick ==
    /\ health.worker \in {"polling", "processing"} => health.round = 0
    /\ health' = [health EXCEPT
          !.age   = IF health.beat = "absent" THEN @ ELSE CappedSucc(@),
          !.round = IF health.worker \in {"polling", "processing"} THEN @ + 1 ELSE @,
          !.gone  = IF health.worker = "down" THEN CappedSucc(@) ELSE 0]

HealthNext == \/ StartProcess \/ PollRegistry \/ BeginJob \/ WaitForJob \/ JobReturns
              \/ StopWorker \/ KillWorker \/ Tick
HealthSpec == HealthInit /\ [][HealthNext]_health

-----------------------------------------------------------------------------
(* Mutant of ProbeUp: the age of the heartbeat is not looked at.           *)
ProbeUpByState == health.beat \notin {"absent", "stopped"}

(* HeartbeatFileProbe.check.                                               *)
ProbeUp == health.beat \notin {"absent", "stopped"} /\ health.age <= StaleTicks

(* The API calls the worker up only while it runs, or for as long as a     *)
(* heartbeat lasts after it died without a last word.                      *)
UpMeansRecentlyAlive ==
    ProbeUp => health.gone <= StaleTicks

(* A worker in its loop is not called down while fewer writes in a row     *)
(* failed than the probe waits intervals, however long its job takes.      *)
LiveWorkerIsUp ==
    health.worker \in {"polling", "processing"} /\ health.missed + 1 < StaleTicks => ProbeUp
=============================================================================
