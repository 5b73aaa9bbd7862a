-------------------------- MODULE RegistryAdapters --------------------------
(***************************************************************************)
(* The two adapters of the IngestionRegistry port, called side by side:    *)
(* SqliteIngestionRegistry keeps rows and a log of stage events and builds *)
(* what it returns at each read; InMemoryIngestionRegistry keeps the       *)
(* snapshots themselves.  The callers are the upload and delete handlers   *)
(* and run_job of an embedded worker, which may run twice for one job.     *)
(*                                                                         *)
(* The uploads are versions of one document, numbered in the order of      *)
(* their creation.  A log of events is reduced to the last event of each   *)
(* stage, all that a read makes of it, and the stages to two and the one   *)
(* that completes the job.  What run_job writes from one read is one step. *)
(***************************************************************************)
EXTENDS Naturals, FiniteSetsExt

CONSTANTS Numbers,     \* the versions that may be uploaded
          HeaderKeys,  \* Idempotency-Key values
          JobRuns,     \* calls of run_job at the same time
          Tries        \* max_attempts

ASSUME AdaptersAssumption == Numbers \subseteq Nat \ {0} /\ Tries \in Nat \ {0}

VARIABLES sqlite,      \* rows, keys and events
          inmemory,    \* _by_identity, _by_idempotency, _jobs and _stage_events
          calls,       \* run |-> [pc, job, what it read last from each adapter]
          shared       \* the jobs two runs have worked on at once

adapterVars == <<sqlite, inmemory, calls, shared>>

StageNames == {"index", "activate", "complete"}
NoEvents == [s \in StageNames |-> "none"]

(* The columns of a job but for its ids and its timestamps.                *)
NewRow == [status |-> "queued", progress |-> 0, error |-> "none", stage |-> "none",
           failed |-> "none", attempts |-> 0]
AbsentRow == [NewRow EXCEPT !.status = "absent"]
AbsentJob == [row |-> AbsentRow, stages |-> NoEvents]
IdleRun == [pc |-> "idle", job |-> 0, fromSqlite |-> AbsentJob, fromMemory |-> AbsentJob]

AdaptersInit ==
    /\ sqlite = [rows   |-> [v \in Numbers |-> AbsentRow],
                 shown  |-> [v \in Numbers |-> "absent"],
                 keys   |-> [k \in HeaderKeys |-> 0],
                 events |-> [v \in Numbers |-> NoEvents]]
    /\ inmemory = [receipts |-> [v \in Numbers |-> "absent"],
                   byKey    |-> [k \in HeaderKeys |-> 0],
                   jobs     |-> [v \in Numbers |-> AbsentJob],
                   history  |-> [v \in Numbers |-> NoEvents]]
    /\ calls = [r \in JobRuns |-> IdleRun]
    /\ shared = {}

-----------------------------------------------------------------------------
(* SqliteIngestionRegistry.                                                *)

(* _job_from_row, with the stages of _stage_events_sync.                   *)
SqliteJob(s, v) == [row |-> s.rows[v], stages |-> s.events[v]]

(* The reply of accept: a conflict, a stored receipt or a new one.         *)
SqliteReply(s, v, k) ==
    IF k \in HeaderKeys /\ s.keys[k] \notin {0, v} THEN "conflict"
    ELSE IF s.rows[v].status = "absent" THEN "created" ELSE s.shown[v]

SqliteAccept(s, v, k) ==
    [s EXCEPT !.keys  = [i \in HeaderKeys |-> IF i = k THEN v ELSE @[i]],
              !.rows[v]  = IF @.status = "absent" THEN NewRow ELSE @,
              !.shown[v] = IF s.rows[v].status = "absent" THEN "indexing" ELSE @]

(* The UPDATE of claim_job.                                                *)
SqliteClaim(s, v) ==
    [s EXCEPT !.rows[v].status = "running",
              !.rows[v].progress = IF @ > 1 THEN @ ELSE 1,
              !.rows[v].error = "none",
              !.rows[v].attempts = @ + 1]

(* update_job writes the columns; the stages of the snapshot are dropped.  *)
SqliteUpdate(s, v, row) == [s EXCEPT !.rows[v] = row]

(* record_stage_event: COALESCE keeps the error.                           *)
SqliteRecord(s, v, name, status, error) ==
    [s EXCEPT !.events[v][name] = status,
              !.rows[v].stage = name,
              !.rows[v].error = IF error = "none" THEN @ ELSE error,
              !.rows[v].failed = IF status = "failed" THEN name ELSE @]

SqliteSetStatus(s, v, status) == [s EXCEPT !.shown[v] = status]

SqliteActivate(s, v) ==
    [s EXCEPT !.shown = [w \in Numbers |-> IF w = v THEN "active"
                                           ELSE IF @[w] = "active" THEN "deleted" ELSE @[w]]]

SqliteBusy(s) == \E v \in Numbers : s.rows[v].status \in {"queued", "running"}
SqliteDelete(s) ==
    [s EXCEPT !.shown = [v \in Numbers |->
                            IF s.rows[v].status = "absent" THEN "absent" ELSE "deleted"]]

(* The rows list_recoverable_jobs selects, before their clock is read.     *)
SqliteRecoverable(s) ==
    {v \in Numbers : s.rows[v].status \in {"queued", "failed", "running"}
                        /\ s.rows[v].attempts < Tries}

-----------------------------------------------------------------------------
(* InMemoryIngestionRegistry.                                              *)

MemoryJob(m, v) == m.jobs[v]

(* A key names the stored ingestion itself, not a copy of its receipt.     *)
MemoryReply(m, v, k) ==
    IF k \in HeaderKeys /\ m.byKey[k] \notin {0, v} THEN "conflict"
    ELSE IF k \in HeaderKeys /\ m.byKey[k] = v THEN m.receipts[m.byKey[k]]
    ELSE IF m.receipts[v] = "absent" THEN "created" ELSE m.receipts[v]

MemoryAccept(m, v, k) ==
    [m EXCEPT !.byKey = [i \in HeaderKeys |-> IF i = k THEN v ELSE @[i]],
              !.receipts[v] = IF @ = "absent" THEN "indexing" ELSE @,
              !.jobs[v] = IF m.receipts[v] = "absent" THEN [AbsentJob EXCEPT !.row = NewRow] ELSE @]

(* Mutant of MemoryClaim: the error of the last attempt stays.             *)
MemoryClaimKeepsError(m, v) ==
    [m EXCEPT !.jobs[v].row.status = "running",
              !.jobs[v].row.progress = IF @ > 1 THEN @ ELSE 1,
              !.jobs[v].row.attempts = @ + 1]

MemoryClaim(m, v) ==
    [m EXCEPT !.jobs[v].row.status = "running",
              !.jobs[v].row.progress = IF @ > 1 THEN @ ELSE 1,
              !.jobs[v].row.error = "none",
              !.jobs[v].row.attempts = @ + 1]

(* update_job keeps the snapshot as it is, the stages of its read too.     *)
MemoryUpdate(m, v, snapshot) == [m EXCEPT !.jobs[v] = snapshot]

(* record_stage_event builds the stages from the whole history.            *)
MemoryRecord(m, v, name, status, error) ==
    LET history == [m.history[v] EXCEPT ![name] = status]
        row == m.jobs[v].row
    IN  [m EXCEPT !.history[v] = history,
                  !.jobs[v] = [stages |-> history,
                               row |-> [row EXCEPT
                                  !.stage = name,
                                  !.error = IF error = "none" THEN row.error ELSE error,
                                  !.failed = IF status = "failed" THEN name ELSE row.failed]]]

MemorySetStatus(m, v, status) == [m EXCEPT !.receipts[v] = status]

MemoryActivate(m, v) ==
    [m EXCEPT !.receipts = [w \in Numbers |-> IF w = v THEN "active"
                                              ELSE IF @[w] = "active" THEN "deleted" ELSE @[w]]]

MemoryBusy(m) == \E v \in Numbers : m.jobs[v].row.status \in {"queued", "running"}
MemoryDelete(m) ==
    [m EXCEPT !.receipts = [v \in Numbers |-> IF @[v] = "absent" THEN "absent" ELSE "deleted"]]

(* _job_recoverable, before it reads the clock.                            *)
MemoryRecoverable(m) ==
    {v \in Numbers : m.jobs[v].row.status \notin {"absent", "succeeded"}
                        /\ ~(m.jobs[v].row.attempts >= Tries)}

-----------------------------------------------------------------------------
(* active_version_ids: the active version created last; 0 if there is none.*)
ActiveId(statuses) ==
    LET active == {v \in Numbers : statuses[v] = "active"}
    IN  IF active = {} THEN 0 ELSE Max(active)

(* The document a read shows: the first of the statuses that a version has.*)
Shown(statuses) ==
    LET has(s) == \E v \in Numbers : statuses[v] = s
    IN  [status |-> IF has("active") THEN "active"
                    ELSE IF has("indexing") THEN "indexing"
                    ELSE IF has("failed") THEN "failed"
                    ELSE IF has("deleted") THEN "deleted" ELSE "absent",
         active |-> ActiveId(statuses)]

(* claim_job hands an exhausted job back, and claims one that is not.      *)
(* (The clock is left out: a lease or a delay is over when a run starts.)  *)
Claims(row) == row.attempts < Tries

Both(s, m) == sqlite' = s /\ inmemory' = m

(* The snapshots a run read before its last write: those before are        *)
(* written in the step that reads them.                                    *)
ReadBack(r, pc) ==
    calls' = [calls EXCEPT ![r].pc = pc,
                           ![r].fromSqlite = SqliteJob(sqlite', calls[r].job),
                           ![r].fromMemory = MemoryJob(inmemory', calls[r].job)]

-----------------------------------------------------------------------------
(* Bounds: either two runs work on the first version at once, and are      *)
(* followed to their end, or a second version is uploaded.                 *)
Working == {r \in JobRuns : calls[r].pc # "idle"}
Alone   == \A v \in Numbers \ {1} : sqlite.rows[v].status = "absent"

(* accept, for a document that is uploaded for the first time or again.    *)
AcceptBoth(v, k) ==
    /\ v = 1 \/ (Working = {} /\ shared = {})
    /\ SqliteReply(sqlite, v, k) # "conflict"
    /\ \A w \in Numbers : w < v => sqlite.rows[w].status # "absent"
    /\ Both(SqliteAccept(sqlite, v, k), MemoryAccept(inmemory, v, k))
    /\ UNCHANGED <<calls, shared>>

(* delete_document.                                                        *)
DeleteBoth ==
    /\ sqlite.shown # [v \in Numbers |-> "absent"] /\ ~SqliteBusy(sqlite)
    /\ Both(SqliteDelete(sqlite), MemoryDelete(inmemory))
    /\ UNCHANGED <<calls, shared>>

(* run_job up to its first stage: the claim, INDEXING and progress 1.  An  *)
(* exhausted job is run without a claim.                                   *)
StartRun(r, v) ==
    LET s == IF Claims(sqlite.rows[v]) THEN SqliteClaim(sqlite, v) ELSE sqlite
        m == IF Claims(sqlite.rows[v]) THEN MemoryClaim(inmemory, v) ELSE inmemory
        Started(row) == [row EXCEPT !.status = "running", !.progress = 1]
    IN  /\ calls[r].pc = "idle" /\ sqlite.rows[v].status \notin {"absent", "succeeded"}
        /\ shared = {} /\ (Working = {} \/ Alone)
        /\ Both(SqliteUpdate(SqliteSetStatus(s, v, "indexing"), v, Started(s.rows[v])),
                MemoryUpdate(MemorySetStatus(m, v, "indexing"), v,
                             [m.jobs[v] EXCEPT !.row = Started(@)]))
        /\ calls' = [calls EXCEPT ![r].pc = "index", ![r].job = v]
        /\ shared' = IF \E o \in JobRuns \ {r} : calls[o].job = v THEN {v} ELSE {}

(* _begin_stage.                                                           *)
BeginStage(r) ==
    LET v == calls[r].job
    IN  /\ calls[r].pc \in {"index", "activate"}
        /\ Both(SqliteRecord(sqlite, v, calls[r].pc, "running", "none"),
                MemoryRecord(inmemory, v, calls[r].pc, "running", "none"))
        /\ calls' = [calls EXCEPT ![r].pc = IF @ = "index" THEN "indexing" ELSE "activating"]
        /\ UNCHANGED shared

(* _finish_stage of the indexing, and _set_progress.                       *)
FinishIndexing(r) ==
    LET v == calls[r].job
        s == SqliteRecord(sqlite, v, "index", "succeeded", "none")
        m == MemoryRecord(inmemory, v, "index", "succeeded", "none")
        Halfway(row) == [row EXCEPT !.status = "running", !.progress = 50]
    IN  /\ calls[r].pc = "indexing"
        /\ Both(SqliteUpdate(s, v, Halfway(s.rows[v])),
                MemoryUpdate(m, v, [m.jobs[v] EXCEPT !.row = Halfway(@)]))
        /\ calls' = [calls EXCEPT ![r].pc = "activate"]
        /\ UNCHANGED shared

(* activate_document_version, and _finish_stage of the activation.         *)
FinishActivation(r) ==
    LET v == calls[r].job
    IN  /\ calls[r].pc = "activating"
        /\ Both(SqliteRecord(SqliteActivate(sqlite, v), v, "activate", "succeeded", "none"),
                MemoryRecord(MemoryActivate(inmemory, v), v, "activate", "succeeded", "none"))
        /\ ReadBack(r, "complete")
        /\ UNCHANGED shared

(* SUCCEEDED is written from what was read last, and then the last event.  *)
CompleteRun(r) ==
    LET v == calls[r].job
        Done(row) == [row EXCEPT !.status = "succeeded", !.progress = 100]
        s == SqliteUpdate(sqlite, v, Done(calls[r].fromSqlite.row))
        m == MemoryUpdate(inmemory, v, [calls[r].fromMemory EXCEPT !.row = Done(@)])
    IN  /\ calls[r].pc = "complete"
        /\ Both(SqliteRecord(s, v, "complete", "succeeded", "none"),
                MemoryRecord(m, v, "complete", "succeeded", "none"))
        /\ calls' = [calls EXCEPT ![r] = IdleRun]
        /\ UNCHANGED shared

(* A stage raises: its failed event.                                       *)
FailStage(r, error) ==
    LET v == calls[r].job
        name == IF calls[r].pc = "indexing" THEN "index" ELSE "activate"
    IN  /\ calls[r].pc \in {"indexing", "activating"}
        /\ Both(SqliteRecord(sqlite, v, name, "failed", error),
                MemoryRecord(inmemory, v, name, "failed", error))
        /\ ReadBack(r, "failing")
        /\ UNCHANGED shared

(* _fail: FAILED, and the retry or the end of the attempts.                *)
Failed(row) ==
    [row EXCEPT !.status = "failed",
                !.attempts = IF row.error = "retryable" THEN @ ELSE Tries]

FailRun(r) ==
    LET v == calls[r].job
    IN  /\ calls[r].pc = "failing"
        /\ Both(SqliteUpdate(SqliteSetStatus(sqlite, v, "failed"), v,
                             Failed(calls[r].fromSqlite.row)),
                MemoryUpdate(MemorySetStatus(inmemory, v, "failed"), v,
                             [calls[r].fromMemory EXCEPT !.row = Failed(@)]))
        /\ calls' = [calls EXCEPT ![r] = IdleRun]
        /\ UNCHANGED shared

AdaptersNext ==
    \/ \E v \in Numbers, k \in HeaderKeys \cup {"absent"} : AcceptBoth(v, k)
    \/ DeleteBoth
    \/ \E r \in JobRuns, v \in Numbers : StartRun(r, v)
    \/ \E r \in JobRuns : \/ BeginStage(r) \/ FinishIndexing(r) \/ FinishActivation(r)
                          \/ CompleteRun(r) \/ FailRun(r)
                          \/ \E error \in {"retryable", "fatal"} : FailStage(r, error)

AdaptersSpec == AdaptersInit /\ [][AdaptersNext]_adapterVars

-----------------------------------------------------------------------------
(* The adapters tell their callers the same: every read, every reply to an *)
(* upload, every busy check, every poll.  Only the stages of a job that two runs    *)
(* worked on at once may differ: the memory adapter keeps an older read.   *)
AdaptersAgree ==
    /\ \A v \in Numbers :
          /\ SqliteJob(sqlite, v).row = MemoryJob(inmemory, v).row
          /\ v \notin shared => SqliteJob(sqlite, v) = MemoryJob(inmemory, v)
          /\ \A k \in HeaderKeys \cup {"absent"} :
                SqliteReply(sqlite, v, k) = MemoryReply(inmemory, v, k)
    /\ Shown(sqlite.shown) = Shown(inmemory.receipts)
    /\ SqliteBusy(sqlite) <=> MemoryBusy(inmemory)
    /\ SqliteRecoverable(sqlite) = MemoryRecoverable(inmemory)
=============================================================================
