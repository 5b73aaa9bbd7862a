---------------------------- MODULE RecoveryQueue ----------------------------
(***************************************************************************)
(* What the workers' poll is offered: list_recoverable_jobs of             *)
(* SqliteIngestionRegistry orders the rows and limits them before it drops *)
(* those that are leased or backing off.  IngestionPipeline.tla leaves the *)
(* order out; here it is the subject, and an attempt is one step.          *)
(*                                                                         *)
(* Rows are ordered by COALESCE(next_attempt_at, created_at).  The clock   *)
(* is abstracted to the order of these keys: a row without next_attempt_at *)
(* is keyed by its creation, a backing-off one by a moment after all that  *)
(* have passed, a due one by a moment since its creation.                  *)
(***************************************************************************)
EXTENDS Naturals, Sequences, FiniteSets

CONSTANTS QueuedJobs,    \* job ids, in the order of their creation
          Pollers,       \* worker processes
          Attempts,      \* max_attempts
          Limit          \* limit of a poll (1 in worker_entrypoint)

ASSUME QueueAssumption == QueuedJobs \subseteq Nat /\ Attempts \in Nat \ {0} /\ Limit \in Nat \ {0}

VARIABLES rows,      \* job |-> [status, attempts, wait, fresh]; wait tells next_attempt_at:
                     \* "null", "future" or "due"; fresh: the lease has not gone stale
          keyOrder,  \* the rows by their key
          pollers    \* poller |-> [pc, job, attempts of its snapshot]

queueVars == <<rows, keyOrder, pollers>>

NoRow     == [status |-> "none", attempts |-> 0, wait |-> "null", fresh |-> FALSE]
NoAttempt == [pc |-> "idle", job |-> 0, attempts |-> 0]

QueueInit == /\ rows = [j \in QueuedJobs |-> NoRow] /\ keyOrder = << >>
             /\ pollers = [w \in Pollers |-> NoAttempt]

-----------------------------------------------------------------------------
(* keyOrder is an order of the keys the rows may have.                     *)
Ordered(order, table) ==
    \A i, k \in DOMAIN order : i < k =>
        /\ table[order[i]].wait = "future" => table[order[k]].wait = "future"
        /\ table[order[k]].wait = "null" => order[i] < order[k]

(* The row at place p goes to place i, those between close up.             *)
Moved(p, i) ==
    [m \in DOMAIN keyOrder |->
        keyOrder[CASE m = i               -> p
                   [] p <= m /\ m < i     -> m + 1
                   [] i < m /\ m <= p     -> m - 1
                   [] OTHER               -> m]]

(* The row of j is overwritten; its key may change with it.                *)
Write(j, row) ==
    /\ rows' = [rows EXCEPT ![j] = row]
    /\ IF row.wait = rows[j].wait /\ row.wait # "future" THEN UNCHANGED keyOrder
       ELSE \E p, i \in DOMAIN keyOrder :
               /\ keyOrder[p] = j
               /\ Ordered(Moved(p, i), rows')
               /\ keyOrder' = Moved(p, i)

(* The rows before place i have keys that have passed, the others not.     *)
NowIsAt(i) == /\ \A m \in DOMAIN keyOrder : m < i => rows[keyOrder[m]].wait # "future"
              /\ \A m \in DOMAIN keyOrder : m >= i => rows[keyOrder[m]].wait = "future"

(* accept: created now, after every key but the future ones.               *)
AcceptJob(j) ==
    /\ rows[j].status = "none" /\ \A k \in QueuedJobs : k < j => rows[k].status # "none"
    /\ rows' = [rows EXCEPT ![j].status = "queued"]
    /\ \E i \in 1..Len(keyOrder) + 1 :
          NowIsAt(i) /\ keyOrder' = [m \in 1..Len(keyOrder) + 1 |->
                                         IF m < i THEN keyOrder[m]
                                         ELSE IF m = i THEN j ELSE keyOrder[m - 1]]
    /\ UNCHANGED pollers

(* The first of the backing-off rows is due.                               *)
BackoffEnds(j) ==
    /\ \E i \in DOMAIN keyOrder : NowIsAt(i) /\ keyOrder[i] = j
    /\ rows' = [rows EXCEPT ![j].wait = "due"]
    /\ UNCHANGED <<keyOrder, pollers>>

(* stale_after_seconds have passed since the claim.                        *)
LeaseEnds(j) == /\ rows[j].fresh /\ rows' = [rows EXCEPT ![j].fresh = FALSE]
                /\ UNCHANGED <<keyOrder, pollers>>

-----------------------------------------------------------------------------
(* Mutant of Eligible: exhausted rows are selected too.                    *)
EligibleWhateverTheAttempts(j) == rows[j].status \in {"queued", "failed", "running"}

(* The WHERE clause.                                                       *)
Eligible(j) == rows[j].status \in {"queued", "failed", "running"} /\ rows[j].attempts < Attempts

(* Mutant of Precedes: ORDER BY created_at.                                *)
PrecedesByCreation(k, j) == k < j

(* ORDER BY COALESCE(next_attempt_at, created_at), job_id.                 *)
Precedes(k, j) == \E m, n \in DOMAIN keyOrder : m < n /\ keyOrder[m] = k /\ keyOrder[n] = j

LeasedRow(j) == rows[j].status = "running" /\ rows[j].fresh
Ready(j)     == rows[j].wait # "future" /\ ~LeasedRow(j)
FirstOf(n, some) == {j \in some : Cardinality({k \in some : Precedes(k, j)}) < n}

(* LIMIT 2 * limit, and the filter over what came back.                    *)
Offered ==
    LET selected == FirstOf(2 * Limit, {j \in QueuedJobs : Eligible(j)})
    IN  FirstOf(Limit, {j \in selected : Ready(j)})

(* The worker takes the jobs of a poll one after the other; with the limit *)
(* of 1 there is one.                                                      *)
PollQueue(w) ==
    /\ pollers[w].pc = "idle"
    /\ \E j \in Offered :
          pollers' = [pollers EXCEPT ![w] = [NoAttempt EXCEPT !.pc = "offered", !.job = j]]
    /\ UNCHANGED <<rows, keyOrder>>

(* claim_job checks all again, in one transaction: another worker may have *)
(* been faster.                                                            *)
ClaimOffered(w) ==
    LET j == pollers[w].job
        claims == rows[j].status # "succeeded" /\ rows[j].attempts < Attempts /\ Ready(j)
        n == rows[j].attempts + 1
    IN  /\ pollers[w].pc = "offered"
        /\ pollers' = [pollers EXCEPT ![w] =
              IF claims THEN [pc |-> "working", job |-> j, attempts |-> n] ELSE NoAttempt]
        /\ IF claims THEN Write(j, [status |-> "running", attempts |-> n,
                                    wait |-> "null", fresh |-> TRUE])
           ELSE UNCHANGED <<rows, keyOrder>>

(* _complete or _fail overwrite the row with the snapshot of the attempt,  *)
(* whatever has become of the row.                                         *)
AttemptEnds(w, outcome) ==
    LET j == pollers[w].job
        n == pollers[w].attempts
        retried == outcome = "retryable" /\ n < Attempts
    IN  /\ pollers[w].pc = "working"
        /\ pollers' = [pollers EXCEPT ![w] = NoAttempt]
        /\ Write(j, [status   |-> IF outcome = "succeeded" THEN "succeeded" ELSE "failed",
                     attempts |-> IF outcome = "succeeded" \/ retried THEN n ELSE Attempts,
                     wait     |-> IF retried THEN "future" ELSE "null",
                     fresh    |-> FALSE])

(* The worker dies at its attempt and is started again.                    *)
PollerDies(w) == /\ pollers[w].pc = "working" /\ pollers' = [pollers EXCEPT ![w] = NoAttempt]
                 /\ UNCHANGED <<rows, keyOrder>>

QueueNext ==
    \/ \E j \in QueuedJobs : AcceptJob(j) \/ BackoffEnds(j) \/ LeaseEnds(j)
    \/ \E w \in Pollers :
          \/ PollQueue(w) \/ ClaimOffered(w) \/ PollerDies(w)
          \/ \E outcome \in {"succeeded", "retryable", "fatal"} : AttemptEnds(w, outcome)

QueueSpec == QueueInit /\ [][QueueNext]_queueVars

(* Clocks advance, and a worker polls for ever and ends its attempts.      *)
WorkerStep(w) == PollQueue(w) \/ ClaimOffered(w) \/ PollerDies(w)
                 \/ \E outcome \in {"succeeded", "retryable", "fatal"} : AttemptEnds(w, outcome)
QueueFairness == /\ \A w \in Pollers : WF_queueVars(WorkerStep(w))
                 /\ WF_queueVars(\E j \in QueuedJobs : BackoffEnds(j) \/ LeaseEnds(j))

-----------------------------------------------------------------------------
(* LIMIT before the filter hides a ready job from a poll, but only behind  *)
(* leased rows: rows that back off never stand before a ready one.         *)
HiddenOnlyByLeases ==
    (\E j \in QueuedJobs : Eligible(j) /\ Ready(j)) /\ Offered = {} =>
        Cardinality({j \in QueuedJobs : LeasedRow(j)}) >= 2 * Limit

Spent(j) == rows[j].status = "succeeded" \/ rows[j].attempts = Attempts

(* No accepted job waits for ever: it succeeds, or uses up its attempts.   *)
EveryJobIsTried == \A j \in QueuedJobs : (rows[j].status = "queued") ~> Spent(j)
=============================================================================
