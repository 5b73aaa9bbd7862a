----------------------------- MODULE LiveTraces -----------------------------
(***************************************************************************)
(* The live query runs of the demo API: LiveQueryTraceStore, the           *)
(* background task _run_query that fills it, the clients that poll it and  *)
(* the diagnosis with trusted evidence that is added to a finished run.    *)
(*                                                                         *)
(* Handlers and tasks are coroutines of one event loop: a step is the code *)
(* between two awaits.  The store compares access times only with each     *)
(* other and with the TTL: order lists the runs it holds, the one accessed *)
(* longest ago first; the TTL expires a prefix of it.                      *)
(***************************************************************************)
EXTENDS Naturals, Sequences, FiniteSets

CONSTANTS Runs,      \* run ids, each used once
          MaxRuns    \* max_runs of the store

ASSUME LiveTracesAssumption == MaxRuns \in Nat \ {0} /\ IsFiniteSet(Runs)

(* What the query came to: an answer or a refusal, or an error.  The       *)
(* generation probe that is recorded with it is in ModelService.tla.       *)
Outcomes == {"completed", "failed"}

VARIABLES store,     \* runs held |-> what the client can read
          order,     \* the runs held, accessed longest ago first
          task,      \* the background task of each run
          picker,    \* a diagnosis with trusted evidence in progress
          newer      \* history: the runs accessed since this one was, while it was
                     \* held; Runs once the TTL has dropped it

traceVars == <<store, order, task, picker, newer>>

(* answer: the result or the error that was published; diagnosed: with     *)
(* trusted evidence; gold: a gold case is expected.                        *)
NoRun  == [status |-> "pending", answer |-> "none", diagnosed |-> FALSE]
NoTask == [pc |-> "none", gold |-> FALSE, outcome |-> "none"]
Ended  == [NoTask EXCEPT !.pc = "ended"]
NoPick == [pc |-> "idle", run |-> 0]

TracesInit ==
    /\ store = << >> /\ order = << >>
    /\ task = [r \in Runs |-> NoTask]
    /\ picker = NoPick
    /\ newer = [r \in Runs |-> {}]

Held == DOMAIN store
Position(list, r) == CHOOSE i \in DOMAIN list : list[i] = r
Without(list, r) == SubSeq(list, 1, Position(list, r) - 1)
                       \o SubSeq(list, Position(list, r) + 1, Len(list))

(* run.last_access = monotonic().                                          *)
Touched(list, r) == Append(Without(list, r), r)
NewerThan(r, history) ==
    [x \in Runs |-> IF x = r THEN {} ELSE IF x \in Held THEN history[x] \cup {r} ELSE history[x]]
Touch(r) == order' = Touched(order, r) /\ newer' = NewerThan(r, newer)

(* _cleanup_locked: the n runs at the head of order have expired.          *)
Expired(n) == {order[i] : i \in 1..n}
Unexpired(n) == SubSeq(order, n + 1, Len(order))
AfterExpiry(n) == [x \in Runs |-> IF x \in Expired(n) THEN Runs ELSE newer[x]]

-----------------------------------------------------------------------------
(* Mutant of Evicted: the run that was created first.                      *)
EvictedByCreation(list) ==
    CHOOSE r \in {list[i] : i \in DOMAIN list} :
        \A s \in {list[i] : i \in DOMAIN list} : r <= s

(* Over max_runs the run accessed longest ago is dropped.                  *)
Evicted(list) == Head(list)

(* start_query_run: the selected model was validated before; the run is    *)
(* created and its task scheduled.                                         *)
StartQueryRun(r, gold) ==
    /\ task[r].pc = "none"
    /\ \A s \in Runs : s < r => task[s].pc # "none"
    /\ \E n \in 0..Len(order) :
          LET kept == Append(Unexpired(n), r)
              over == IF Len(kept) > MaxRuns THEN {Evicted(kept)} ELSE {}
              held == (Held \cup {r}) \ (Expired(n) \cup over)
          IN  /\ store' = [x \in held |-> IF x = r THEN NoRun ELSE store[x]]
              /\ order' = IF over = {} THEN kept ELSE Without(kept, Evicted(kept))
              /\ newer' = [x \in Runs |-> IF x \in Held \ Expired(n) THEN newer[x] \cup {r}
                                           ELSE AfterExpiry(n)[x]]
    /\ task' = [task EXCEPT ![r].pc = "scheduled", ![r].gold = gold]
    /\ UNCHANGED picker

(* store.recorder: a run that was dropped before its task began raises, and*)
(* nothing is executed.                                                    *)
BeginTask(r) ==
    /\ task[r].pc = "scheduled"
    /\ \E n \in 0..Len(order) :
          /\ store' = [x \in Held \ Expired(n) |-> store[x]]
          /\ order' = Unexpired(n)
          /\ newer' = AfterExpiry(n)
          /\ task' = [task EXCEPT ![r] = IF r \in Held \ Expired(n)
                                         THEN [@ EXCEPT !.pc = "executing"] ELSE Ended]
    /\ UNCHANGED picker

(* LiveQueryTraceStore.emit of a running stage; silent on a dropped run.   *)
Emit(r) ==
    /\ task[r].pc = "executing" /\ r \in Held /\ store[r].status = "pending"
    /\ store' = [store EXCEPT ![r].status = "running"]
    /\ Touch(r)
    /\ UNCHANGED <<task, picker>>

-----------------------------------------------------------------------------
(* Mutant of Publish: a failure is traced but not published.               *)
PublishCompletedOnly(r, outcome) ==
    IF r \notin Held \/ outcome = "failed" THEN UNCHANGED <<store, order, newer>>
    ELSE /\ store' = [store EXCEPT ![r].status = outcome, ![r].answer = outcome]
         /\ Touch(r)

(* finish and fail: the status with the result or the error.               *)
Publish(r, outcome) ==
    IF r \notin Held THEN UNCHANGED <<store, order, newer>>
    ELSE /\ store' = [store EXCEPT ![r].status = outcome, ![r].answer = outcome]
         /\ Touch(r)

(* query_service.execute returns or raises.  A failure is traced, which    *)
(* touches the run.  Without a gold case nothing is awaited before the     *)
(* outcome is published.                                                   *)
QueryEnds(r, outcome) ==
    /\ task[r].pc = "executing"
    /\ IF task[r].gold
       THEN /\ task' = [task EXCEPT ![r].pc = "comparing", ![r].outcome = outcome]
            /\ UNCHANGED store
            /\ IF outcome = "completed" \/ r \notin Held THEN UNCHANGED <<order, newer>> ELSE Touch(r)
       ELSE task' = [task EXCEPT ![r] = Ended] /\ Publish(r, outcome)
    /\ UNCHANGED picker

(* compare_existing_case found the gold evidence.                          *)
Compared(r) ==
    /\ task[r].pc = "comparing"
    /\ task' = [task EXCEPT ![r] = Ended]
    /\ Publish(r, task[r].outcome)
    /\ UNCHANGED picker

(* It raised: the case is unknown, or the lookup in the vector store       *)
(* failed.  No handler is around it, and the task ends.                    *)
ComparisonRaises(r) ==
    /\ task[r].pc = "comparing"
    /\ task' = [task EXCEPT ![r] = [NoTask EXCEPT !.pc = "crashed"]]
    /\ UNCHANGED <<store, order, picker, newer>>

-----------------------------------------------------------------------------
(* get_query_run.                                                          *)
Poll(r) == /\ r \in Held /\ Touch(r)
           /\ UNCHANGED <<store, task, picker>>

(* recompute_trusted_evidence_diagnostic: the run is read, and the         *)
(* comparison waits for the lookup of the chosen sources.                  *)
PickEvidence(r) ==
    /\ picker.pc = "idle" /\ r \in Held
    /\ store[r].status \in {"completed", "failed"}
    /\ picker' = [pc |-> "comparing", run |-> r]
    /\ Touch(r)
    /\ UNCHANGED <<store, task>>

(* Mutant of MergedRun: the diagnosis replaces the result.                 *)
MergedRunReplaced(held) == [held EXCEPT !.answer = "none", !.diagnosed = TRUE]

(* run.result.update({"expected_check": ...}).                             *)
MergedRun(held) == [held EXCEPT !.diagnosed = TRUE]

(* merge_result raises when the run was dropped meanwhile, or failed and   *)
(* so has no result; the request ends with an internal error.              *)
PickEnds ==
    /\ picker.pc = "comparing"
    /\ picker' = NoPick
    /\ LET r == picker.run
       IN  IF r \in Held /\ store[r].status = "completed"
           THEN store' = [store EXCEPT ![r] = MergedRun(@)] /\ Touch(r)
           ELSE UNCHANGED <<store, order, newer>>
    /\ UNCHANGED task

TracesNext ==
    \/ \E r \in Runs :
          \/ \E gold \in BOOLEAN : StartQueryRun(r, gold)
          \/ BeginTask(r)
          \/ Emit(r)
          \/ \E outcome \in Outcomes : QueryEnds(r, outcome)
          \/ Compared(r)
          \/ ComparisonRaises(r)
          \/ Poll(r)
          \/ PickEvidence(r)
    \/ PickEnds

(* Every task runs on: the steps of a query wait only for calls with a     *)
(* timeout.                                                                *)
TaskStep(r) == BeginTask(r) \/ (\E outcome \in Outcomes : QueryEnds(r, outcome))
                            \/ Compared(r) \/ ComparisonRaises(r)
TracesFairness == \A r \in Runs : WF_traceVars(TaskStep(r))
TracesSpec == TracesInit /\ [][TracesNext]_traceVars /\ TracesFairness

-----------------------------------------------------------------------------
(* A result is lost only to the TTL or to max_runs runs that were accessed *)
(* since: polling keeps a run alive.                                       *)
DroppedOnlyWhenOld ==
    \A r \in Runs : task[r].pc # "none" /\ r \notin Held => Cardinality(newer[r]) >= MaxRuns

(* What was published of a run is never changed, only diagnosed again.     *)
PublishedStays ==
    [][\A r \in Held \cap DOMAIN store' :
          store[r].status \in {"completed", "failed"} =>
              /\ store'[r].status = store[r].status
              /\ store'[r].answer = store[r].answer]_traceVars

Unfinished(r) == r \in Held /\ store[r].status \in {"pending", "running"}

(* A run whose comparison does not raise is published, or dropped.         *)
EveryComparedRunEnds == \A r \in Runs : Unfinished(r) ~> (~Unfinished(r) \/ task[r].pc = "crashed")

(* A run that was started is published, or dropped.                        *)
EveryRunEnds == \A r \in Runs : Unfinished(r) ~> ~Unfinished(r)
=============================================================================
