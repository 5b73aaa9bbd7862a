# Formal model of the document intelligence service

TLA+ modules, TLC runs and TLAPS proofs about
`src/projects/document_intelligence_service` (below: `app/` stands for its `app`
directory). The service ingests PDFs into a SQLite registry and a Qdrant collection,
and answers questions from the chunks it indexed. The core of the model is the
ingestion pipeline, because it is the part whose correctness depends on the order
of steps of several processes over two stores that share no transaction. Around it stand a
model of a query from its question to the diagnosis of its answer, and one of each component
beside the two.

Ingestion and search:

    CorpusIdentity.tla        identities shared by every component
    IngestionRegistry.tla     the SQLite rows, one operator per transaction
    ChunkStore.tla            the Qdrant points, one operator per request
    IngestionPipeline.tla     worker tasks, uploads and deletions over both stores
    IngestionProperties.tla   what the pipeline promises
    ServedVersion.tla         abstract specification: what readers are served
    Retrieval.tla             searches beside the pipeline

One query:

    RankFusion.tla            fusion, candidate window, reranker, top_k
    AnswerGate.tla            evidence filter, scores, the answerability decision
    QueryPipeline.tla         the query service, gate by gate
    GoldDiagnosis.tla         which stage lost the expected evidence
    PromptPacking.tla         the character budget of the prompt
    ModelService.tla          installed models, readiness, pulls, probes
    Vocabulary.tla            the BM25 vocabulary of two processes

Around them:

    LiveTraces.tla            the bounded store of live runs and their tasks
    Evaluations.tla           evaluation runs and their artifacts
    DocumentPages.tla         the document list by offset
    RecoveryQueue.tla         what a poll is offered, with LIMIT, leases and back-off
    WorkerHealth.tla          the heartbeat file and its probe
    Chunking.tla              sections, sentences, chunks, pages, the AUTO profile
    RegistryAdapters.tla      the SQLite and the in-memory registry side by side
    RegistryMigration.tla     two processes that migrate one old database
    CollectionSchema.tla      callers that create or complete one Qdrant collection

    MCIngestionPipeline.tla, MCRetrieval.tla, MCQuery.tla, MCServices.tla
                              constants and compositions for TLC; *.cfg, one per run
    IngestionProofs.tla       theorems about the pipeline: types, active versions, the refinement;
                              and about the searches beside it
    IngestionJobProofs.tla    theorems about its job rows and about failures
    QueryProofs.tla           theorems about fusion, the gates and the diagnosis
    StorageProofs.tla         theorems about the migration, the collection, the two registries
    ServicesProofs.tla        theorems about heartbeat, evaluations, live runs, pages, the queue
    ChunkingProofs.tla        theorems about how a document is cut
    LoopProofs.tla            lemmas: what a loop over 1..n computes
    ModelProofs.tla           theorems about models, the vocabulary and the prompt's packing
    PROJECT.json              components, runs, mutants, map to the source, findings, hazards

`tlc -config <run>.cfg <module>.tla` checks a run: `MCRetrieval` for `search.cfg`, `MCQuery` for
`query.cfg` and `blamed_prompt.cfg`, `MCServices` for `services.cfg`, `LiveTraces` for
`stuck_trace.cfg`, `MCIngestionPipeline` for the rest. `tlapm <module>.tla` checks the proofs of a module.

## 1. Inventory

### The system's parts

| Part | Code | State it keeps | Operations |
|---|---|---|---|
| Ingestion registry | `infrastructure/storage/sqlite_registry.py` | one row per upload identity (document columns and job columns), `idempotency_keys`, stage events | `accept`, `list_recoverable_jobs`, `claim_job`, `update_job`, `set_document_status`, `activate_document_version`, `active_version_ids`, `delete_document`, lists and reads |
| In-memory registry | `infrastructure/storage/in_memory_registry.py` | the same in dicts under a lock | the same |
| Qdrant chunk store | `infrastructure/qdrant/chunk_store.py` | a point per chunk with an `active` payload | stage, verify, activate, deactivate previous, discard, delete document |
| Ingestion worker | `application/ingestion_worker.py` | local variables of `run_job`: snapshot, staged, published, open stage | the stages, `_fail` |
| Poll loop | `worker_entrypoint.py` | heartbeat file | poll one due job, run it, log what it raises |
| Document API | `api/v1/documents.py`, `application/ingestion_service.py`, `document_service.py` | none | upload (409 on key conflict), delete (404, 409, 503), reads |
| Retrieval | `application/retrieval_service.py`, `infrastructure/qdrant/retriever.py` | a snapshot of active versions per search | dense and sparse search, rank fusion, parent expansion, rerank |
| BM25 encoder | `infrastructure/embeddings/sparse.py` | vocabulary in memory and in a file | fit, encode document, encode query |
| Query service | `application/query_service.py`, `domain/*` gates | none | safety gate, retrieval, answerability, generation, citation check |
| Live traces | `observability/query_trace.py`, `api/v1/demo.py` | bounded run store | start, event, finish, fail, snapshot |
| Evaluation runs | `application/evaluation_service.py`, evaluation registries | run rows | create, execute, read |
| Models, profile | `application/model_service.py`, `infrastructure/ollama/model_runtime.py` | selected model, pulls | list, pull, select |
| Health | `application/health_service.py`, `infrastructure/worker_heartbeat.py` | heartbeat age | ready, live |
| Schema migration | `sqlite_registry.py` `_initialize` | the columns and the primary key of the file | add columns, rebuild the table |
| Gold diagnostics | `application/gold_diagnostic.py`, `qdrant/gold_lookup.py`, `domain/answer_check.py` | none | resolve locators, follow them through a run, name the stage that lost them |
| Collection setup | `infrastructure/qdrant/schema.py` | the vectors and payload indexes of the collection, in Qdrant | `ensure_collection`, before every use |
| Text processing, adapters, metrics, settings, scripts | the rest | none of its own | pure or I/O |

`PROJECT.json` lists each with its status: what is modelled, partly modelled, or left out and why.

### How they interact

* The API process and the worker process share the SQLite file and the Qdrant
  collection and nothing else. Docker Compose runs one worker process and sets
  `DIS_EMBEDDED_WORKER=false` for the API (`compose.yaml:51,129`). With the
  variable true, as in `.env.example:14`, every accepted upload also adds a background task that
  calls `run_job` in the API process (`api/v1/documents.py`, `demo.py:135`).
* A job is handed over through the registry only: `accept` stores it, a poll lists
  due rows, `claim_job` marks the row and counts the attempt. A claim is a lease of
  `stale_after_seconds`; it is not renewed while the job runs.
* A version becomes visible in three steps in two stores: points are flagged active
  in Qdrant, then one SQLite transaction retires the sibling and activates the new version
  (the authoritative switch), then the points of the siblings are flagged inactive.
* A search asks the registry for the active versions and filters Qdrant by these ids
  *and* by the `active` flag. A served version therefore needs both: the registry row
  and every one of its points flagged.
* A deletion checks the document, removes its points, then marks its rows, and each of
  the three may interleave with a worker.

### What is hard

Crashes between two stores; failures of a request that may or may not have been
applied; re-runs over a version that is already served; retries with back-off racing a
lease; whole-row snapshots read earlier and written later; deletions that overlap with
ingestion; overlapping background tasks; a search that spans a switch; the vocabulary file
shared by processes and threads; a bounded store of live traces whose runs can be
evicted between two steps of a request; a `LIMIT` before a filter; pages by offset; a
schema migration by two processes that may end anywhere; a collection that several callers create; a heartbeat that must tell a long
job from a dead worker; a diagnosis that puts together traces of different stages.
`PROJECT.json` "hazards" names each at
its line with the property that covers it, or says why none does.

### What makes each component correct

* Registry: one active version per document; a key is bound once; success is final;
  attempts are never lost; a busy document is not deleted.
* Chunk store with worker: what the registry calls active is complete and published in
  Qdrant; rows and versions agree when no task works on them; every job ends.
* Readers: a new version takes over in one step, from whole to whole.
* Searches: a search never mixes versions of a document, and finds the served ones in full
  unless a document changes its status meanwhile.
* Query: fusion never loses the better of two chunks; the gate judges the best score; the model is
  asked only over safe evidence that has what the question names; the prompt keeps its budget and starves no source.
* Diagnosis: PASS only for a grounded answer; a blamed stage had the fact and lost it.
* Vocabulary: a stored feature is that of one term for ever, in every process.
* Live runs: dropped only when old; what is published stays; every run ends.
* Evaluations: each ends, and a success is backed by its file. Pages: a walk misses nothing.
* Poll: a ready job is hidden by leases only, and every job is tried. Health: up means
  alive, alive means up. Models: the drawer tells the truth.
* Chunking: no word is lost, pages are cited right, AUTO fails no document.
* Registries: the two adapters tell the same; a migration loses no row.

## 2. The modules and the code

**CorpusIdentity.** An upload is identified by `(tenant_id, content_hash,
pipeline_fingerprint)`, and version id and job id belong to that row, so one value
`v \in Versions` stands for row, version and job. `DocumentOf` gives the document id,
which depends on tenant and content only.

**IngestionRegistry.** `documentStatus[v]`, `job[v]` and `keys` are the document columns,
the job columns and the key table. Each operator is one transaction. Time is relative:
`age` is the time since `last_attempt_at`, counted up to `StaleAfter`, and `wait` the time
to `next_attempt_at`; the code uses the two timestamps only in those two comparisons.
`Tick` ages the rows and the copies of rows that tasks hold, so that a snapshot written
back restores the timestamp it was read with. `claim_job` has its three answers: a claim
(`ClaimJob`), `None` (`ClaimRefused`), and the row unchanged because it is done or out of
attempts (`ReturnedUnclaimed`).

**ChunkStore.** `points[v][c]` is absent, inactive or active. Vectors and payload text
are left out; the verification compares counts and payloads, which are right exactly
when all expected points are there and inactive.

**IngestionPipeline.** A runner is a poll loop (`Pollers`) or a slot for a background task (`Tasks`).
Its state is `run[r]`: where it is, the version, the snapshot, and the locals `staged`,
`published` and whether the error is one that is not retried. Every transaction and every Qdrant request is an
action, so anything may happen between two of them:

| Code | Actions |
|---|---|
| `POST /documents`, `accept` | `Upload` |
| poll loop, `list_recoverable_jobs` | `Poll` |
| `claim_job` in `run_job` | `Claim`, `SkipJob`, `RunUnclaimed` |
| `set_document_status(INDEXING)` | `MarkIndexing` |
| `_set_progress(RUNNING)` | `Report` |
| `_finish_stage` | `FinishStage`, `FinishFailed` |
| validate .. embed_sparse | `Prepare`, `PrepareFails` |
| stage, verify, activate | `Stage`, `Verify`, `Publish`, `Switch`, `Clean` and their `...Fails` |
| `SUCCEEDED` | `Succeed` |
| `_fail` | `Discard`, `DiscardFails`, `MarkFailed`, `ReportFailed`, `ReportRetry` |
| the process dies, or an error leaves `run_job` | `Crash`, `DiscardFails` |
| `DELETE /documents/{id}` | `RequestDelete`, `RemoveVectors`, `RemoveVectorsFails`, `CommitDelete`, `RefuseDelete` |

**ServedVersion** is the abstract specification. `IngestionProperties` instantiates it
with `served[d]` := the versions the registry calls active and `whole` := the versions
Qdrant holds in full and published.

**Retrieval** adds searches to the pipeline. `search[s]` holds the locals of
`RetrievalService.search`: the scope captured from `active_version_ids` (`BeginSearch`) and what the dense
and the sparse request found (`SearchDense`, `SearchSparse`), which the code sends one after the
other; `SearchFails` is any of them raising, which the query service answers with 503. A pipeline
step (`IngestionStep`) may happen between any two. `quiet` is a history variable: it is true as
long as no document has changed its status since the scope was captured. A branch finds the set of
points its filter lets through; the limit, the scores, the fusion and the reranker select from these
sets and read no shared state. `document_ids` is the set `D`. The tenant and access tags of a
point never change and are left out. The model is of the service with a registry and a generic section-marker profile: a
fixed corpus has no scope and no ingestion, and a named profile adds a constant filter on the
fingerprint.

**RankFusion, AnswerGate, QueryPipeline.** `QueryService.execute` shares nothing between requests, so one
request is modelled, and the next after it. `chunks[s]` is what a source states (facts and qualifiers as
members of small sets), `run` the locals of the request, `events` the stages it has traced. The search
scores every source in each branch arbitrarily; what happens to the scores is the code's arithmetic.

| Code | Actions |
|---|---|
| the request | `Submit` |
| `prompt_safety` blocks | `RefuseQuestion` |
| `RetrievalService.search`, or its failure | `Search` |
| evidence filter, `assess_answerability` | `SelectEvidence` |
| `pack_prompt` | `PackPrompt` |
| the answer generator, or its failure | `Generate`, `GenerationFails` |
| the response | `Respond` |

1/(rrf_k + rank) is kept exact by multiplying with `Unit`. The rules of the safety policies and of the
qualifiers are text matching: a chunk is unsafe or not, a qualifier is stated or not.

**GoldDiagnosis** is the report on a finished run as operators of its state: `Journey` (where each trusted chunk
was seen), `StageText` (which facts each stage had), then the tests of `_attribute` as one list whose first
true test names the cause. `RootCause` is for curated cases, `TrustedCause` for evidence picked in the demo.

**PromptPacking** shares the budget character by character, as `_fair_allocations` does in rounds. **ModelService**: a reader
of the drawer or of the query takes two awaits (runtime, then models), between which the runtime changes; pulls are background tasks. **Vocabulary**: `file`,
the worker's `memory`, the API's copy, and threads that fit between any two steps of each other; `overlapped` is a history variable.

**LiveTraces.** The event loop interleaves coroutines at awaits only, so a step is the code between two.
`order` lists the held runs by last access; the TTL expires a prefix, `max_runs` evicts the head.
`newer` is history: the runs accessed since. **Evaluations**: registry rows, artifact files, and the task of
each run with its four steps. **DocumentPages**: one client walks the cursors while documents are uploaded, deleted and listed.
**RecoveryQueue**: `keyOrder` is the order by `COALESCE(next_attempt_at, created_at)`; the clock is abstracted to the changes of that
order. **WorkerHealth** counts ticks of the heartbeat interval. **Chunking** keeps text as sequences of
`Characters`: a letter, a full stop, two kinds of white space, and the characters markers are made of. A list the code builds while it walks a text
is `InOrder` of the set of its positions; a loop with state of its own is a recursive function of its rounds: `start` in `TextSpans`, `after` in `ParentSpans`,
whose round is `AddPage`; `Starts` says where the loop over the sentences begins its chunks. A document without any chunk is refused, and markers
may share a position, which makes a section empty.

**RegistryAdapters** runs both adapters on the same calls, each with its own data (`sqlite`: rows, keys, events;
`inmemory`: identities, jobs, stage histories), and compares every answer. **RegistryMigration** keeps what is committed (`database`), what the writing
transaction sees (`writer`) and where each process is. The `sqlite3` module opens a transaction at the first `INSERT`, so the columns
and the new table are committed one by one, and copy, drop and rename together. **CollectionSchema** keeps what Qdrant has
(`collection`) and for each caller what it was told (`seen`); a request can fail before or after it took effect.

### Abstractions

* In `RecoveryQueue` a job's attempt is one step; in `RegistryAdapters` the clock is left out: a lease or a delay is over when a run starts.
* Metrics, durations, titles, excerpts and host profiles are left out everywhere.
* `MCQuery` and `MCServices` put together components that share no state, and each behaviour follows one of them
  (`focus`). Where they touch in the code (a query records a probe; the demo starts a query) the touching call is an
  action of both modules.

* The seven stages before staging touch neither store except to report progress; they are one
  `Prepare`. Stage events, progress numbers and error texts are left out.
* A stage event is merged with the read of the row that follows it.
* The reads of `verify_version` are one step.
* The order and `LIMIT` of the recovery query are left out: any due job may be next. A property
  that holds for every choice holds for the code's.
* `active_version_ids` breaks ties by `created_at`; `AtMostOneActive` says there are none.
* Requests that change nothing (404, 409 for a key conflict, reads) are not actions.
* A crash stops one runner; a restart is its next poll. `Crash` also stands for an
  exception that leaves `run_job`, which the loop only logs.
* With `Tasks # {}` the number of slots bounds how many uploads' tasks are pending at once.
* The branch for `prepared is None` after staging cannot be reached and is left out.

## 3. Runs

In the runs of the pipeline versions are versions of one document, because documents share nothing but the poll loop.

| Run | Question | Bounds | Result |
|---|---|---|---|
| `compose_delete` | Does the compose deployment keep rows, jobs and points consistent, with deletions? | 2 versions, 2 chunks, 3 attempts, lease 2, back-off up to 2, 2 crashes, one delete request, every call may fail | holds |
| `compose_live` | Does it implement `ServedVersion`, and are jobs worked off? | as above with lease and back-off 1, no deletions, fairness, no symmetry | holds |
| `no_crash` | Without a crash, does a failed job leave the old version alone and does every job end? | 2 versions, 3 attempts, failures up to the switch | holds |
| `embedded` | What survives overlapping tasks? | 2 task slots, 2 versions, 1 key, 2 attempts | holds |
| `search` | Does a search beside the worker mix versions, or see what is staged and cleaned up? | 2 versions, 2 chunks, 2 attempts, 1 crash, one search at a time, repeated without limit; stage, publish, switch, clean and registry calls may fail; no deletions | holds |
| `query` | Is a query answered, refused and diagnosed by the right evidence? | 2 sources, 4 kinds of chunk, 3 modes, scores 0..2, top_k and window 1 or 2, rerank limit 1, 5 gold cases; packing: 3 chunks, texts of 0, 2, 5 characters, budgets 0, 4, 9; 2 models, 1 pull; 2 terms, 2 threads, 2 starts | holds |
| `services` | Do the components around them keep what they promise? | 3 live runs with room for 2; 2 evaluations; 3 documents, 4 uploads, pages of 1 and 2; 3 jobs, 2 pollers, 2 attempts, limit 1; heartbeat stale after 4 of at most 6 ticks; uploads of 1 to 3 short pages; 2 versions, 1 key, 2 overlapping runs, 2 attempts; 2 processes, 2 new columns, 1 old and 1 later row; 2 callers, 3 indexes | holds |
| `blamed_prompt` | The prompt is blamed only if one was built | as `query` | violated |
| `stuck_trace` | A started live run is published or dropped | 2 live runs with room for 2, fairness | violated |
| `failed_job_replaces` | ADR-003: a failed job does not change the active version | 1 crash | violated |
| `lost_job` | `run_job` persists a terminal snapshot | 1 version, verify and discard may fail | violated |
| `refused_delete` | A refused delete leaves the document alone | 2 versions, no failures | violated |

What they show:

* `compose_delete`: `ActiveIsWhole` (an active version is searchable in full or,
  under a deletion, not at all), `StatusCoherent` (row and version agree between runs),
  `BusyWhileWorking` (the busy check of a delete sees every running task),
  `SucceededIsFinal` and `AttemptsNeverLost` (the whole-row writes of `update_job` lose nothing).
* `compose_live`: `ActiveServable`, the refinement `ServesWholeVersions`, and
  `JobsAreWorkedOff` (each accepted job succeeds or uses its attempts).
* `no_crash`: `FailedJobKeepsActive`, `JobsTerminate`. The assumption is needed: with one crash or one
  failing discard both are false, which the next runs show.
* `embedded`: `TypeOK`; `AtMostOneActive` and `KeysPinned` do not depend on there being one worker. The type
  invariant holds the attempts within their bound although an exhausted job can be run unclaimed.
  The rest does depend on it: the lease is not renewed, and two runs of one
  job overwrite each other's snapshots.
* `search`: `OneVersionPerDocument` holds although a publication and the switch may fall between the two
  requests, because both use one captured scope. `QuietSearchIsComplete` says that a search which no
  status change crosses sees all of the served versions and nothing of what is staged, published
  early or left behind by a failed cleanup. A search that a switch does cross may find less:
  the cleanup hides the points of its scope. The repository promises nothing about that.
* `query`: `FusionKeepsTheBetter` (what no branch ranks lower stays before), `GateSeesTheBestScore`
  (hybrid order is not score order), `AskedOnlyOverSafeEvidence`, `PassMeansGrounded`, `BlamedStageLostTheFact`,
  `PromptFitsBudget` and `FairShare`, `FailedProbeIsNews`, `DrawerIsTruthful`, `FeaturesKeepTheirTerm`.
  The last two are conditional on what the code does not survive: a pull whose stream reports an error
  and then ends counts as completed, and two overlapping fits can give one index to two terms.
  `BlamedStageLostTheFact` is about answered runs with something in each branch; the diagnoses it leaves out are listed under 4.
* `services`: `DroppedOnlyWhenOld`, `PublishedStays`, `EveryComparedRunEnds`; `SuccessHasItsArtifact`, `EveryEvaluationEnds`;
  `WalkMissesNothing` (the newest come first, so an upload repeats a document but hides none);
  `HiddenOnlyByLeases` (two leased rows do hide a ready job from a poll with limit 1, rows that back off never),
  `EveryJobIsTried`; `UpMeansRecentlyAlive`, `LiveWorkerIsUp`; `EveryWordIsIndexed` (from the first marker on),
  `ChunkCitesItsPages`; `AdaptersAgree` (except the stages of a job that two runs
  share); `RowsSurviveMigration` (no row is lost, but a process that ends right after creating
  `ingestions_v2` leaves a database that no process opens again); `ReturnedMeansReady` (of two first callers one may be refused, and a
  collection left without its indexes is completed by the next call).

### Why the bounds are enough

Two versions are what every property speaks of: the one being ingested and the
sibling it retires. Two chunks distinguish whole, part and none. Three attempts are the code's own
`max_attempts`; a first run, a retry and the last one behave differently.
Lease and back-off of 2 give each
a value strictly inside its range. Two crashes let a re-run crash as well. One delete
request may be repeated without limit. Properties of overlapping tasks need two of them.
`FailingCalls` names the calls that may fail in a run; it is everything in the two compose runs.
Bounds in guards: `MaxCrashes` (crashes), `StaleAfter` and
`MaxBackoff` (saturating time), the slots in `Tasks`; attempts are bounded by the code itself.
Symmetry is used in the runs that check safety only.

In `query` two sources are what a preference and a tie need, a window and a `top_k` of one or two cut before and after the
reranker, three scores lie below, at and above every threshold; three chunks of
prompt make a share uneven. In `services` one more live run than fit forces an eviction; three jobs let two leased ones hide the third
(`2 * Limit`); four uploads of three documents give a repeat; two attempts are a first and a last one; a heartbeat of up to 6 ticks passes the threshold.
Bounds in guards there: `MaxUploads`, `MaxStarts`, `MaxAge` (saturating age), the runs, jobs, pulls and rows of the constants; behind
an overlap of two fits no further text is followed.

The runs of the pipeline and `search` check for deadlock: the clock always ticks. `query`, `services` and
`stuck_trace` say `CHECK_DEADLOCK FALSE`: prompts come to be packed, runs, pulls and evaluations are done, all rows are accepted,
a torn vocabulary or a half-made migration starts no process; these components really stop.

### Fairness

`FairSpec` assumes weak fairness of the steps of each task (an asyncio
task or a loop that has a job goes on with it, or crashes), of the poll of each poll
loop (the loop never exits: it sleeps and polls again, whatever is raised) and
of the clock. No strong fairness is assumed, nothing makes a failing call
succeed, and nobody has to upload, delete or crash. Background tasks of the API are not
polled, so a task lost in a crash stays lost until somebody uploads again.

`TracesFairness`, `EvaluationsFairness`: weak fairness of the next step of each background task, which the event loop
runs when its await returns; clients, polls and diagnoses owe nothing. A query or a comparison that raises has returned.
`QueueFairness`: weak fairness of each worker's steps and of the clock that ends leases and back-offs; a worker may die in every attempt.
The other components are checked for safety only.

### Mutants

For each property of a passing run `PROJECT.json` names a variant of a modelled definition,
a bug someone could write there, under which TLC finds that property violated. They stand before the
definition they vary and are marked as mutants.

## 4. Findings

1. **A failed job can take the active version away** (`failed_job_replaces`, against
   `docs/adr/ADR-003-ingestion-version-activation.md:14`). The process dies between the switch
   and `SUCCEEDED`; the re-run sets the active version back to indexing; it fails; the version
   is marked failed, and the one it had replaced was already retired.
2. **A job can stay running for ever** (`lost_job`, against the docstring of `run_job`).
   `discard_version` is called in the exception handler without a guard. When it raises on the last
   attempt, the row stays running with all attempts used, and no poll lists it again. A crash in the last attempt ends the same way.
3. **A refused delete has deleted the points** (`refused_delete`, against
   `document_service.py:70` and `docs/architecture.md:124`). The points go before the registry's busy check.
4. **A prompt that was never built is blamed** (`blamed_prompt`, against `gold_diagnostic.py:1636` and
   `tests/unit/test_gold_diagnostic.py:439`). In a retrieval-only run nothing is packed; for a case with required facts the test
   for facts missing from the prompt comes before the one that says the run was retrieval-only.
5. **A live run can stay running for ever** (`stuck_trace`, against the docstrings of `finish` and `fail`). `_run_query` compares with the expected
   answer outside any `try`; when the comparison raises, neither is called.

Met while modelling, against no promise of the repository, so no run is about them: refused or failed
runs of a case with facts are blamed for `EVIDENCE_SELECTION_LOSS` (`docs/known_issues.md` knows of it); an empty branch of a hybrid run is
given the text of the window, which turns a retrieval miss into a fusion loss; a fact that is in the section and not in the chunk
is a retrieval miss although the prompt states it; `selected_as_evidence` of the debug candidates is from before the evidence filter;
without dense scores the gate compares fused scores with thresholds for dense ones; `check_answer` passes a run
without any answer when the expected answer states no fact (`answer_check.py:171`); a quoted qualifier is found inside a longer
word (`answerability.py:106`); the resolver of gold sections reads only the first 100 documents (`gold_diagnostic.py:115`); a run is
created before the wiring of the gold service is looked at, and stays pending when it is missing (`demo.py:292`); `ensure_collection` accepts a collection with
another distance or with indexes of other types (`schema.py:102`); a job that succeeds keeps the `failed_stage` of an earlier attempt (`sqlite_registry.py:564`).

## 5. Proofs

`IngestionProofs` proves, for every set of versions, documents, chunks, keys, pollers, tasks and
deletions and every bound, from `IdentityAssumption`, `RegistryAssumption` and
`PipelineAssumption`:

* `TypeCorrect`: `Spec => []TypeOK`. `TypeOK` is inductive as it stands: it says that a busy
  task has a version, which every step needs, and holds attempts and waits in range.
* `OneActiveVersion`: `Spec => []AtMostOneActive`, inductive together with `TypeOK`. Only
  `ActivateDocumentVersion` makes a version active, and it retires its active siblings in
  the same transaction. No assumption on the number of tasks.
* `KeysStayPinned`: `Spec => KeysPinned`. A row is never removed (`RowsStay`) and only uploads bind
  keys, but `update_job` writes whole snapshots, and the last write of `_fail` leaves the status to the snapshot.
  `KeysInv` therefore says that every bound key names a stored row, and that a task at that write holds
  a snapshot whose status is failed.

Under `SoleWorker` (at most one runner, no deletions: Docker Compose between deletions):

* `ActiveIsServable`: `Spec => []ActiveServable`. The invariant is not inductive: when the
  registry switches, that every point is published follows from where the task is. `RunInv(r)` states
  this for each place in the run: a version is marked published only once the run is past publishing; at the switch it is, and
  all its points are active; between marking it indexing and the switch the registry does not call it active;
  from the end of the verification to the publication its points are as verified; at the
  cleanup no sibling is active. `ServingInv` is `ActiveServable` with `RunInv` of every task.
* `Refinement`: `Spec => ServesWholeVersions`. Each step maps to a step of `ServedVersion` or a stutter:
  `Switch` to `Serve`, `MarkIndexing` of an active version to `Withdraw`, the requests to Qdrant to
  `Reindex`, the rest to stuttering. `ServingInv` and `AtMostOneActive` supply the guards.

The assumption `SoleWorker` is not a convenience: with a deletion `ActiveServable` is false between
removing points and marking rows (`ActiveIsWhole` is what remains), and with two tasks
one may re-stage the version the other has published.

`IngestionJobProofs` goes on with the rows. Here the assumption is `SolePoller`: one worker process, no embedded worker, and any number of
deletions, crashes and failing calls, which is Docker Compose as it runs.

* `JobsAgreeWithVersions`: `Spec => []StatusCoherent`; `WorkIsVisible`: `Spec => []BusyWhileWorking`. Neither is inductive. `JobInv` says of
  every row nobody works on that it agrees with its version (`RestingCoherent`), of a task between claim and report that its snapshot counts the attempts
  of its row and the row is running (`SnapInv`), and what the task has made of the version by the time it reports (`VersionInv`).
  `ClaimSucceeds` is the heart of it: what the only poll loop was offered is still there when it claims.
* `AttemptsOnlyGrow`, `SuccessIsFinal`: `Spec => AttemptsNeverLost`, `Spec => SucceededIsFinal`, from `JobInv`: a snapshot of
  an older attempt would take both back when it is written.
* `ActiveNeverPartial`, for one task of either kind: `Spec => []ActiveIsWhole`. `WholeInv` is `RunInv` where a deletion may have
  removed every point at any time.
* `FailureKeepsActive`: `Spec => []FailedJobKeepsActive` under `UndisturbedWorker`, which also excludes deletions, crashes and failures of
  the registry. `SuccessorInv` says that where a job of a document has succeeded, an active version exists whose job has succeeded or is about to.

These assumptions are needed too. `run_job` of a background task in the API goes on with a row it did not claim (`RunUnclaimed`), so that two tasks write
back each other's rows: that breaks `StatusCoherent`, `BusyWhileWorking` and both action properties. A crash between the switch and the report,
or a registry call that fails there, takes the active version away: that is finding 1, and why `FailureKeepsActive` excludes them.

`IngestionProofs` also speaks of the searches (`Retrieval` extends the pipeline): searches only read, so `SearchSpec => Spec` (`PipelineBeside`), and
every theorem about `Spec` holds beside searches.

* `SearchTypeCorrect`: `SearchSpec => []SearchTypeOK`.
* `SearchesDoNotMix`: `SearchSpec => []OneVersionPerDocument`, for any number of searches and tasks. `ScopeInv`
  says that a scope has one version of each document, which `OneActiveVersion` gives when it is
  captured, and that what was found lies in the scope.
* `QuietSearches`, under `SoleWorker`: `SearchSpec => []QuietSearchIsComplete`. `QuietInv` says that the versions in the scope of
  a quiet search are still active, so that `ActiveIsServable` applies at each request, and that
  what a branch has found is the whole scope.

`StorageProofs`, for any processes, columns and rows, from `MigrationAssumption` (a process is not called `none`, the columns are a sequence):

* `NoRowIsLost`: `MigrationSpec => []RowsSurviveMigration`. The invariant speaks of what is committed, while the copy is made in a
  transaction; `MigrationInv` adds what the writer sees at each of its places: until the renaming the copy has all
  accepted rows, after it the table has them, and no other process writes. `MigrationInductive` shows it inductive, with a lemma for each action.

For any callers and payload indexes, from `SchemaAssumption` (the indexes are a sequence):

* `ReadyForCallers`: `SchemaSpec => []ReturnedMeansReady`. `SchemaInv` says of each call that what it was told stays true and that it
  leaves no index behind; `Grows` that no step takes anything from a collection, so that a step of one caller
  cannot disturb another (`OthersKeep`).

For any numbers of versions, keys, attempts and overlapping runs, from `AdaptersAssumption`:

* `SameService`: `AdaptersSpec => []AdaptersAgree`. What readers are told agrees because what is stored does (`Matched`: rows, documents, keys, events), and
  that stays so only if a run has read the same row from both before it writes (`RunReads`). Stages in memory are those of the events except for
  jobs at which two runs worked at once; `RunsApart` keeps account of these.

`ServicesProofs`:

* `UpIsRecent`, `RunningIsUp`: `HealthSpec => []UpMeansRecentlyAlive`, `[]LiveWorkerIsUp`. `HealthInv` bounds the age of the heartbeat from both
  sides: at least the time since the worker died, at most the writes that failed and the ticks of this round.
* `SuccessIsBacked`: `EvaluationsSpec => []SuccessHasItsArtifact`. `FilesMatch` follows the file from the moment it is written to the row.
* `PublishedIsFinal`, `DropsAreOld`: `TracesSpec => PublishedStays`, `[]DroppedOnlyWhenOld`. `TracesInv` says that publishing is the last thing a task does
  (`PublishedLast`), and that `order` lists each held run once with those accessed after it behind it (`Listing`), so that the head of a full
  list was overtaken by `MaxRuns` others. `DropsAreOld` assumes at least `MaxRuns` run ids; the code draws them from `uuid4`.
* `NoDocumentIsMissed`: `PagesSpec => []WalkMissesNothing`. `ByAge` only grows at its end (`AgeAfterUpload`), so that a document keeps its distance
  from the end of the list and an upload moves it away from the cursor's past, never into it: `StillAhead` says that what the
  walk has yet to see lies at or behind its offset.
* `ReadyIsOffered`: `QueueSpec => []HiddenOnlyByLeases`, for any jobs, workers, attempts and limit. `QueueInv` says that `keyOrder` holds each accepted row once, ordered
  by its key, and that ids are accepted in order. Of a ready job that is not offered, every row before it in the selection is not ready and, because
  keys order rows that back off last, leased.

`LoopProofs` gives what the loops of `pack_prompt` and of the evidence filter rest on. A loop of the code is a recursive function in the models, and what it computes cannot be
had by induction over data. But the natural numbers are well founded, and a round at which an invariant of the loop first fails is a least
number (`NatLeast`): `EveryRound` says that what holds at 0 and is kept by each round holds at each. `LoopRuns` says that a recursive
function exists when the step is one (without that, nothing can be said of its value), `LoopIsUnique` that it is the only one.

`ModelProofs`:

* `FailureIsNewest`, `DrawerTellsTheTruth`: `ModelsSpec => []FailedProbeIsNews`, `[]DrawerIsTruthful`. `ModelsInv` adds that a list somebody has read was
  true of the runtime at one of its two reads.
* `FeaturesStay`: `VocabularySpec => []FeaturesKeepTheirTerm`. The property is about what is indexed and three copies of the vocabulary;
  `Numbered` says that each is a numbering without gaps and that they grow from each other, and of the one thread at work what it has left to number (`Fits`).
  Two overlapping fits break that, and the property excludes them.
* `SharesAreFair`, `PromptFits`: `PackingSpec => []FairShare`, `[]PromptFitsBudget`, from `PackingAssumption`, for any number of chunks, any lengths and any non-empty set of budgets. `RoundInv` says
  that within a round each chunk that still wants text has the same number of characters as the others, or one more if it has had its turn, and that a share above one
  is there for all whose turn is to come; `BudgetInv` that what the chunks were given and what remains are within the budget, and what they took when the sections share the rest.

`ChunkingProofs`, for any texts, markers and sizes, from `ChunkingAssumption`: the characters include the white ones, a marker is not empty and does
not begin with white space (so in `infrastructure/parsing/section_markers.py:21-75`), sizes are positive and the overlap is smaller than the size (as
`settings.py:58` and `:93` validate). The functions that cut a text come one after another, and so do the lemmas, each saying of what a function returns only what the next one needs:

* lists: `InOrder` lists a finite set of numbers, each once (`InOrderLists`), and `FlattenSeq` has each part at its place (`FlatList`);
* pages: normalized text has white space only inside, one at a time (`NormalizedIsClean`); the boundaries are where the joined text has the pages
  (`PagesArePlaced`), a position is on one page or between two (`PageOrBreak`, `PagesApart`), and the joined text is as clean as its pages (`JoinedIsTidy`);
* sections without markers: a window ends with a word and the next one starts with one (`WindowIsPiece`, `AfterIsNext`). `Cuts` is the invariant of
  the loops: pieces that begin and end with a word, of `max` at most, in order, with nothing but white space left out between them. The start moves on in each
  round (`StartLoop`), so the loop ends (`TextSpansCut`); `PageIsSectioned` is one round of joining pages, and `ParentSpansCut` all of them by `EveryRound`;
* sections with markers: from one to the next, none but the ones behind an equal position empty (`MarkedAreSections`);
* chunks: sentences cover their section but for the white space behind a full stop (`SentencesCut`), the chunks leave no sentence out (`StartsCover`), and the pages a
  span overlaps are those from the page of its first to that of its last character, because both ends are on a page (`PagesOfSpan`); `ChunksOfSection` and
  `DocumentIsChunked` put this together.

`ChunkingInv` then says what each part of the state was computed from, and is inductive:

* `DocumentIsCutFromItsPages`: `ChunkingSpec => []ChunkingInv`. That AUTO fails no document is part of it: the markers it chose were found in the text it
  searched, which is the text that is cut, and the last marker begins with a word, so that there is a chunk (`SectionizeKeepsInv`, `ChunkKeepsInv`).
* `WordsAreIndexed`, `CitedPagesAreRight`: `ChunkingSpec => []EveryWordIsIndexed`, `[]ChunkCitesItsPages`, from `ChunkingInv` and the lemmas.

`QueryProofs`, for any sources, chunks, settings, scores and policies, from `RankFusionAssumption` and `QueryAssumption` (limits and scores are numbers;
what a chunk states, its section states, because a chunk is made of sentences of its section, `domain/chunks.py:165-199`):

* `TheBetterIsKept`: `QuerySpec => []FusionKeepsTheBetter`. A sorted list puts each source at the place that counts those better than it. That
  these places are `1..n`, each taken once, is what makes the list exist and hold everybody (`PlacesFollowTheOrder` and the lemmas that follow it); a source that is ranked
  no lower in each branch and higher in one has the higher sum of reciprocals, because a rank divides `Unit` without rest.
* `BestScoreIsJudged`: `QuerySpec => []GateSeesTheBestScore`, the same lemmas about the scores of the candidates.
* `OnlySafeEvidenceIsAsked`: `QuerySpec => []AskedOnlyOverSafeEvidence`. `QueryInv` says at each place of the run which gates have let it
  pass; `SafeOnly` is the loop that drops what is unsafe.
* `PassIsGrounded`, `BlameIsDeserved`: `QuerySpec => []PassMeansGrounded`, `[]BlamedStageLostTheFact`, for any cases, picked chunks and expected answers.
  `TraceInv` says what a run has traced at each place (a search its branches, a prompt only if there was one), that no stage hands on what it did not get (`Flows`), and that an
  answered run shows its candidates. By that the texts of the stages are those the trace holds (`TextsAreTraced`), and not the substitutes `_stage_texts` takes for
  an empty one. A cause is that of the first test that holds (`FirstCauseIsNamed`), so all tests before it failed: `LossComesFirst` splits the list into losses, outcome
  and answer, `FactsAreLost` reads off each cause of a loss what was kept until then.

Every other invariant and action property of a run that passes is a theorem. Checked by TLC only:

* `JobsAreWorkedOff`, `JobsTerminate` and the liveness properties of `services` (`EveryComparedRunEnds`, `EveryEvaluationEnds`, `EveryJobIsTried`): the prover has no fairness and no ENABLED.

## 6. Not modelled

Everything `PROJECT.json` marks as partly modelled leaves out text and numbers as such: PDF extraction, tokenization and BM25 weights, embedding, reranking
and generation models, the regular expressions of the safety policies and qualifiers, semantic similarity, the
host profile. Left out as a whole: metrics and audit logs, settings and wiring (a deployment is a choice of constants), HTTP validation of uploads,
the picker's browsing and the presentation of diagnoses, and everything outside the service: scripts, demo
assets, offline evaluation and its reports, which run once, alone, and keep no state.
Tenants and access tags are constant labels of rows and points: one tenant is modelled.

## 7. Plan

Everything above is modelled, and what the prover can express of it is proved. What would come next is more of the code: the limits of the
search branches and their access tags, the checks of an uploaded file, and the batch runs of the diagnosis.
