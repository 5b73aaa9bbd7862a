----------------------------- MODULE ModelProofs -----------------------------
(***************************************************************************)
(* What a query uses: the models, the numbering of the features of its     *)
(* sparse vectors and the packing of its prompt.  The model drawer shows   *)
(* what is so; a feature keeps its term; the prompt fits its budget and    *)
(* shares it fairly, for any token counts.                                 *)
(***************************************************************************)
EXTENDS ModelService, Vocabulary, PromptPacking, LoopProofs, FiniteSetTheorems,
        SequenceTheorems

-----------------------------------------------------------------------------
(* THE MODELS.                                                             *)

Probed   == {"installed_unverified", "ready", "last_probe_failed"}
Runtime  == [up : BOOLEAN, installed : SUBSET Catalog]
PullRow  == [status : {"none", "queued", "pulling", "completed", "failed"},
             model : Catalog, errorLine : BOOLEAN, installed : BOOLEAN]
Reader   == [pc : {"idle", "checked", "listed", "asking"},
             purpose : {"none", "profile", "pull", "query", "default"}, model : Catalog,
             available : BOOLEAN, listed : SUBSET Catalog, was : SUBSET Catalog]

ModelsType ==
    /\ runtime \in Runtime
    /\ probes \in [Catalog -> Probed]
    /\ pulls \in [Pulls -> PullRow]
    /\ reader \in Reader
    /\ lastEnded \in [Catalog -> {"none", "answered", "llm_failed"}]

(* What a reader listed was installed at one of its two reads.             *)
ListedWas == reader.listed \subseteq reader.was
CompletedInstalled ==
    \A p \in Pulls :
        pulls[p].status = "completed" /\ ~pulls[p].errorLine => pulls[p].installed

ModelsInv == ModelsType /\ FailedProbeIsNews /\ ListedWas /\ CompletedInstalled

LEMMA IdleReader ==
  NoReader \in Reader /\ NoReader.listed = {} /\ NoReader.pc = "idle"
  BY ModelServiceAssumption DEF NoReader, Reader

(* At the start nothing was probed, pulled or read.                        *)
LEMMA ModelsInitInv == ModelsInit => ModelsInv
  <1> SUFFICES ASSUME ModelsInit PROVE ModelsInv
    OBVIOUS
  <1>1. runtime \in Runtime /\ probes \in [Catalog -> Probed]
    BY ModelServiceAssumption DEF ModelsInit, Runtime, Probed
  <1>2. pulls \in [Pulls -> PullRow]
    BY ModelServiceAssumption DEF ModelsInit, PullRow, NoPull
  <1>3. reader \in Reader /\ ListedWas
    BY IdleReader DEF ModelsInit, ListedWas
  <1>4. lastEnded \in [Catalog -> {"none", "answered", "llm_failed"}]
    BY DEF ModelsInit
  <1>5. FailedProbeIsNews /\ CompletedInstalled
    BY DEF ModelsInit, FailedProbeIsNews, CompletedInstalled, NoPull
  <1> QED BY <1>1, <1>2, <1>3, <1>4, <1>5 DEF ModelsInv, ModelsType

(* The steps of a reader that write nothing else.                          *)
LEMMA BeginReadInv ==
  ASSUME ModelsInv, NEW purpose \in {"profile", "pull", "query"}, NEW m \in Catalog,
         BeginRead(purpose, m)
  PROVE  ModelsInv'
  <1>1. /\ reader' = [pc |-> "checked", purpose |-> purpose, model |-> m,
                      available |-> runtime.up, listed |-> {}, was |-> runtime.installed]
        /\ UNCHANGED <<runtime, probes, pulls, lastEnded>>
    BY DEF BeginRead
  <1>2. reader' \in Reader /\ ListedWas'
    BY <1>1 DEF ModelsInv, ModelsType, Runtime, Reader, ListedWas
  <1> QED BY <1>1, <1>2 DEF ModelsInv, ModelsType, FailedProbeIsNews, CompletedInstalled

LEMMA ListModelsInv == ASSUME ModelsInv, ListModels PROVE ModelsInv'
  <1>0. reader \in Reader /\ runtime \in Runtime
    BY DEF ModelsInv, ModelsType
  <1>1. UNCHANGED <<runtime, probes, pulls, lastEnded>>
    BY DEF ListModels
  <1>2. reader' = [pc |-> "listed", purpose |-> reader.purpose, model |-> reader.model,
                   available |-> reader.available /\ runtime.up,
                   listed |-> IF reader.available /\ runtime.up THEN runtime.installed ELSE {},
                   was |-> reader.was \cup runtime.installed]
    BY <1>0 DEF ListModels, Reader
  <1>3. reader' \in Reader
    BY <1>0, <1>2 DEF Reader, Runtime
  <1>4. ListedWas'
    BY <1>2 DEF ListedWas
  <1> QED BY <1>1, <1>3, <1>4 DEF ModelsInv, ModelsType, FailedProbeIsNews, CompletedInstalled

LEMMA ReaderEndsInv ==
  ASSUME ModelsInv, reader' = NoReader, UNCHANGED <<runtime, probes, lastEnded>>,
         pulls' \in [Pulls -> PullRow], CompletedInstalled'
  PROVE  ModelsInv'
  BY IdleReader DEF ModelsInv, ModelsType, FailedProbeIsNews, ListedWas

LEMMA ModelValidatedInv == ASSUME ModelsInv, ModelValidated PROVE ModelsInv'
  <1>0. reader \in Reader /\ UNCHANGED <<runtime, probes, pulls, lastEnded>>
    BY DEF ModelsInv, ModelsType, ModelValidated
  <1>1. CASE reader' = NoReader
    BY <1>0, <1>1, ReaderEndsInv DEF ModelsInv, ModelsType, CompletedInstalled
  <1>2. CASE reader' = [reader EXCEPT !.pc = "asking"]
    <2>1. reader' \in Reader /\ ListedWas'
      BY <1>0, <1>2 DEF Reader, ModelsInv, ListedWas
    <2> QED BY <1>0, <2>1 DEF ModelsInv, ModelsType, FailedProbeIsNews, CompletedInstalled
  <1> QED BY <1>1, <1>2 DEF ModelValidated

LEMMA AskDefaultInv == ASSUME ModelsInv, AskDefault PROVE ModelsInv'
  <1>1. /\ reader' = [[NoReader EXCEPT !.pc = "asking"] EXCEPT !.purpose = "default"]
        /\ UNCHANGED <<runtime, probes, pulls, lastEnded>>
    BY DEF AskDefault
  <1>2. reader' = [pc |-> "asking", purpose |-> "default", model |-> GenerationModel,
                   available |-> FALSE, listed |-> {}, was |-> {}]
    BY <1>1 DEF NoReader
  <1>3. reader' \in Reader /\ ListedWas'
    BY <1>2, ModelServiceAssumption DEF Reader, ListedWas
  <1> QED BY <1>1, <1>3 DEF ModelsInv, ModelsType, FailedProbeIsNews, CompletedInstalled

(* The probe of a generation and how it ended are written together.        *)
LEMMA AskEndsInv ==
  ASSUME ModelsInv, NEW outcome \in {"answered", "refused", "llm_failed"}, AskEnds(outcome)
  PROVE  ModelsInv'
  <1>0. /\ reader \in Reader /\ probes \in [Catalog -> Probed]
        /\ lastEnded \in [Catalog -> {"none", "answered", "llm_failed"}]
    BY DEF ModelsInv, ModelsType
  <1>1. /\ probes' = [probes EXCEPT ![reader.model] =
                         ProbeAfter(@, outcome, reader.purpose = "query")]
        /\ lastEnded' = IF outcome = "refused" THEN lastEnded
                        ELSE [lastEnded EXCEPT ![reader.model] = outcome]
        /\ reader' = NoReader /\ UNCHANGED <<runtime, pulls>>
    BY DEF AskEnds
  <1>2. PICK m \in Catalog : m = reader.model
    BY <1>0 DEF Reader
  <1>3. /\ probes'[m] = ProbeAfter(probes[m], outcome, reader.purpose = "query")
        /\ \A x \in Catalog \ {m} : probes'[x] = probes[x] /\ lastEnded'[x] = lastEnded[x]
        /\ lastEnded'[m] = IF outcome = "refused" THEN lastEnded[m] ELSE outcome
    BY <1>0, <1>1, <1>2
  <1>4. ProbeAfter(probes[m], outcome, reader.purpose = "query") =
           IF outcome = "answered" THEN "ready"
           ELSE IF outcome = "llm_failed" /\ reader.purpose = "query" THEN "last_probe_failed"
           ELSE probes[m]
    BY DEF ProbeAfter
  <1>5. probes' \in [Catalog -> Probed]
    BY <1>0, <1>1, <1>2, <1>3, <1>4 DEF Probed
  <1>6. lastEnded' \in [Catalog -> {"none", "answered", "llm_failed"}]
    BY <1>0, <1>1, <1>2
  <1>7. FailedProbeIsNews'
    BY <1>3, <1>4 DEF ModelsInv, FailedProbeIsNews
  <1> QED BY <1>1, <1>5, <1>6, <1>7, IdleReader
          DEF ModelsInv, ModelsType, ListedWas, CompletedInstalled

(* The steps of a pull write its own row.                                  *)
LEMMA PullStep ==
  ASSUME ModelsInv, NEW p \in Pulls, NEW row \in PullRow, pulls' = [pulls EXCEPT ![p] = row],
         row.status = "completed" /\ ~row.errorLine => row.installed
  PROVE  pulls' \in [Pulls -> PullRow] /\ CompletedInstalled'
  BY DEF ModelsInv, ModelsType, CompletedInstalled

LEMMA StartPullInv == ASSUME ModelsInv, NEW p \in Pulls, StartPull(p) PROVE ModelsInv'
  <1>0. /\ reader \in Reader /\ pulls \in [Pulls -> PullRow]
        /\ reader' = NoReader /\ UNCHANGED <<runtime, probes, lastEnded>>
    BY DEF ModelsInv, ModelsType, StartPull
  <1>1. CASE pulls' = pulls
    BY <1>0, <1>1, ReaderEndsInv DEF ModelsInv, CompletedInstalled
  <1>2. CASE pulls' = [pulls EXCEPT ![p].status = "queued", ![p].model = reader.model]
    <2>1. PICK row \in PullRow : row = pulls[p]
      BY <1>0
    <2>2. PICK model \in Catalog : model = reader.model
      BY <1>0 DEF Reader
    <2>3. PICK queued : queued = [[row EXCEPT !.status = "queued"] EXCEPT !.model = model]
      OBVIOUS
    <2>4. queued = [status |-> "queued", model |-> model, errorLine |-> row.errorLine,
                    installed |-> row.installed]
      BY <2>1, <2>3 DEF PullRow
    <2>5. queued \in PullRow /\ queued.status = "queued"
      BY <2>1, <2>2, <2>4 DEF PullRow
    <2>6. pulls' = [pulls EXCEPT ![p] = queued]
      BY <1>0, <1>2, <2>1, <2>2, <2>3
    <2>7. pulls' \in [Pulls -> PullRow] /\ CompletedInstalled'
      BY <2>5, <2>6, PullStep
    <2> QED BY <1>0, <2>7, ReaderEndsInv
  <1> QED BY <1>1, <1>2 DEF StartPull

LEMMA BeginPullInv == ASSUME ModelsInv, NEW p \in Pulls, BeginPull(p) PROVE ModelsInv'
  <1>1. /\ pulls \in [Pulls -> PullRow] /\ pulls' = [pulls EXCEPT ![p].status = "pulling"]
        /\ UNCHANGED <<runtime, probes, reader, lastEnded>>
    BY DEF ModelsInv, ModelsType, BeginPull
  <1>2. PICK row \in PullRow : row = [pulls[p] EXCEPT !.status = "pulling"]
    BY <1>1 DEF PullRow
  <1>3. pulls' = [pulls EXCEPT ![p] = row] /\ row.status = "pulling"
    BY <1>1, <1>2 DEF PullRow
  <1>4. pulls' \in [Pulls -> PullRow] /\ CompletedInstalled'
    BY <1>3, PullStep
  <1> QED BY <1>1, <1>4 DEF ModelsInv, ModelsType, FailedProbeIsNews, ListedWas

LEMMA ErrorLineInv == ASSUME ModelsInv, NEW p \in Pulls, ErrorLine(p) PROVE ModelsInv'
  <1>1. /\ pulls \in [Pulls -> PullRow] /\ pulls' = [pulls EXCEPT ![p].errorLine = TRUE]
        /\ UNCHANGED <<runtime, probes, reader, lastEnded>>
    BY DEF ModelsInv, ModelsType, ErrorLine
  <1>2. PICK row \in PullRow : row = [pulls[p] EXCEPT !.errorLine = TRUE]
    BY <1>1 DEF PullRow
  <1>3. pulls' = [pulls EXCEPT ![p] = row] /\ row.errorLine = TRUE
    BY <1>1, <1>2 DEF PullRow
  <1>4. pulls' \in [Pulls -> PullRow] /\ CompletedInstalled'
    BY <1>3, PullStep
  <1> QED BY <1>1, <1>4 DEF ModelsInv, ModelsType, FailedProbeIsNews, ListedWas

(* The end of the stream: it has installed the model, or reported an error.*)
LEMMA PullEndsInv ==
  ASSUME ModelsInv, NEW p \in Pulls, NEW ends \in BOOLEAN, PullEnds(p, ends) PROVE ModelsInv'
  <1>1. PICK row \in PullRow : row = pulls[p]
    BY DEF ModelsInv, ModelsType
  <1>2. PICK installs \in BOOLEAN : installs = (ends /\ ~row.errorLine)
    BY <1>1
  <1>3. /\ runtime' = IF installs THEN [runtime EXCEPT !.installed = @ \cup {row.model}] ELSE runtime
        /\ pulls' = [pulls EXCEPT ![p].status = StatusAfterPull(ends), ![p].installed = installs]
        /\ UNCHANGED <<probes, reader, lastEnded>>
    BY <1>1, <1>2 DEF PullEnds
  <1>4. PICK status \in {"completed", "failed"} : status = StatusAfterPull(ends)
    BY DEF StatusAfterPull
  <1>5. status = "completed" => ends
    BY <1>4 DEF StatusAfterPull
  <1>6. PICK ended : ended = [[row EXCEPT !.status = status] EXCEPT !.installed = installs]
    OBVIOUS
  <1>7. ended = [status |-> status, model |-> row.model, errorLine |-> row.errorLine,
                 installed |-> installs]
    BY <1>1, <1>6 DEF PullRow
  <1>8. ended \in PullRow
    BY <1>1, <1>7 DEF PullRow
  <1>9. ended.status = "completed" /\ ~ended.errorLine => ended.installed
    BY <1>1, <1>2, <1>5, <1>7 DEF PullRow
  <1>10. pulls' = [pulls EXCEPT ![p] = ended]
    BY <1>1, <1>3, <1>4, <1>6 DEF ModelsInv, ModelsType
  <1>11. pulls' \in [Pulls -> PullRow] /\ CompletedInstalled'
    BY <1>8, <1>9, <1>10, PullStep
  <1>12. runtime' \in Runtime
    <2>1. runtime \in Runtime /\ row.model \in Catalog
      BY <1>1 DEF ModelsInv, ModelsType, PullRow
    <2> QED BY <1>3, <2>1 DEF Runtime
  <1> QED BY <1>3, <1>11, <1>12 DEF ModelsInv, ModelsType, FailedProbeIsNews, ListedWas

LEMMA RuntimeChangesInv ==
  ASSUME ModelsInv, NEW after \in Runtime, RuntimeChanges(after) PROVE ModelsInv'
  BY DEF RuntimeChanges, ModelsInv, ModelsType, FailedProbeIsNews, ListedWas, CompletedInstalled

(* Every step keeps the invariant.                                         *)
LEMMA ModelsNextInv == ModelsInv /\ [ModelsNext]_modelVars => ModelsInv'
  <1> SUFFICES ASSUME ModelsInv, [ModelsNext]_modelVars PROVE ModelsInv'
    OBVIOUS
  <1>1. ASSUME NEW up \in BOOLEAN, NEW installed \in SUBSET Catalog,
               RuntimeChanges([up |-> up, installed |-> installed])
        PROVE  ModelsInv'
    BY <1>1, RuntimeChangesInv DEF Runtime
  <1>2. ASSUME NEW purpose \in {"profile", "pull", "query"}, NEW m \in Catalog,
               BeginRead(purpose, m)
        PROVE  ModelsInv'
    BY <1>2, BeginReadInv
  <1>3. CASE ListModels
    BY <1>3, ListModelsInv
  <1>4. CASE SendProfile
    BY <1>4, ReaderEndsInv DEF SendProfile, ModelsInv, ModelsType, CompletedInstalled
  <1>5. CASE ModelValidated
    BY <1>5, ModelValidatedInv
  <1>6. CASE AskDefault
    BY <1>6, AskDefaultInv
  <1>7. ASSUME NEW outcome \in {"answered", "refused", "llm_failed"}, AskEnds(outcome)
        PROVE  ModelsInv'
    BY <1>7, AskEndsInv
  <1>8. ASSUME NEW p \in Pulls, StartPull(p) \/ BeginPull(p) \/ ErrorLine(p)
        PROVE  ModelsInv'
    BY <1>8, StartPullInv, BeginPullInv, ErrorLineInv
  <1>9. ASSUME NEW p \in Pulls, NEW ends \in BOOLEAN, PullEnds(p, ends) PROVE ModelsInv'
    BY <1>9, PullEndsInv
  <1>10. CASE UNCHANGED modelVars
    BY <1>10
    DEF modelVars, ModelsInv, ModelsType, FailedProbeIsNews, ListedWas, CompletedInstalled
  <1> QED BY <1>1, <1>2, <1>3, <1>4, <1>5, <1>6, <1>7, <1>8, <1>9, <1>10 DEF ModelsNext

LEMMA ModelsInvHolds == ModelsSpec => []ModelsInv
  BY ModelsInitInv, ModelsNextInv, PTL DEF ModelsSpec

(* A probe that shows a failure is newer than any success of the model,    *)
(* whichever queries named the model and whichever used the default.       *)
THEOREM FailureIsNewest == ModelsSpec => []FailedProbeIsNews
  <1>1. ModelsInv => FailedProbeIsNews
    BY DEF ModelsInv
  <1> QED BY <1>1, ModelsInvHolds, PTL

(* A model that _readiness_for offers was installed while the profile was  *)
(* made, and a pull without an error line that is shown as completed has   *)
(* installed its model, whatever changes in the runtime meanwhile.         *)
THEOREM DrawerTellsTheTruth == ModelsSpec => []DrawerIsTruthful
  <1>1. ModelsInv => DrawerIsTruthful
    <2> SUFFICES ASSUME ModelsInv PROVE DrawerIsTruthful
      OBVIOUS
    <2>1. ASSUME NEW m \in Catalog,
                 Readiness(m) \in {"installed_unverified", "ready", "last_probe_failed"}
          PROVE  m \in reader.was
      BY <2>1 DEF Readiness, ModelsInv, ListedWas
    <2> QED BY <2>1 DEF DrawerIsTruthful, ModelsInv, CompletedInstalled
  <1> QED BY <1>1, ModelsInvHolds, PTL

-----------------------------------------------------------------------------
(* THE VOCABULARY.                                                         *)

FitRow == [pc : {"idle", "fit", "store", "write", "embed"},
           text : SUBSET (UNION Texts), left : SUBSET (UNION Texts),
           term : Terms \cup {"none"}, next : Nat]

VocabularyType ==
    /\ fitting \in [Threads -> FitRow]
    /\ file = [whole |-> file.whole, terms |-> file.terms]

(* The features of a vocabulary are the numbers below its size, one each.  *)
Numbering(known) ==
    /\ IsFiniteSet(DOMAIN known)
    /\ \A x \in DOMAIN known : known[x] \in Nat /\ known[x] < Cardinality(DOMAIN known)
    /\ \A x, y \in DOMAIN known : known[x] = known[y] => x = y

(* known has grown from older.                                             *)
GrownFrom(older, known) ==
    DOMAIN older \subseteq DOMAIN known /\ \A x \in DOMAIN older : known[x] = older[x]

(* The vocabularies grow from each other: the copy of the API, the file    *)
(* (whole or torn), the worker's memory.  What is indexed has the features *)
(* of the file.                                                            *)
OneVocabulary ==
    /\ Numbering(file.terms)
    /\ \A p \in indexed : \E x \in DOMAIN file.terms : p = <<x, file.terms[x]>>
    /\ api.up => GrownFrom(api.terms, file.terms)
    /\ workerUp => Numbering(memory) /\ GrownFrom(file.terms, memory)

(* A thread at work has left behind of its text only what is in memory, in *)
(* the end all of it in the file; the number it is about to store is free. *)
Fits(row) ==
    /\ row.pc # "idle" => workerUp
    /\ row.pc \in {"fit", "store"} => row.text \subseteq row.left \cup DOMAIN memory
    /\ row.pc = "store" => row.term \notin DOMAIN memory /\ row.next = Cardinality(DOMAIN memory)
    /\ row.pc \in {"write", "embed"} => row.text \subseteq DOMAIN memory
    /\ row.pc = "embed" => file.terms = memory

OneFit ==
    /\ \A t, u \in Threads : fitting[t].pc # "idle" /\ fitting[u].pc # "idle" => t = u
    /\ \A t \in Threads : Fits(fitting[t])

Numbered == VocabularyType /\ OneVocabulary /\ OneFit

(* overlapped never becomes false again, so its states are passed over.    *)
VocabularyInv == ~overlapped => Numbered

LEMMA EmptyNumbering == DOMAIN Unfitted = {} /\ Numbering(Unfitted)
  <1>1. DOMAIN Unfitted = {}
    BY DEF Unfitted
  <1> QED BY <1>1, FS_EmptySet DEF Numbering

LEMMA GrownTransitive ==
  ASSUME NEW f, NEW g, NEW h, GrownFrom(f, g), GrownFrom(g, h) PROVE GrownFrom(f, h)
  BY DEF GrownFrom

(* A new term with the size of the vocabulary as its number.               *)
LEMMA AddedTerm ==
  ASSUME NEW known, NEW term, Numbering(known), term \notin DOMAIN known,
         NEW more, more = [x \in DOMAIN known \cup {term} |->
                              IF x = term THEN Cardinality(DOMAIN known) ELSE known[x]]
  PROVE  Numbering(more) /\ GrownFrom(known, more)
  <1>1. /\ IsFiniteSet(DOMAIN known) /\ Cardinality(DOMAIN known) \in Nat
        /\ IsFiniteSet(DOMAIN known \cup {term})
        /\ Cardinality(DOMAIN known \cup {term}) = Cardinality(DOMAIN known) + 1
    BY FS_CardinalityType, FS_AddElement DEF Numbering
  <1>2. DOMAIN more = DOMAIN known \cup {term}
    OBVIOUS
  <1>3. /\ more[term] = Cardinality(DOMAIN known)
        /\ \A x \in DOMAIN known : more[x] = known[x]
    OBVIOUS
  <1>4. \A x \in DOMAIN known : known[x] \in Nat /\ known[x] < Cardinality(DOMAIN known)
    BY DEF Numbering
  <1>5. \A x \in DOMAIN more :
            more[x] \in Nat /\ more[x] < Cardinality(DOMAIN known) + 1
    BY <1>1, <1>2, <1>3, <1>4
  <1>6. ASSUME NEW x \in DOMAIN more, NEW y \in DOMAIN more, more[x] = more[y] PROVE x = y
    BY <1>1, <1>2, <1>3, <1>4, <1>6 DEF Numbering
  <1> QED BY <1>1, <1>2, <1>3, <1>5, <1>6 DEF Numbering, GrownFrom

LEMMA VocabularyInitInv == VocabularyInit => VocabularyInv
  <1> SUFFICES ASSUME VocabularyInit PROVE Numbered
    BY DEF VocabularyInv
  <1>1. NoFit \in FitRow /\ NoFit.pc = "idle"
    BY DEF NoFit, FitRow
  <1>2. file.terms = Unfitted /\ indexed = {} /\ ~api.up /\ ~workerUp
    BY DEF VocabularyInit, Whole
  <1>3. VocabularyType
    BY <1>1 DEF VocabularyInit, VocabularyType, Whole
  <1>4. \A t \in Threads : fitting[t] = NoFit
    BY DEF VocabularyInit
  <1>5. OneFit
    BY <1>1, <1>4 DEF OneFit, Fits
  <1> QED BY <1>2, <1>3, <1>5, EmptyNumbering DEF Numbered, OneVocabulary

-----------------------------------------------------------------------------
(* A step of the one thread that is at work.                               *)
LEMMA ThreadStep ==
  ASSUME Numbered, NEW t \in Threads, NEW row \in FitRow,
         fitting' = [fitting EXCEPT ![t] = row],
         \A u \in Threads \ {t} : fitting[u].pc = "idle",
         Fits(row)'
  PROVE  fitting' \in [Threads -> FitRow] /\ OneFit'
  <1>1. fitting \in [Threads -> FitRow]
    BY DEF Numbered, VocabularyType
  <1>2. /\ fitting' \in [Threads -> FitRow] /\ fitting'[t] = row
        /\ \A u \in Threads \ {t} : fitting'[u].pc = "idle"
    BY <1>1
  <1>3. ASSUME NEW u \in Threads PROVE Fits(fitting[u])'
    <2>1. CASE u = t
      BY <1>2, <2>1 DEF Fits
    <2>2. CASE u # t
      BY <1>2, <2>2 DEF Fits
    <2> QED BY <2>1, <2>2
  <1> QED BY <1>2, <1>3 DEF OneFit

LEMMA OthersIdle ==
  ASSUME Numbered, NEW t \in Threads, fitting[t].pc # "idle"
  PROVE  /\ workerUp /\ Fits(fitting[t])
         /\ \A u \in Threads \ {t} : fitting[u].pc = "idle"
  BY DEF Numbered, OneFit, Fits

LEMMA StartWorkerNumbered ==
  ASSUME Numbered, StartWorker PROVE Numbered'
  <1>1. GrownFrom(file.terms, file.terms)
    BY DEF GrownFrom
  <1>2. OneVocabulary'
    BY <1>1 DEF StartWorker, Numbered, OneVocabulary
  <1>3. \A t \in Threads : fitting[t].pc = "idle"
    BY DEF StartWorker, Numbered, OneFit, Fits
  <1>4. OneFit'
    BY <1>3 DEF StartWorker, OneFit, Fits
  <1> QED BY <1>2, <1>4 DEF StartWorker, Numbered, VocabularyType

LEMMA StartApiNumbered ==
  ASSUME Numbered, StartApi PROVE Numbered'
  <1>1. api'.terms = file.terms /\ GrownFrom(file.terms, file.terms)
    BY DEF GrownFrom, StartApi
  <1>2. OneVocabulary'
    BY <1>1 DEF StartApi, Numbered, OneVocabulary
  <1> QED BY <1>2 DEF StartApi, Numbered, VocabularyType, OneFit, Fits

LEMMA WorkerDiesNumbered ==
  ASSUME Numbered, WorkerDies PROVE Numbered'
  <1>1. NoFit \in FitRow /\ NoFit.pc = "idle"
    BY DEF NoFit, FitRow
  <1>2. fitting' \in [Threads -> FitRow] /\ \A t \in Threads : fitting'[t].pc = "idle"
    BY <1>1 DEF WorkerDies
  <1>3. OneFit'
    BY <1>2 DEF OneFit, Fits
  <1>4. OneVocabulary'
    BY DEF WorkerDies, Numbered, OneVocabulary
  <1> QED BY <1>2, <1>3, <1>4 DEF WorkerDies, Numbered, VocabularyType

LEMMA BeginFitNumbered ==
  ASSUME Numbered, NEW t \in Threads, NEW text \in Texts, BeginFit(t, text), ~overlapped'
  PROVE  Numbered'
  <1> DEFINE row == [pc |-> "fit", text |-> text, left |-> text, term |-> "none", next |-> 0]
  <1>0. PICK base \in FitRow : base = NoFit
    BY DEF NoFit, FitRow
  <1>9. PICK e : e = [base EXCEPT !.pc = "fit", !.text = text, !.left = text]
    OBVIOUS
  <1>10. base.term = "none" /\ base.next = 0
    BY <1>0 DEF NoFit
  <1>11. e = row
    BY <1>9, <1>10 DEF FitRow
  <1>1. row = [NoFit EXCEPT !.pc = "fit", !.text = text, !.left = text]
    BY <1>0, <1>9, <1>11
  <1>2. fitting' = [fitting EXCEPT ![t] = row]
    BY <1>1 DEF BeginFit
  <1>3. row \in FitRow
    BY DEF FitRow
  <1>4. \A u \in Threads : fitting[u].pc = "idle"
    BY DEF BeginFit
  <1>5. Fits(row)'
    BY DEF BeginFit, Fits
  <1> HIDE DEF row
  <1>6. fitting' \in [Threads -> FitRow] /\ OneFit'
    BY <1>2, <1>3, <1>4, <1>5, ThreadStep
  <1> QED BY <1>6 DEF BeginFit, Numbered, VocabularyType, OneVocabulary

LEMMA NumberTermNumbered ==
  ASSUME Numbered, NEW t \in Threads, NEW term \in Terms, NumberTerm(t, term)
  PROVE  Numbered'
  <1>1. PICK row \in FitRow : row = fitting[t]
    BY DEF Numbered, VocabularyType
  <1>2. /\ \A u \in Threads \ {t} : fitting[u].pc = "idle"
        /\ row.pc = "fit" /\ workerUp /\ Fits(row) /\ term \in row.left
    BY <1>1, OthersIdle DEF NumberTerm
  <1>3. UNCHANGED <<file, memory, indexed, api, workerUp>>
    BY DEF NumberTerm
  <1>4. CASE term \in DOMAIN memory
    <2>1. PICK after : after = [row EXCEPT !.left = @ \ {term}]
      OBVIOUS
    <2>2. after = [row EXCEPT !.left = row.left \ {term}]
      BY <2>1
    <2>3. after = [pc |-> row.pc, text |-> row.text, left |-> row.left \ {term},
                   term |-> row.term, next |-> row.next]
      BY <2>2 DEF FitRow
    <2>4. after \in FitRow
      BY <2>3 DEF FitRow
    <2>5. Fits(after)'
      BY <1>2, <1>3, <1>4, <2>3 DEF Fits
    <2>6. fitting' = [fitting EXCEPT ![t] = after]
      BY <1>1, <1>4, <2>1 DEF NumberTerm, Numbered, VocabularyType
    <2>7. fitting' \in [Threads -> FitRow] /\ OneFit'
      BY <1>2, <2>4, <2>5, <2>6, ThreadStep
    <2> QED BY <1>3, <2>7 DEF Numbered, VocabularyType, OneVocabulary
  <1>5. CASE term \notin DOMAIN memory
    <2>1. PICK after : after = [row EXCEPT !.pc = "store", !.term = term, !.next = NextFeature(t)]
      OBVIOUS
    <2>2. Cardinality(DOMAIN memory) \in Nat
      BY <1>2, FS_CardinalityType DEF Numbered, OneVocabulary, Numbering
    <2>3. after = [pc |-> "store", text |-> row.text, left |-> row.left,
                   term |-> term, next |-> Cardinality(DOMAIN memory)]
      BY <2>1 DEF FitRow, NextFeature
    <2>4. after \in FitRow
      BY <2>2, <2>3 DEF FitRow
    <2>5. Fits(after)'
      BY <1>2, <1>3, <1>5, <2>3 DEF Fits
    <2>6. fitting' = [fitting EXCEPT ![t] = after]
      BY <1>1, <1>5, <2>1 DEF NumberTerm, Numbered, VocabularyType
    <2>7. fitting' \in [Threads -> FitRow] /\ OneFit'
      BY <1>2, <2>4, <2>5, <2>6, ThreadStep
    <2> QED BY <1>3, <2>7 DEF Numbered, VocabularyType, OneVocabulary
  <1> QED BY <1>4, <1>5

LEMMA StoreTermNumbered ==
  ASSUME Numbered, NEW t \in Threads, StoreTerm(t) PROVE Numbered'
  <1>1. PICK row \in FitRow : row = fitting[t]
    BY DEF Numbered, VocabularyType
  <1>2. /\ \A u \in Threads \ {t} : fitting[u].pc = "idle"
        /\ row.pc = "store" /\ workerUp /\ Fits(row)
    BY <1>1, OthersIdle DEF StoreTerm
  <1>3. /\ UNCHANGED <<file, indexed, api, workerUp>>
        /\ memory' = [x \in DOMAIN memory \cup {row.term} |->
                         IF x = row.term THEN row.next ELSE memory[x]]
    BY <1>1 DEF StoreTerm
  <1>4. row.term \notin DOMAIN memory /\ row.next = Cardinality(DOMAIN memory)
    BY <1>2 DEF Fits
  <1>5. Numbering(memory) /\ GrownFrom(file.terms, memory)
    BY <1>2 DEF Numbered, OneVocabulary
  <1>6. PICK more : more = [x \in DOMAIN memory \cup {row.term} |->
                               IF x = row.term THEN Cardinality(DOMAIN memory) ELSE memory[x]]
    OBVIOUS
  <1>7. Numbering(more) /\ GrownFrom(memory, more)
    BY <1>4, <1>5, <1>6, AddedTerm
  <1>8. memory' = more
    BY <1>3, <1>4, <1>6
  <1>9. GrownFrom(file.terms, more)
    BY <1>5, <1>7, GrownTransitive
  <1>10. OneVocabulary'
    BY <1>3, <1>7, <1>8, <1>9 DEF Numbered, OneVocabulary
  <1>11. PICK after : after = [row EXCEPT !.pc = "fit", !.left = @ \ {row.term},
                                          !.term = "none", !.next = 0]
    OBVIOUS
  <1>12. after = [pc |-> "fit", text |-> row.text, left |-> row.left \ {row.term},
                  term |-> "none", next |-> 0]
    BY <1>11 DEF FitRow
  <1>13. after \in FitRow
    BY <1>12 DEF FitRow
  <1>14. DOMAIN memory' = DOMAIN memory \cup {row.term}
    BY <1>3
  <1>15. Fits(after)'
    BY <1>2, <1>3, <1>12, <1>14 DEF Fits
  <1>16. fitting' = [fitting EXCEPT ![t] = after]
    BY <1>1, <1>11 DEF StoreTerm, Numbered, VocabularyType
  <1>17. fitting' \in [Threads -> FitRow] /\ OneFit'
    BY <1>2, <1>13, <1>15, <1>16, ThreadStep
  <1> QED BY <1>3, <1>10, <1>17 DEF Numbered, VocabularyType

(* The steps that change nothing of a thread's row but its pc.             *)
LEMMA RowMoves ==
  ASSUME Numbered, NEW t \in Threads, NEW pc \in {"write", "embed"},
         fitting' = [fitting EXCEPT ![t].pc = pc]
  PROVE  \E row \in FitRow :
            /\ row.pc = pc /\ row.text = fitting[t].text
            /\ fitting' = [fitting EXCEPT ![t] = row]
  <1>1. PICK row \in FitRow : row = fitting[t]
    BY DEF Numbered, VocabularyType
  <1>2. PICK after : after = [row EXCEPT !.pc = pc]
    OBVIOUS
  <1>3. after = [pc |-> pc, text |-> row.text, left |-> row.left,
                 term |-> row.term, next |-> row.next]
    BY <1>2 DEF FitRow
  <1>4. after \in FitRow
    BY <1>3 DEF FitRow
  <1>5. fitting' = [fitting EXCEPT ![t] = after]
    BY <1>1, <1>2 DEF Numbered, VocabularyType
  <1> QED BY <1>1, <1>3, <1>4, <1>5

LEMMA OpenFileNumbered ==
  ASSUME Numbered, NEW t \in Threads, OpenFile(t) PROVE Numbered'
  <1>1. PICK row \in FitRow : /\ row.pc = "write" /\ row.text = fitting[t].text
                              /\ fitting' = [fitting EXCEPT ![t] = row]
    BY RowMoves DEF OpenFile
  <1>2. /\ \A u \in Threads \ {t} : fitting[u].pc = "idle"
        /\ workerUp /\ fitting[t].text \subseteq DOMAIN memory
    BY OthersIdle DEF OpenFile, Fits
  <1>3. file' = [whole |-> FALSE, terms |-> file.terms]
    BY DEF OpenFile, Torn, Numbered, VocabularyType
  <1>4. Fits(row)'
    BY <1>1, <1>2 DEF OpenFile, Fits
  <1>5. fitting' \in [Threads -> FitRow] /\ OneFit'
    BY <1>1, <1>2, <1>4, ThreadStep
  <1>6. file'.terms = file.terms /\ UNCHANGED <<memory, indexed, api, workerUp>>
    BY <1>3 DEF OpenFile
  <1>7. OneVocabulary'
    BY <1>6 DEF Numbered, OneVocabulary
  <1> QED BY <1>3, <1>5, <1>7 DEF Numbered, VocabularyType

LEMMA CloseFileNumbered ==
  ASSUME Numbered, NEW t \in Threads, CloseFile(t) PROVE Numbered'
  <1>1. PICK row \in FitRow : /\ row.pc = "embed" /\ row.text = fitting[t].text
                              /\ fitting' = [fitting EXCEPT ![t] = row]
    BY RowMoves DEF CloseFile
  <1>2. /\ \A u \in Threads \ {t} : fitting[u].pc = "idle"
        /\ workerUp /\ fitting[t].text \subseteq DOMAIN memory
    BY OthersIdle DEF CloseFile, Fits
  <1>3. file' = [whole |-> TRUE, terms |-> memory]
    BY DEF CloseFile, FileAfterSave, Whole
  <1>4. file'.terms = memory /\ UNCHANGED <<memory, indexed, api, workerUp>>
    BY <1>3 DEF CloseFile
  <1>5. Fits(row)'
    BY <1>1, <1>2, <1>4 DEF Fits
  <1>6. fitting' \in [Threads -> FitRow] /\ OneFit'
    BY <1>1, <1>2, <1>5, ThreadStep
  <1>7. /\ Numbering(memory) /\ GrownFrom(file.terms, memory) /\ GrownFrom(memory, memory)
        /\ api.up => GrownFrom(api.terms, file.terms)
    BY <1>2 DEF Numbered, OneVocabulary, GrownFrom
  <1>8. api.up => GrownFrom(api.terms, memory)
    BY <1>7, GrownTransitive
  <1>9. ASSUME NEW p \in indexed PROVE \E x \in DOMAIN memory : p = <<x, memory[x]>>
    <2>1. PICK x \in DOMAIN file.terms : p = <<x, file.terms[x]>>
      BY DEF Numbered, OneVocabulary
    <2>2. x \in DOMAIN memory /\ file.terms[x] = memory[x]
      BY <1>7 DEF GrownFrom
    <2> QED BY <2>1, <2>2
  <1>10. OneVocabulary'
    BY <1>4, <1>7, <1>8, <1>9 DEF OneVocabulary
  <1> QED BY <1>3, <1>6, <1>10 DEF Numbered, VocabularyType

LEMMA EmbedAndStoreNumbered ==
  ASSUME Numbered, NEW t \in Threads, EmbedAndStore(t) PROVE Numbered'
  <1>1. NoFit \in FitRow /\ NoFit.pc = "idle"
    BY DEF NoFit, FitRow
  <1>2. /\ \A u \in Threads \ {t} : fitting[u].pc = "idle"
        /\ fitting[t].text \subseteq DOMAIN memory /\ file.terms = memory
    BY OthersIdle DEF EmbedAndStore, Fits
  <1>3. Fits(NoFit)'
    BY <1>1 DEF Fits, NoFit
  <1>4. fitting' \in [Threads -> FitRow] /\ OneFit'
    BY <1>1, <1>2, <1>3, ThreadStep DEF EmbedAndStore
  <1>5. /\ indexed' = indexed \cup {<<term, memory[term]>> : term \in fitting[t].text}
        /\ UNCHANGED <<file, memory, api, workerUp>>
    BY DEF EmbedAndStore
  <1>6. ASSUME NEW p \in indexed'
        PROVE  \E x \in DOMAIN file.terms : p = <<x, file.terms[x]>>
    <2>1. CASE p \in indexed
      BY <2>1 DEF Numbered, OneVocabulary
    <2>2. CASE p \in {<<term, memory[term]>> : term \in fitting[t].text}
      BY <1>2, <2>2
    <2> QED BY <1>5, <2>1, <2>2
  <1>7. OneVocabulary'
    BY <1>5, <1>6 DEF Numbered, OneVocabulary
  <1> QED BY <1>4, <1>5, <1>7 DEF Numbered, VocabularyType

LEMMA VocabularyNextInv == VocabularyInv /\ [VocabularyNext]_vocabularyVars => VocabularyInv'
  <1> SUFFICES ASSUME VocabularyInv, [VocabularyNext]_vocabularyVars, ~overlapped'
               PROVE  Numbered'
    BY DEF VocabularyInv
  <1>1. ASSUME NEW t \in Threads, NEW text \in Texts, BeginFit(t, text) PROVE Numbered'
    BY <1>1, BeginFitNumbered DEF BeginFit, VocabularyInv
  <1>2. CASE UNCHANGED vocabularyVars
    BY <1>2 DEF vocabularyVars, VocabularyInv, Numbered, VocabularyType, OneVocabulary,
                OneFit, Fits
  <1>3. CASE StartWorker \/ StartApi \/ WorkerDies
    <2>1. Numbered
      BY <1>3 DEF VocabularyInv, StartWorker, StartApi, WorkerDies
    <2> QED BY <1>3, <2>1, StartWorkerNumbered, StartApiNumbered, WorkerDiesNumbered
  <1>4. ASSUME NEW t \in Threads, NEW term \in Terms, NumberTerm(t, term) PROVE Numbered'
    <2>1. Numbered
      BY <1>4 DEF VocabularyInv, NumberTerm
    <2> QED BY <1>4, <2>1, NumberTermNumbered
  <1>5. ASSUME NEW t \in Threads,
               StoreTerm(t) \/ OpenFile(t) \/ CloseFile(t) \/ EmbedAndStore(t)
        PROVE  Numbered'
    <2>1. Numbered
      BY <1>5 DEF VocabularyInv, StoreTerm, OpenFile, CloseFile, EmbedAndStore
    <2> QED BY <1>5, <2>1, StoreTermNumbered, OpenFileNumbered, CloseFileNumbered,
               EmbedAndStoreNumbered
  <1> QED BY <1>1, <1>2, <1>3, <1>4, <1>5 DEF VocabularyNext

(* The feature that fit_documents gave a term is that term's, and the      *)
(* term's only one, in all that is stored in Qdrant, across restarts of    *)
(* the worker and torn files; the worker and the API, however old its copy *)
(* is, know it by the same number: as long as no two threads fit at once.  *)
THEOREM FeaturesStay == VocabularySpec => []FeaturesKeepTheirTerm
  <1>1. VocabularyInv => FeaturesKeepTheirTerm
    <2> SUFFICES ASSUME VocabularyInv, ~overlapped PROVE FeaturesKeepTheirTerm
      BY DEF FeaturesKeepTheirTerm
    <2>1. /\ Numbering(file.terms)
          /\ \A p \in indexed : \E x \in DOMAIN file.terms : p = <<x, file.terms[x]>>
          /\ workerUp => GrownFrom(file.terms, memory)
          /\ api.up => GrownFrom(api.terms, file.terms)
      BY DEF VocabularyInv, Numbered, OneVocabulary
    <2>2. \A p \in indexed : p[1] \in DOMAIN file.terms /\ p[2] = file.terms[p[1]]
                             /\ p = <<p[1], p[2]>>
      BY <2>1
    <2>3. ASSUME NEW p \in indexed, NEW q \in indexed PROVE (p[1] = q[1]) <=> (p[2] = q[2])
      BY <2>1, <2>2 DEF Numbering
    <2>4. workerUp => Knows(memory)
      BY <2>1, <2>2 DEF GrownFrom, Knows
    <2>5. api.up => Knows(api.terms)
      BY <2>1, <2>2 DEF GrownFrom, Knows
    <2> QED BY <2>3, <2>4, <2>5 DEF FeaturesKeepTheirTerm
  <1> QED BY <1>1, VocabularyInitInv, VocabularyNextInv, PTL DEF VocabularySpec

-----------------------------------------------------------------------------
(* THE PROMPT.                                                             *)

N == Cardinality(Evidence)
Counts == [Evidence -> Nat]

LEMMA EvidencePositions ==
  N \in Nat /\ Evidence = 1..N /\ {0} \cup Evidence = 0..N /\ IsFiniteSet(Evidence)
  <1>1. N \in Nat
    BY PackingAssumption, FS_CardinalityType DEF N
  <1>2. Evidence = 1..N
    BY PackingAssumption DEF N
  <1> QED BY <1>1, <1>2, PackingAssumption

(* sum is the loop of SumOver over f.                                      *)
Adds(sum, f) ==
    sum \in [0..N -> Nat] /\ sum[0] = 0 /\ \A e \in 1..N : sum[e] = sum[e - 1] + f[e]

LEMMA SumLoop ==
  ASSUME NEW f \in Counts
  PROVE  \E sum : Adds(sum, f) /\ SumOver(f) = sum[N]
  <1> DEFINE Step == [x \in (1..N) \X Nat |-> x[2] + f[x[1]]]
             Defines(sum) == sum = [e \in {0} \cup Evidence |-> IF e = 0 THEN 0 ELSE sum[e - 1] + f[e]]
  <1>1. f \in [1..N -> Nat]
    BY EvidencePositions DEF Counts
  <1>2. \A i \in 1..N, s \in Nat : Step[<<i, s>>] = s + f[i]
    OBVIOUS
  <1>3. PICK sum : IsLoop(sum, N, Nat, 0, Step)
    <2>1. N \in Nat /\ 0 \in Nat /\ Step \in LoopBody(N, Nat)
      BY <1>1, EvidencePositions DEF LoopBody
    <2> HIDE DEF Step
    <2> QED BY <2>1, LoopRuns
  <1> HIDE DEF Step
  <1>4. Adds(sum, f)
    BY <1>2, <1>3 DEF IsLoop, Adds
  <1>5. Defines(sum)
    BY <1>4, EvidencePositions DEF Adds
  <1>6. ASSUME NEW other, Defines(other) PROVE other = sum
    <2>1. other = [i \in 0..N |-> other[i]] /\ other[0] = 0
      BY <1>6, EvidencePositions
    <2>2. \A i \in 1..N : other[i] = other[i - 1] + f[i]
      BY <1>6, EvidencePositions
    <2>3. Follows(other, N, Nat, 0, Step)
      BY <1>2, <2>1, <2>2 DEF Follows
    <2> QED BY <1>3, <2>3, EvidencePositions, LoopIsUnique
  <1>7. SumOver(f) = (CHOOSE other : Defines(other))[N]
    BY DEF SumOver, N
  <1> HIDE DEF Defines
  <1> QED BY <1>4, <1>5, <1>6, <1>7

(* Two sums, round by round.                                               *)
LEMMA SumMonotonic ==
  ASSUME NEW f \in Counts, NEW g \in Counts, \A e \in Evidence : f[e] <= g[e]
  PROVE  SumOver(f) <= SumOver(g)
  <1>1. PICK s : Adds(s, f) /\ SumOver(f) = s[N]
    BY SumLoop
  <1>2. PICK t : Adds(t, g) /\ SumOver(g) = t[N]
    BY SumLoop
  <1> DEFINE Good == {i \in 0..N : s[i] <= t[i]}
  <1>3. 0 \in Good
    BY <1>1, <1>2, EvidencePositions DEF Adds
  <1>4. ASSUME NEW i \in 1..N, i - 1 \in Good PROVE i \in Good
    <2>1. f[i] \in Nat /\ g[i] \in Nat /\ f[i] <= g[i]
      BY EvidencePositions DEF Counts
    <2> QED BY <1>1, <1>2, <1>4, <2>1 DEF Adds
  <1>5. 0..N \subseteq Good
    <2> HIDE DEF Good
    <2> QED BY <1>3, <1>4, EveryRound, EvidencePositions
  <1> QED BY <1>1, <1>2, <1>5, EvidencePositions

LEMMA SumOfSums ==
  ASSUME NEW f \in Counts, NEW g \in Counts
  PROVE  SumOver([e \in Evidence |-> f[e] + g[e]]) = SumOver(f) + SumOver(g)
  <1> DEFINE h == [e \in Evidence |-> f[e] + g[e]]
  <1>0. h \in Counts /\ \A e \in Evidence : h[e] = f[e] + g[e]
    BY DEF Counts
  <1> HIDE DEF h
  <1>1. PICK s : Adds(s, f) /\ SumOver(f) = s[N]
    BY SumLoop
  <1>2. PICK t : Adds(t, g) /\ SumOver(g) = t[N]
    BY SumLoop
  <1>3. PICK u : Adds(u, h) /\ SumOver(h) = u[N]
    BY <1>0, SumLoop
  <1> DEFINE Good == {i \in 0..N : u[i] = s[i] + t[i]}
  <1>4. 0 \in Good
    BY <1>1, <1>2, <1>3, EvidencePositions DEF Adds
  <1>5. ASSUME NEW i \in 1..N, i - 1 \in Good PROVE i \in Good
    <2>1. f[i] \in Nat /\ g[i] \in Nat /\ h[i] = f[i] + g[i]
      BY <1>0, EvidencePositions DEF Counts
    <2> QED BY <1>1, <1>2, <1>3, <1>5, <2>1, SMTT(20) DEF Adds
  <1>6. 0..N \subseteq Good
    <2> HIDE DEF Good
    <2> QED BY <1>4, <1>5, EveryRound, EvidencePositions
  <1> QED BY <1>1, <1>2, <1>3, <1>6, EvidencePositions DEF h

LEMMA SumChanged ==
  ASSUME NEW f \in Counts, NEW e \in Evidence, NEW a \in Nat
  PROVE  SumOver([f EXCEPT ![e] = f[e] + a]) = SumOver(f) + a
  <1> DEFINE h == [f EXCEPT ![e] = f[e] + a]
  <1>0. h \in Counts /\ \A d \in Evidence : h[d] = IF d = e THEN f[d] + a ELSE f[d]
    BY DEF Counts
  <1> HIDE DEF h
  <1>1. PICK s : Adds(s, f) /\ SumOver(f) = s[N]
    BY SumLoop
  <1>2. PICK u : Adds(u, h) /\ SumOver(h) = u[N]
    BY <1>0, SumLoop
  <1>3. e \in 1..N
    BY EvidencePositions
  <1> DEFINE Good == {i \in 0..N : u[i] = IF i < e THEN s[i] ELSE s[i] + a}
  <1>4. 0 \in Good
    BY <1>1, <1>2, <1>3, EvidencePositions DEF Adds
  <1>5. ASSUME NEW i \in 1..N, i - 1 \in Good PROVE i \in Good
    <2>1. f[i] \in Nat /\ h[i] = IF i = e THEN f[i] + a ELSE f[i]
      BY <1>0, EvidencePositions DEF Counts
    <2> QED BY <1>1, <1>2, <1>3, <1>5, <2>1 DEF Adds
  <1>6. 0..N \subseteq Good
    <2> HIDE DEF Good
    <2> QED BY <1>4, <1>5, EveryRound, EvidencePositions
  <1> QED BY <1>1, <1>2, <1>3, <1>6, EvidencePositions DEF h

LEMMA SumOfNothing == NoText \in Counts /\ SumOver(NoText) = 0
  <1>1. NoText \in Counts /\ \A e \in Evidence : NoText[e] = 0
    BY DEF NoText, Counts
  <1>2. PICK s : Adds(s, NoText) /\ SumOver(NoText) = s[N]
    BY <1>1, SumLoop
  <1> DEFINE Good == {i \in 0..N : s[i] = 0}
  <1>3. 0 \in Good
    BY <1>2, EvidencePositions DEF Adds
  <1>4. ASSUME NEW i \in 1..N, i - 1 \in Good PROVE i \in Good
    <2>1. NoText[i] = 0 /\ s[i] = s[i - 1] + NoText[i] /\ s[i - 1] = 0
      BY <1>1, <1>2, <1>4, EvidencePositions DEF Adds
    <2> QED BY <2>1
  <1>5. 0..N \subseteq Good
    <2> HIDE DEF Good
    <2> QED BY <1>3, <1>4, EveryRound, EvidencePositions
  <1> QED BY <1>1, <1>2, <1>5, EvidencePositions

LEMMA SumIsCount == ASSUME NEW f \in Counts PROVE SumOver(f) \in Nat
  BY SumLoop, EvidencePositions DEF Adds

-----------------------------------------------------------------------------
(* In a round the sources that lack some have had base in the rounds       *)
(* before, and this round's share if it was their turn already; those that *)
(* lack nothing have had no more.                                          *)
Level(state, base) ==
    /\ \A e \in state.todo : state.given[e] = base
    /\ \A e \in state.active \ state.todo : state.given[e] = base + state.share
    /\ \A e \in Evidence \ state.active : state.given[e] <= base + state.share

(* A share of more than one character is there for all whose turn comes.   *)
RoundInv(state) ==
    /\ state.active = {e \in Evidence : state.given[e] < LengthsOf(state)[e]}
    /\ state.todo \subseteq state.active
    /\ state.active # {} => state.todo # {}
    /\ state.share >= 1 /\ state.remaining >= 0
    /\ state.share > 1 => state.share * Cardinality(state.todo) <= state.remaining
    /\ \E base \in Nat : Level(state, base)

(* What the chunks were given and what is left of the budget are within    *)
(* it; so are the chunks when the sections share the rest.                 *)
BudgetInv(state) ==
    /\ state.pc = "children" => SumOver(state.given) + state.remaining <= state.budget
    /\ state.pc = "parents" => SumOver(state.chunk) <= state.budget

PackingInv ==
    /\ PackingTypeOK /\ PromptFitsBudget
    /\ pack.pc \in {"children", "parents"} => RoundInv(pack) /\ BudgetInv(pack)

LEMMA LeastOf ==
  ASSUME NEW T, T \subseteq Evidence, T # {}
  PROVE  Min(T) \in T
  <1>1. \E n \in T : \A m \in T : n <= m
    <2>1. T \subseteq Nat
      BY EvidencePositions
    <2> QED BY <2>1, NatLeast
  <1> QED BY <1>1 DEF Min

LEMMA ShareFits ==
  ASSUME NEW active, active \subseteq Evidence, NEW remaining \in Nat
  PROVE  LET share == Share(remaining, active)
         IN  /\ share \in Nat /\ share >= 1
             /\ share > 1 => share * Cardinality(active) <= remaining
  <1> DEFINE n == Cardinality(active)
  <1>1. n \in Nat /\ (active # {} => n > 0)
    <2>1. IsFiniteSet(active)
      BY EvidencePositions, FS_Subset
    <2> QED BY <2>1, FS_CardinalityType, FS_EmptySet
  <1>2. CASE active # {} /\ remaining \div n > 1
    <2> DEFINE q == remaining \div n
    <2>1. q \in Nat /\ q > 1 /\ q * n <= remaining
      BY <1>1, <1>2
    <2>2. Share(remaining, active) = q
      BY <1>2 DEF Share
    <2> HIDE DEF q
    <2> QED BY <2>1, <2>2
  <1>3. CASE ~(active # {} /\ remaining \div n > 1)
    BY <1>3 DEF Share
  <1> QED BY <1>2, <1>3

(* At the start of a round.                                                *)
LEMMA RoundBegins ==
  ASSUME NEW lengths \in [Evidence -> Lengths], NEW remaining \in Nat,
         NEW state, state.given = NoText,
         state.active = {e \in Evidence : lengths[e] > 0},
         state.todo = state.active, LengthsOf(state) = lengths,
         state.share = Share(remaining, state.active), state.remaining = remaining
  PROVE  RoundInv(state)
  <1>1. \A e \in Evidence : lengths[e] \in Nat /\ NoText[e] = 0
    BY PackingAssumption DEF NoText
  <1>2. Level(state, 0)
    <2>1. state.share \in Nat
      BY ShareFits
    <2> QED BY <1>1, <2>1 DEF Level
  <1>3. state.active = {e \in Evidence : state.given[e] < LengthsOf(state)[e]}
    BY <1>1
  <1> QED BY <1>2, <1>3, ShareFits DEF RoundInv

LEMMA AllocateKeeps ==
  ASSUME PackingInv, Allocate
  PROVE  PackingInv'
  <1> DEFINE e      == Min(pack.todo)
             length == LengthsOf(pack)[e]
             lacks  == length - pack.given[e]
             amount == IF lacks < pack.share THEN lacks ELSE pack.share
             active == IF lacks <= pack.share THEN pack.active \ {e} ELSE pack.active
             left   == pack.remaining - amount
             ended  == pack.todo = {e}
             given  == [pack.given EXCEPT ![e] = pack.given[e] + amount]
             todo   == IF ended THEN active ELSE pack.todo \ {e}
             share  == IF ended THEN Share(left, active) ELSE pack.share
  <1>1. /\ pack.pc \in {"children", "parents"} /\ pack.active # {} /\ pack.remaining > 0
        /\ pack' = [pack EXCEPT !.given[e] = pack.given[e] + amount, !.remaining = left,
                                !.active = active, !.todo = todo, !.share = share]
    BY DEF Allocate, Sharing
  <1>2. RoundInv(pack) /\ BudgetInv(pack) /\ pack \in PackState
    BY <1>1 DEF PackingInv, PackingTypeOK
  <1>3. e \in pack.todo /\ e \in pack.active /\ e \in Evidence
    <2>1. pack.todo # {} /\ pack.todo \subseteq pack.active /\ pack.todo \subseteq Evidence
      BY <1>1, <1>2 DEF RoundInv, PackState
    <2> QED BY <2>1, LeastOf
  <1>4. /\ LengthsOf(pack) \in [Evidence -> Nat] /\ pack.given \in Counts
        /\ pack.share \in Nat /\ pack.remaining \in Int
    BY <1>2, PackingAssumption DEF PackState, LengthsOf, Counts
  <1>5. /\ length \in Nat /\ pack.given[e] \in Nat /\ pack.given[e] < length
        /\ pack.share >= 1
    BY <1>2, <1>3, <1>4 DEF RoundInv, Counts
  <1>6. /\ amount \in Nat /\ amount >= 1 /\ amount <= pack.share /\ amount <= lacks
        /\ lacks \in Nat
    BY <1>4, <1>5
  <1>7. /\ given \in Counts /\ given[e] = pack.given[e] + amount
        /\ \A d \in Evidence \ {e} : given[d] = pack.given[d]
    BY <1>3, <1>4, <1>6 DEF Counts
  <1>8. /\ pack'.pc = pack.pc /\ pack'.budget = pack.budget /\ pack'.child = pack.child
        /\ pack'.parent = pack.parent /\ pack'.given = given /\ pack'.active = active
        /\ pack'.todo = todo /\ pack'.share = share /\ pack'.remaining = left
        /\ pack'.chunk = pack.chunk /\ pack'.section = pack.section
    BY <1>1, <1>2 DEF PackState
  <1>9. IsFiniteSet(pack.todo) /\ Cardinality(pack.todo) \in Nat
        /\ Cardinality(pack.todo \ {e}) = Cardinality(pack.todo) - 1
    <2>1. pack.todo \subseteq Evidence
      BY <1>2 DEF PackState
    <2>2. IsFiniteSet(pack.todo)
      BY <2>1, EvidencePositions, FS_Subset
    <2> QED BY <1>3, <2>2, FS_CardinalityType, FS_RemoveElement
  <1> DEFINE c == Cardinality(pack.todo)
  <1>10. left \in Nat /\ (pack.share > 1 => pack.share * (c - 1) <= left)
    <2>1. c >= 1
      BY <1>3, <1>9, FS_EmptySet
    <2>2. pack.share > 1 => pack.share * c <= pack.remaining
      BY <1>2 DEF RoundInv
    <2>3. PICK rest \in Nat : rest = pack.share * (c - 1) /\ pack.share * c = rest + pack.share
      <3>1. pack.share * (c - 1) \in Nat /\ pack.share * c = pack.share * (c - 1) + pack.share
        BY <1>4, <1>9, <2>1
      <3> QED BY <3>1
    <2>4. CASE pack.share > 1
      <3>1. rest + pack.share <= pack.remaining
        BY <2>2, <2>3, <2>4
      <3>2. left \in Nat /\ rest <= left
        <4> HIDE DEF c, amount
        <4> QED BY <1>4, <1>6, <2>3, <3>1
      <3> QED BY <2>3, <3>2
    <2>5. CASE ~(pack.share > 1)
      <3>1. amount <= 1 /\ pack.remaining > 0
        <4> HIDE DEF c, amount
        <4> QED BY <1>1, <1>4, <1>6, <2>5
      <3>2. left \in Nat
        <4> HIDE DEF c, amount
        <4> QED BY <1>4, <1>6, <3>1
      <3> QED BY <2>5, <3>2
    <2> QED BY <2>4, <2>5
  <1>11. active = {d \in Evidence : given[d] < LengthsOf(pack)[d]}
    <2>1. pack.active = {d \in Evidence : pack.given[d] < LengthsOf(pack)[d]}
      BY <1>2 DEF RoundInv
    <2>2. lacks <= pack.share <=> ~(given[e] < length)
      BY <1>4, <1>5, <1>6, <1>7
    <2> HIDE DEF given, amount, lacks
    <2> QED BY <1>3, <1>7, <2>1, <2>2
  <1>12. share \in Nat /\ share >= 1 /\ (share > 1 => share * Cardinality(todo) <= left)
    <2>1. CASE ended
      <3>1. active \subseteq Evidence
        BY <1>2 DEF PackState
      <3> HIDE DEF active, left
      <3> QED BY <1>10, <2>1, <3>1, ShareFits
    <2>2. CASE ~ended
      BY <1>4, <1>5, <1>9, <1>10, <2>2
    <2> QED BY <2>1, <2>2
  <1>13. /\ todo \subseteq active /\ (active # {} => todo # {}) /\ active \subseteq Evidence
         /\ pack.todo \subseteq pack.active
    <2>1. pack.todo \subseteq pack.active /\ pack.active \subseteq Evidence
      BY <1>2 DEF RoundInv, PackState
    <2> HIDE DEF amount, lacks, e
    <2> QED BY <1>3, <2>1
  <1>14. PICK base \in Nat : Level(pack, base)
    BY <1>2 DEF RoundInv
  <1>15. /\ pack.given[e] = base
         /\ \A d \in pack.todo : pack.given[d] = base
         /\ \A d \in pack.active \ pack.todo : pack.given[d] = base + pack.share
         /\ \A d \in Evidence \ pack.active : pack.given[d] <= base + pack.share
    BY <1>3, <1>14 DEF Level
  <1>16. given[e] <= base + pack.share /\ (e \in active => given[e] = base + pack.share)
    <2>1. e \in active => amount = pack.share
      BY <1>4, <1>5, <1>6
    <2> HIDE DEF amount, active, given
    <2> QED BY <1>4, <1>6, <1>7, <1>15, <2>1
  <1>17. /\ \A d \in active : d # e => d \in pack.active
         /\ \A d \in Evidence \ active : d # e => d \notin pack.active
    OBVIOUS
  <1>18. \E floor \in Nat :
            /\ \A d \in todo : given[d] = floor
            /\ \A d \in active \ todo : given[d] = floor + share
            /\ \A d \in Evidence \ active : given[d] <= floor + share
    <2>1. \A d \in Evidence \ active : given[d] <= base + pack.share
      <3> HIDE DEF active, given
      <3> QED BY <1>7, <1>15, <1>16, <1>17
    <2>2. CASE ended
      <3>1. todo = active
        BY <2>2
      <3>2. \A d \in active : given[d] = base + pack.share
        <4>1. \A d \in active : d # e => d \in pack.active \ pack.todo
          BY <1>17, <2>2
        <4> HIDE DEF active, given
        <4> QED BY <1>7, <1>13, <1>15, <1>16, <4>1
      <3>3. \A d \in Evidence \ active : given[d] <= base + pack.share + share
        <4>1. \A d \in Evidence : given[d] \in Nat
          BY <1>7 DEF Counts
        <4> HIDE DEF active, given, share
        <4> QED BY <1>4, <1>12, <2>1, <4>1
      <3>4. base + pack.share \in Nat
        BY <1>4
      <3> HIDE DEF active, given, share, todo
      <3> QED BY <3>1, <3>2, <3>3, <3>4
    <2>3. CASE ~ended
      <3>1. todo = pack.todo \ {e} /\ share = pack.share
        BY <2>3
      <3>2. \A d \in todo : given[d] = base
        <4> HIDE DEF given, e, todo
        <4> QED BY <1>7, <1>13, <1>15, <3>1, <2>3, <1>2 DEF PackState
      <3>3. \A d \in active \ todo : given[d] = base + pack.share
        <4>1. \A d \in active \ todo : d # e => d \in pack.active \ pack.todo
          BY <1>17, <3>1
        <4> HIDE DEF active, given, todo
        <4> QED BY <1>7, <1>13, <1>15, <1>16, <4>1
      <3> HIDE DEF active, given, share, todo
      <3> QED BY <2>1, <3>1, <3>2, <3>3
    <2> QED BY <2>2, <2>3
  <1>19. LengthsOf(pack') = LengthsOf(pack)
    BY <1>8 DEF LengthsOf
  <1> HIDE DEF e, length, lacks, amount, active, left, ended, given, todo, share
  <1>20. RoundInv(pack)'
    <2>1. \E floor \in Nat : Level(pack', floor)
      BY <1>8, <1>18 DEF Level
    <2> QED BY <1>8, <1>10, <1>11, <1>12, <1>13, <1>19, <2>1 DEF RoundInv
  <1>21. BudgetInv(pack)'
    <2>1. SumOver(given) = SumOver(pack.given) + amount
      BY <1>3, <1>4, <1>6, SumChanged DEF given
    <2>2. SumOver(given) + left = SumOver(pack.given) + pack.remaining
      BY <1>4, <1>6, <2>1, SumIsCount DEF left
    <2> QED BY <1>2, <1>8, <2>2 DEF BudgetInv
  <1>22. PackingTypeOK'
    <2>1. pack' = [pack EXCEPT !.given = given, !.remaining = left, !.active = active,
                               !.todo = todo, !.share = share]
      BY <1>1 DEF given
    <2>2. given \in [Evidence -> Nat] /\ left \in Int /\ share \in Nat
          /\ active \in SUBSET Evidence /\ todo \in SUBSET Evidence
      BY <1>7, <1>10, <1>12, <1>13 DEF Counts
    <2> QED BY <1>2, <2>1, <2>2 DEF PackingTypeOK, PackState
  <1> QED BY <1>1, <1>8, <1>20, <1>21, <1>22 DEF PackingInv, PromptFitsBudget

LEMMA IdleKeeps == PackingInit => PackingInv
  <1>1. NoText \in [Evidence -> Nat] /\ NoText \in [Evidence -> Lengths]
    BY PackingAssumption DEF NoText
  <1>2. (CHOOSE b \in Budgets : TRUE) \in Budgets
    BY PackingAssumption
  <1> QED BY <1>1, <1>2 DEF PackingInit, PackingInv, PackingTypeOK, PackState, IdlePack,
                            PromptFitsBudget

LEMMA ServePromptKeeps == ASSUME ServePrompt PROVE PackingInv'
  <1>1. NoText \in [Evidence -> Nat] /\ NoText \in [Evidence -> Lengths]
    BY PackingAssumption DEF NoText
  <1>2. (CHOOSE b \in Budgets : TRUE) \in Budgets
    BY PackingAssumption
  <1> QED BY <1>1, <1>2 DEF ServePrompt, PackingInv, PackingTypeOK, PackState, IdlePack,
                            PromptFitsBudget

LEMMA PackKeeps ==
  ASSUME NEW budget \in Budgets, NEW child \in [Evidence -> Lengths],
         NEW parent \in [Evidence -> Lengths], Pack(budget, child, parent)
  PROVE  PackingInv'
  <1> DEFINE active == {e \in Evidence : child[e] > 0}
             share  == Share(budget, active)
  <1>1. pack' = [pc |-> "children", budget |-> budget, child |-> child, parent |-> parent,
                 given |-> NoText, active |-> active, todo |-> active, share |-> share,
                 remaining |-> budget, chunk |-> NoText, section |-> NoText]
    BY DEF Pack, Enter, IdlePack, Round
  <1>2. budget \in Nat /\ active \subseteq Evidence
    BY PackingAssumption
  <1>3. share \in Nat
    <2> HIDE DEF active
    <2> QED BY <1>2, ShareFits
  <1>4. NoText \in [Evidence -> Nat]
    BY SumOfNothing DEF Counts
  <1>5. RoundInv(pack)'
    <2>1. LengthsOf(pack') = child
      BY <1>1 DEF LengthsOf
    <2> QED BY <1>1, <1>2, <2>1, RoundBegins DEF active
  <1>6. BudgetInv(pack)'
    BY <1>1, <1>2, SumOfNothing DEF BudgetInv
  <1>7. PackingTypeOK'
    <2> HIDE DEF active, share
    <2> QED BY <1>1, <1>2, <1>3, <1>4 DEF PackingTypeOK, PackState
  <1> QED BY <1>1, <1>5, <1>6, <1>7 DEF PackingInv, PromptFitsBudget

(* What is given never exceeds what the budget had.                        *)
LEMMA ShareParentsKeeps == ASSUME PackingInv, ShareParents PROVE PackingInv'
  <1> DEFINE chunk  == [e \in Evidence |-> WindowLength(pack.child[e], pack.given[e])]
             left   == pack.budget - SumOver(chunk)
             overhead == ParentOverhead * Cardinality({e \in Evidence : pack.parent[e] > 0})
             room   == IF left > overhead THEN left - overhead ELSE 0
             active == {e \in Evidence : pack.parent[e] > 0}
             share  == Share(room, active)
  <1>1. /\ pack.pc = "children" /\ pack \in PackState
        /\ RoundInv(pack) /\ BudgetInv(pack)
    BY DEF ShareParents, PackingInv, PackingTypeOK
  <1>2. pack' = [pc |-> "parents", budget |-> pack.budget, child |-> pack.child,
                 parent |-> pack.parent, given |-> NoText, active |-> active,
                 todo |-> active, share |-> share, remaining |-> room,
                 chunk |-> chunk, section |-> pack.section]
    BY <1>1 DEF ShareParents, Enter, Round, PackState
  <1>3. pack.budget \in Nat /\ pack.remaining \in Nat /\ pack.given \in Counts
        /\ pack.parent \in [Evidence -> Lengths] /\ pack.child \in [Evidence -> Nat]
    <2>1. pack.remaining \in Int /\ pack.remaining >= 0
      BY <1>1 DEF PackState, RoundInv
    <2>2. pack.budget \in Budgets /\ pack.child \in [Evidence -> Lengths]
          /\ pack.parent \in [Evidence -> Lengths] /\ pack.given \in [Evidence -> Nat]
      BY <1>1 DEF PackState
    <2>3. pack.child \in [Evidence -> Nat]
      BY <2>2, PackingAssumption
    <2>4. pack.budget \in Nat
      BY <2>2, PackingAssumption
    <2>5. pack.remaining \in Nat
      BY <2>1
    <2> QED BY <2>2, <2>3, <2>4, <2>5 DEF Counts
  <1>4. chunk \in Counts /\ \A e \in Evidence : chunk[e] <= pack.given[e]
    BY <1>3 DEF WindowLength, Counts
  <1> HIDE DEF chunk
  <1>5. left \in Nat /\ SumOver(chunk) \in Nat
    <2>1. SumOver(chunk) \in Nat /\ SumOver(pack.given) \in Nat
          /\ SumOver(chunk) <= SumOver(pack.given)
      BY <1>3, <1>4, SumMonotonic, SumIsCount
    <2>2. SumOver(pack.given) + pack.remaining <= pack.budget
      BY <1>1 DEF BudgetInv
    <2> QED BY <1>3, <2>1, <2>2
  <1>6. overhead \in Nat
    <2>1. Cardinality({e \in Evidence : pack.parent[e] > 0}) \in Nat
      <3>1. {e \in Evidence : pack.parent[e] > 0} \subseteq Evidence
        OBVIOUS
      <3> QED BY <3>1, EvidencePositions, FS_Subset, FS_CardinalityType
    <2>2. ParentOverhead \in Nat
      BY PackingAssumption DEF ParentOverhead
    <2> QED BY <2>1, <2>2
  <1>7. room \in Nat /\ active \subseteq Evidence
    <2> HIDE DEF overhead, left
    <2> QED BY <1>5, <1>6
  <1> HIDE DEF left, overhead, room
  <1>8. share \in Nat
    <2> HIDE DEF active
    <2> QED BY <1>7, ShareFits
  <1>9. RoundInv(pack)'
    <2>1. LengthsOf(pack') = pack.parent
      BY <1>2 DEF LengthsOf
    <2> QED BY <1>2, <1>3, <1>7, <2>1, RoundBegins DEF active
  <1>10. BudgetInv(pack)'
    BY <1>2, <1>3, <1>5 DEF BudgetInv, left
  <1>11. PackingTypeOK'
    <2>1. NoText \in [Evidence -> Nat] /\ chunk \in [Evidence -> Nat]
      BY <1>4, SumOfNothing DEF Counts
    <2> HIDE DEF active, share
    <2> QED BY <1>1, <1>2, <1>7, <1>8, <2>1 DEF PackingTypeOK, PackState
  <1> QED BY <1>2, <1>9, <1>10, <1>11 DEF PackingInv, PromptFitsBudget

-----------------------------------------------------------------------------
(* The loop of the sections: what the sections before it cost, and what is *)
(* left, is what there was; the sections to come cost nothing yet.         *)
SectionCost(section) ==
    [e \in Evidence |-> IF section[e] > 0 THEN ParentOverhead + section[e] ELSE 0]

LEMMA CostIsCount ==
  ASSUME NEW section, section \in Counts
  PROVE  /\ SectionCost(section) \in Counts
         /\ \A e \in Evidence : SectionCost(section)[e] =
                IF section[e] > 0 THEN ParentOverhead + section[e] ELSE 0
  <1>1. ParentOverhead \in Nat
    BY PackingAssumption DEF ParentOverhead
  <1>2. \A e \in Evidence : section[e] \in Nat
    BY DEF Counts
  <1> QED BY <1>1, <1>2 DEF SectionCost, Counts

LEMMA SectionsFit ==
  ASSUME PackingTypeOK, NEW start \in Nat, start = pack.budget - SumOver(pack.chunk)
  PROVE  SectionLengths \in Counts /\ SumOver(SectionCost(SectionLengths)) <= start
  <1> DEFINE States == [left : Nat, section : Counts]
             first == [left |-> start, section |-> NoText]
             Room(g) == IF g.left > ParentOverhead THEN g.left - ParentOverhead ELSE 0
             Part(e, g) == WindowLength(pack.parent[e],
                              IF pack.given[e] < Room(g) THEN pack.given[e] ELSE Room(g))
             After(e, g) ==
               [left |-> g.left - (IF Part(e, g) > 0 THEN ParentOverhead + Part(e, g) ELSE 0),
                section |-> [g.section EXCEPT ![e] = Part(e, g)]]
             Step == [x \in (1..N) \X States |-> After(x[1], x[2])]
             Defines(step) == step = [e \in {0} \cup Evidence |->
               IF e = 0 THEN first ELSE After(e, step[e - 1])]
  <1>1. /\ ParentOverhead \in Nat /\ N \in Nat /\ pack.given \in [1..N -> Nat]
        /\ pack.parent \in [1..N -> Nat] /\ first \in States
    <2>1. ParentOverhead \in Nat /\ first \in States
      BY PackingAssumption, SumOfNothing DEF ParentOverhead
    <2>2. pack.given \in [Evidence -> Nat] /\ pack.parent \in [Evidence -> Nat]
      BY PackingAssumption DEF PackingTypeOK, PackState
    <2> QED BY <2>1, <2>2, EvidencePositions
  <1>2. ASSUME NEW e \in 1..N, NEW g \in States
        PROVE  /\ Part(e, g) \in Nat
               /\ Part(e, g) > 0 => ParentOverhead + Part(e, g) <= g.left
    <2>1. PICK room \in Nat : room = Room(g) /\ (room > 0 => ParentOverhead + room <= g.left)
      BY <1>1
    <2>2. PICK length \in Nat, given \in Nat : length = pack.parent[e] /\ given = pack.given[e]
      BY <1>1
    <2>3. Part(e, g) = WindowLength(length, IF given < room THEN given ELSE room)
      BY <2>1, <2>2
    <2>4. Part(e, g) \in Nat /\ Part(e, g) <= room
      <3> HIDE DEF Part
      <3> QED BY <2>1, <2>2, <2>3 DEF WindowLength
    <2>5. g.left \in Nat
      OBVIOUS
    <2> HIDE DEF Part
    <2> QED BY <1>1, <2>1, <2>4, <2>5
  <1>3. ASSUME NEW e \in 1..N, NEW g \in States PROVE After(e, g) \in States
    <2>1. Part(e, g) \in Nat /\ (Part(e, g) > 0 => ParentOverhead + Part(e, g) <= g.left)
      BY <1>2
    <2>2. e \in Evidence
      BY EvidencePositions
    <2> HIDE DEF Part
    <2> QED BY <1>1, <2>1, <2>2 DEF Counts
  <1>4. \A e \in 1..N, g \in States : Step[<<e, g>>] = After(e, g)
    <2> HIDE DEF After, States
    <2> QED OBVIOUS
  <1>5. Step \in LoopBody(N, States)
    <2> HIDE DEF After, States
    <2> QED BY <1>3 DEF LoopBody
  <1>6. PICK step : IsLoop(step, N, States, first, Step)
    <2> HIDE DEF Step, States, first
    <2> QED BY <1>1, <1>5, LoopRuns
  <1>7. /\ step \in [0..N -> States] /\ step[0] = first
        /\ \A e \in 1..N : step[e - 1] \in States /\ step[e] = After(e, step[e - 1])
    <2> HIDE DEF Step, States, After, first
    <2> QED BY <1>4, <1>6 DEF IsLoop
  <1>8. Defines(step)
    <2> HIDE DEF States, After, first
    <2> QED BY <1>7, EvidencePositions
  <1>9. ASSUME NEW other, Defines(other) PROVE other = step
    <2> HIDE DEF States, After, first, Step
    <2>1. other = [i \in 0..N |-> other[i]] /\ other[0] = first
      BY <1>9, EvidencePositions
    <2>2. \A i \in 1..N : other[i] = After(i, other[i - 1])
      BY <1>9, EvidencePositions
    <2>3. Follows(other, N, States, first, Step)
      BY <1>4, <2>1, <2>2 DEF Follows
    <2> QED BY <1>1, <1>6, <2>3, LoopIsUnique
  <1>10. SectionLengths = (CHOOSE other : Defines(other))[N].section
    BY DEF SectionLengths, N
  <1>11. SectionLengths = step[N].section
    <2> HIDE DEF Defines
    <2> QED BY <1>8, <1>9, <1>10
  <1> DEFINE Good == {i \in 0..N : /\ step[i].left + SumOver(SectionCost(step[i].section)) = start
                                   /\ \A e \in i + 1..N : step[i].section[e] = 0}
  <1>12. 0 \in Good
    <2>1. SectionCost(NoText) = NoText
      BY DEF SectionCost, NoText
    <2>2. \A e \in 0 + 1..N : NoText[e] = 0
      BY EvidencePositions DEF NoText
    <2> QED BY <1>1, <1>7, <2>1, <2>2, SumOfNothing
  <1>13. ASSUME NEW i \in 1..N, i - 1 \in Good PROVE i \in Good
    <2>1. PICK g : g \in States /\ g = step[i - 1] /\ step[i] = After(i, g)
      BY <1>7
    <2>2. PICK part \in Nat : /\ part > 0 => ParentOverhead + part <= g.left
                              /\ step[i].section = [g.section EXCEPT ![i] = part]
                              /\ step[i].left = g.left - (IF part > 0 THEN ParentOverhead + part ELSE 0)
      <3>1. Part(i, g) \in Nat /\ (Part(i, g) > 0 => ParentOverhead + Part(i, g) <= g.left)
        BY <1>2, <2>1
      <3> HIDE DEF Part, States
      <3> QED BY <2>1, <3>1
    <2>3. /\ g.left \in Nat /\ g.section \in Counts
          /\ g.left + SumOver(SectionCost(g.section)) = start
          /\ \A e \in i..N : g.section[e] = 0
      <3>1. (i - 1) + 1 = i
        OBVIOUS
      <3> QED BY <1>13, <2>1, <3>1
    <2> DEFINE a == IF part > 0 THEN ParentOverhead + part ELSE 0
               cost == SectionCost(g.section)
    <2>4. a \in Nat /\ i \in Evidence
      BY <1>1, EvidencePositions
    <2>5. cost \in Counts /\ cost[i] = 0
      <3>1. ~(g.section[i] > 0)
        BY <2>3, EvidencePositions
      <3> QED BY <2>3, <2>4, <3>1, CostIsCount
    <2>6. SectionCost([g.section EXCEPT ![i] = part]) = [cost EXCEPT ![i] = cost[i] + a]
      <3>1. cost[i] + a = a
        BY <2>4, <2>5
      <3>2. cost = [e \in Evidence |-> IF g.section[e] > 0 THEN ParentOverhead + g.section[e] ELSE 0]
        BY DEF SectionCost
      <3> DEFINE section == [g.section EXCEPT ![i] = part]
      <3>3. /\ section[i] = part
            /\ \A e \in Evidence \ {i} : section[e] = g.section[e]
        BY <2>3, <2>4 DEF Counts
      <3>4. SectionCost(section) = [e \in Evidence |->
               IF section[e] > 0 THEN ParentOverhead + section[e] ELSE 0]
        BY DEF SectionCost
      <3> HIDE DEF cost, section
      <3>5. SectionCost(section)[i] = a
        BY <2>4, <3>3, <3>4
      <3>6. \A e \in Evidence \ {i} : SectionCost(section)[e] = cost[e]
        BY <3>2, <3>3, <3>4
      <3>7. SectionCost(section) = [e \in Evidence |-> SectionCost(section)[e]]
        BY <3>4
      <3> HIDE DEF a
      <3>8. SectionCost(section) = [cost EXCEPT ![i] = cost[i] + a]
        BY <2>4, <2>5, <3>1, <3>5, <3>6, <3>7 DEF Counts
      <3> QED BY <3>8 DEF section
    <2>7. SumOver(SectionCost(step[i].section)) = SumOver(cost) + a /\ SumOver(cost) \in Nat
      <3> HIDE DEF cost, a
      <3> QED BY <2>2, <2>4, <2>5, <2>6, SumChanged, SumIsCount
    <2>8. step[i].left + SumOver(SectionCost(step[i].section)) = start
      <3>1. step[i].left = g.left - a
        BY <2>2
      <3> HIDE DEF a
      <3> QED BY <2>3, <2>4, <2>7, <3>1
    <2>9. \A e \in i + 1..N : step[i].section[e] = 0
      BY <2>2, <2>3, EvidencePositions DEF Counts
    <2> QED BY <2>8, <2>9
  <1>14. N \in Good
    <2> HIDE DEF Good
    <2>1. \A i \in 1..N : i - 1 \in Good => i \in Good
      BY <1>13
    <2>2. 0..N \subseteq Good
      BY <1>1, <1>12, <2>1, EveryRound
    <2> QED BY <1>1, <2>2
  <1>15. step[N].left \in Nat /\ step[N].section \in Counts
    BY <1>1, <1>7
  <1>16. SumOver(SectionCost(step[N].section)) \in Nat
    <2>1. SectionCost(step[N].section) \in Counts
      BY <1>1, <1>15 DEF SectionCost, Counts
    <2> QED BY <2>1, SumIsCount
  <1> QED BY <1>11, <1>14, <1>15, <1>16

LEMMA FinishPackKeeps == ASSUME PackingInv, FinishPack PROVE PackingInv'
  <1>1. pack.pc = "parents" /\ pack \in PackState /\ SumOver(pack.chunk) <= pack.budget
    BY DEF FinishPack, PackingInv, PackingTypeOK, BudgetInv
  <1>2. pack.chunk \in Counts /\ pack.budget \in Nat /\ SumOver(pack.chunk) \in Nat
    BY <1>1, PackingAssumption, SumIsCount DEF PackState, Counts
  <1> DEFINE section == SectionLengths
             cost == SectionCost(section)
  <1>3. section \in Counts /\ SumOver(cost) <= pack.budget - SumOver(pack.chunk)
    <2>1. pack.budget - SumOver(pack.chunk) \in Nat /\ PackingTypeOK
      BY <1>1, <1>2 DEF PackingInv
    <2> QED BY <2>1, SectionsFit
  <1>4. /\ pack'.pc = "packed" /\ pack'.budget = pack.budget /\ pack'.chunk = pack.chunk
        /\ pack'.section = section
        /\ pack' = [pack EXCEPT !.pc = "packed", !.section = section]
    BY <1>1 DEF FinishPack, PackState
  <1> HIDE DEF section
  <1>5. PackingTypeOK'
    BY <1>1, <1>3, <1>4 DEF PackingTypeOK, PackState, Counts
  <1> DEFINE included == [e \in Evidence |-> IncludedChars(e)']
             most == [e \in Evidence |-> pack.chunk[e] + cost[e]]
  <1>6. cost \in Counts /\ ParentOverhead = Prefix + 1 /\ Prefix \in Nat
        /\ cost = [e \in Evidence |-> IF section[e] > 0 THEN ParentOverhead + section[e] ELSE 0]
    BY <1>3, PackingAssumption DEF SectionCost, Counts, ParentOverhead
  <1>7. /\ included \in Counts /\ most \in Counts
        /\ \A e \in Evidence : included[e] <= most[e]
    <2>1. ASSUME NEW e \in Evidence
          PROVE  /\ IncludedChars(e)' \in Nat /\ pack.chunk[e] + cost[e] \in Nat
                 /\ IncludedChars(e)' <= pack.chunk[e] + cost[e]
      <3>1. section[e] \in Nat /\ pack.chunk[e] \in Nat
        BY <1>2, <1>3 DEF Counts
      <3>2. cost[e] = IF section[e] > 0 THEN ParentOverhead + section[e] ELSE 0
        BY <1>6
      <3>3. IncludedChars(e)' = pack.chunk[e] + (IF section[e] = 0 THEN 0
                ELSE Prefix + section[e] + (IF pack.chunk[e] > 0 THEN 1 ELSE 0))
        BY <1>4 DEF IncludedChars
      <3> HIDE DEF cost
      <3> QED BY <1>6, <3>1, <3>2, <3>3
    <2> HIDE DEF cost
    <2> QED BY <2>1 DEF Counts
  <1> HIDE DEF cost
  <1>8. SumOver(included) <= SumOver(most) /\ SumOver(most) = SumOver(pack.chunk) + SumOver(cost)
    <2>1. SumOver(most) = SumOver(pack.chunk) + SumOver(cost)
      BY <1>2, <1>6, SumOfSums
    <2> HIDE DEF included, most
    <2> QED BY <1>7, <2>1, SumMonotonic
  <1>9. SumOver(included) <= pack.budget
    <2>1. SumOver(included) \in Nat /\ SumOver(cost) \in Nat
      <3> HIDE DEF included, most
      <3> QED BY <1>6, <1>7, SumIsCount
    <2> HIDE DEF included, most
    <2> QED BY <1>2, <1>3, <1>8, <2>1 DEF cost
  <1>10. PromptFitsBudget'
    BY <1>4, <1>9 DEF PromptFitsBudget
  <1> QED BY <1>4, <1>5, <1>10 DEF PackingInv

LEMMA PackingStepKeeps == PackingInv /\ [PackingNext]_pack => PackingInv'
  <1> SUFFICES ASSUME PackingInv, [PackingNext]_pack PROVE PackingInv'
    OBVIOUS
  <1>1. CASE \E budget \in Budgets, child, parent \in [Evidence -> Lengths] :
                Pack(budget, child, parent)
    BY <1>1, PackKeeps
  <1>2. CASE Allocate
    BY <1>2, AllocateKeeps
  <1>3. CASE ShareParents
    BY <1>3, ShareParentsKeeps
  <1>4. CASE FinishPack
    BY <1>4, FinishPackKeeps
  <1>5. CASE ServePrompt
    BY <1>5, ServePromptKeeps
  <1>6. CASE UNCHANGED pack
    BY <1>6 DEF PackingInv, PackingTypeOK, PromptFitsBudget, RoundInv, BudgetInv, Level,
                LengthsOf, IncludedChars
  <1> QED BY <1>1, <1>2, <1>3, <1>4, <1>5, <1>6 DEF PackingNext

(* What the comment of pack_prompt promises of total_evidence_chars: what  *)
(* the chunks and the sections take of the prompt, prefixes and newlines   *)
(* included, is within the budget, for every number of chunks, all texts   *)
(* and all budgets.                                                        *)
THEOREM PromptFits == PackingSpec => []PromptFitsBudget
  <1>1. PackingInv => PromptFitsBudget
    BY DEF PackingInv
  <1> QED BY <1>1, IdleKeeps, PackingStepKeeps, PTL DEF PackingSpec

(* _fair_allocations starves no source: when it ends, one that did not get *)
(* all of its text has at most one character less than any other.          *)
THEOREM SharesAreFair == PackingSpec => []FairShare
  <1>1. ASSUME PackingInv PROVE FairShare
    <2>1. SUFFICES ASSUME pack.pc \in {"children", "parents"}, ~Sharing,
                          NEW e \in Evidence, NEW d \in Evidence,
                          pack.given[e] < LengthsOf(pack)[e]
                   PROVE  pack.given[d] <= pack.given[e] + 1
      BY DEF FairShare
    <2>2. RoundInv(pack) /\ pack \in PackState
      BY <1>1, <2>1 DEF PackingInv, PackingTypeOK
    <2>3. pack.active # {} /\ pack.todo # {} /\ e \in pack.active
      BY <2>1, <2>2 DEF RoundInv
    <2>4. pack.remaining = 0
      BY <2>1, <2>2, <2>3 DEF Sharing, RoundInv, PackState
    <2>5. pack.share = 1
      <3>1. IsFiniteSet(pack.todo) /\ Cardinality(pack.todo) \in Nat /\ Cardinality(pack.todo) # 0
        <4>1. pack.todo \subseteq Evidence
          BY <2>2 DEF PackState
        <4>2. IsFiniteSet(pack.todo)
          BY <4>1, EvidencePositions, FS_Subset
        <4> QED BY <2>3, <4>2, FS_CardinalityType, FS_EmptySet
      <3>2. pack.share \in Nat /\ pack.share >= 1
        BY <2>2 DEF RoundInv, PackState
      <3>3. pack.share > 1 => pack.share * Cardinality(pack.todo) <= 0
        BY <2>2, <2>4 DEF RoundInv
      <3> QED BY <3>1, <3>2, <3>3
    <2>6. PICK base \in Nat : Level(pack, base)
      BY <2>2 DEF RoundInv
    <2>7. pack.given[e] \in Nat /\ pack.given[d] \in Nat
      BY <2>2 DEF PackState
    <2>8. pack.given[e] >= base
      <3>1. pack.given[e] = base \/ pack.given[e] = base + 1
        BY <2>3, <2>5, <2>6 DEF Level
      <3> QED BY <2>7, <3>1
    <2>9. pack.given[d] <= base + 1
      <3>1. pack.given[d] = base \/ pack.given[d] = base + 1 \/ pack.given[d] <= base + 1
        BY <2>5, <2>6 DEF Level
      <3> QED BY <2>7, <3>1
    <2> QED BY <2>7, <2>8, <2>9
  <1> QED BY <1>1, IdleKeeps, PackingStepKeeps, PTL DEF PackingSpec
=============================================================================
