---------------------------- MODULE ModelService ----------------------------
(***************************************************************************)
(* ModelService, the Ollama runtime adapter behind it and the model routes *)
(* of /v1/system: the snapshot of the settings drawer, model pulls, the    *)
(* validation of the model a query names and the probe that records how    *)
(* its generation ended.                                                   *)
(*                                                                         *)
(* Every use reads the runtime twice (check_runtime, then the list of      *)
(* installed models), and the runtime changes between the two.             *)
(***************************************************************************)
EXTENDS Naturals, FiniteSets

CONSTANTS Catalog,          \* the configured models, the generation model among them
          GenerationModel,
          Pulls             \* pull ids, each used once

ASSUME ModelServiceAssumption == GenerationModel \in Catalog

VARIABLES runtime,   \* Ollama: [up, installed]
          probes,    \* _generation_probes
          pulls,     \* model_pull_store and its tasks
          reader,    \* a request that reads the runtime in two steps
          lastEnded  \* history: how the last generation of each model ended

modelVars == <<runtime, probes, pulls, reader, lastEnded>>

NoPull   == [status |-> "none", model |-> GenerationModel, errorLine |-> FALSE, installed |-> FALSE]
(* listed: what the second read listed; was: history, what was installed   *)
(* at some moment of the request.                                          *)
NoReader == [pc |-> "idle", purpose |-> "none", model |-> GenerationModel,
             available |-> FALSE, listed |-> {}, was |-> {}]

ModelsInit ==
    /\ runtime = [up |-> TRUE, installed |-> {GenerationModel}]
    /\ probes = [m \in Catalog |-> "installed_unverified"]
    /\ pulls = [p \in Pulls |-> NoPull]
    /\ reader = NoReader
    /\ lastEnded = [m \in Catalog |-> "none"]

-----------------------------------------------------------------------------
(* The runtime is stopped or started, or a model is removed from it.       *)
RuntimeChanges(after) ==
    /\ runtime # after /\ after.installed \subseteq runtime.installed
    /\ runtime' = after
    /\ UNCHANGED <<probes, pulls, reader, lastEnded>>

-----------------------------------------------------------------------------
(* The first read: a profile, a pull or a query that names a model of the  *)
(* catalog (another is refused before anything is read).                   *)
BeginRead(purpose, model) ==
    /\ reader.pc = "idle"
    /\ reader' = [pc |-> "checked", purpose |-> purpose, model |-> model,
                  available |-> runtime.up, listed |-> {}, was |-> runtime.installed]
    /\ UNCHANGED <<runtime, probes, pulls, lastEnded>>

(* The second read; a listing that fails makes the runtime unavailable.    *)
ListModels ==
    /\ reader.pc = "checked" /\ reader.purpose # "pull"
    /\ reader' = [reader EXCEPT !.pc = "listed",
                                !.available = @ /\ runtime.up,
                                !.listed = IF reader.available /\ runtime.up
                                           THEN runtime.installed ELSE {},
                                !.was = @ \cup runtime.installed]
    /\ UNCHANGED <<runtime, probes, pulls, lastEnded>>

(* Mutant of Readiness: the probe is trusted without the list.             *)
ReadinessByProbe(m) == IF reader.available THEN probes[m] ELSE "runtime_unavailable"

(* _readiness_for.                                                         *)
Readiness(m) ==
    IF ~reader.available THEN "runtime_unavailable"
    ELSE IF m \notin reader.listed THEN "not_installed" ELSE probes[m]

(* The snapshot is sent.                                                   *)
SendProfile ==
    /\ reader.pc = "listed" /\ reader.purpose = "profile"
    /\ reader' = NoReader
    /\ UNCHANGED <<runtime, probes, pulls, lastEnded>>

(* validate_generation_model said ready, or the request is refused.        *)
ModelValidated ==
    /\ reader.pc = "listed" /\ reader.purpose = "query"
    /\ reader' = IF reader.available /\ reader.model \in reader.listed
                 THEN [reader EXCEPT !.pc = "asking"] ELSE NoReader
    /\ UNCHANGED <<runtime, probes, pulls, lastEnded>>

(* A query that names no model uses the configured one, unvalidated.       *)
AskDefault ==
    /\ reader.pc = "idle"
    /\ reader' = [NoReader EXCEPT !.pc = "asking", !.purpose = "default"]
    /\ UNCHANGED <<runtime, probes, pulls, lastEnded>>

(* Mutant of ProbeAfter: a success is recorded only if the model was named.*)
ProbeAfterNamedOnly(before, outcome, named) ==
    IF ~named \/ outcome = "refused" THEN before
    ELSE IF outcome = "answered" THEN "ready" ELSE "last_probe_failed"

(* _run_query: an answer tells which model gave it; a failure is recorded  *)
(* only for a model that the request named.                                *)
ProbeAfter(before, outcome, named) ==
    CASE outcome = "answered"            -> "ready"
      [] outcome = "llm_failed" /\ named -> "last_probe_failed"
      [] OTHER                           -> before

(* The query ends: answered needs the model in a running runtime.          *)
AskEnds(outcome) ==
    /\ reader.pc = "asking"
    /\ outcome = "answered" => runtime.up /\ reader.model \in runtime.installed
    /\ probes' = [probes EXCEPT ![reader.model] = ProbeAfter(@, outcome, reader.purpose = "query")]
    /\ lastEnded' = IF outcome = "refused" THEN lastEnded
                    ELSE [lastEnded EXCEPT ![reader.model] = outcome]
    /\ reader' = NoReader
    /\ UNCHANGED <<runtime, pulls>>

-----------------------------------------------------------------------------
(* validate_model_pull reads only once, and the pull is recorded.          *)
StartPull(p) ==
    /\ reader.pc = "checked" /\ reader.purpose = "pull"
    /\ pulls[p].status = "none"
    /\ reader' = NoReader
    /\ pulls' = IF reader.available
                THEN [pulls EXCEPT ![p].status = "queued", ![p].model = reader.model]
                ELSE pulls
    /\ UNCHANGED <<runtime, probes, lastEnded>>

BeginPull(p) ==
    /\ pulls[p].status = "queued"
    /\ pulls' = [pulls EXCEPT ![p].status = "pulling"]
    /\ UNCHANGED <<runtime, probes, reader, lastEnded>>

(* A line of the stream that reports an error: _safe_progress drops the    *)
(* field and the stream goes on.                                           *)
ErrorLine(p) ==
    /\ pulls[p].status = "pulling" /\ ~pulls[p].errorLine
    /\ pulls' = [pulls EXCEPT ![p].errorLine = TRUE]
    /\ UNCHANGED <<runtime, probes, reader, lastEnded>>

(* _run_pull: an exception fails the pull, the end of the stream completes *)
(* it.                                                                     *)
StatusAfterPull(ends) == IF ends THEN "completed" ELSE "failed"

(* The stream ends (the runtime has installed the model unless it reported *)
(* an error) or breaks off.                                                *)
PullEnds(p, ends) ==
    /\ pulls[p].status = "pulling"
    /\ ends => runtime.up
    /\ LET installs == ends /\ ~pulls[p].errorLine
       IN  /\ runtime' = IF installs THEN [runtime EXCEPT !.installed = @ \cup {pulls[p].model}]
                         ELSE runtime
           /\ pulls' = [pulls EXCEPT ![p].status = StatusAfterPull(ends), ![p].installed = installs]
    /\ UNCHANGED <<probes, reader, lastEnded>>

ModelsNext ==
    \/ \E up \in BOOLEAN, installed \in SUBSET Catalog :
          RuntimeChanges([up |-> up, installed |-> installed])
    \/ \E purpose \in {"profile", "pull", "query"}, m \in Catalog : BeginRead(purpose, m)
    \/ ListModels \/ SendProfile \/ ModelValidated \/ AskDefault
    \/ \E outcome \in {"answered", "refused", "llm_failed"} : AskEnds(outcome)
    \/ \E p \in Pulls : \/ StartPull(p) \/ BeginPull(p) \/ ErrorLine(p)
                        \/ \E ends \in BOOLEAN : PullEnds(p, ends)

ModelsSpec == ModelsInit /\ [][ModelsNext]_modelVars

-----------------------------------------------------------------------------
(* A failed probe is news: no generation of the model has succeeded since. *)
FailedProbeIsNews ==
    \A m \in Catalog : probes[m] = "last_probe_failed" => lastEnded[m] = "llm_failed"

(* What the settings drawer shows is true: a model it offers was installed *)
(* while the profile was made, whatever its last probe said, and a pull    *)
(* shown as completed has installed its model, unless the stream reported  *)
(* an error that the adapter drops (see ErrorLine).                        *)
DrawerIsTruthful ==
    /\ reader.pc = "listed" =>
          \A m \in Catalog :
             Readiness(m) \in {"installed_unverified", "ready", "last_probe_failed"} =>
                m \in reader.was
    /\ \A p \in Pulls :
          pulls[p].status = "completed" /\ ~pulls[p].errorLine => pulls[p].installed
=============================================================================
