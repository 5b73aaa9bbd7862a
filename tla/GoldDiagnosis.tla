---------------------------- MODULE GoldDiagnosis ----------------------------
(***************************************************************************)
(* GoldDiagnosticService: a finished run compared with a trusted case, or  *)
(* with evidence that a user picked.  Of the corpus it reads the trusted   *)
(* chunks only; from them, the run's result and its trace it names the     *)
(* first stage at which a required fact was lost.                          *)
(*                                                                         *)
(* A failed run has no result: only its trace is left.  A retrieval-only   *)
(* run has a result and no trace.                                          *)
(***************************************************************************)
EXTENDS QueryPipeline

CONSTANT Cases   \* curated cases

(* A case.  A locator is the chunks of a page and what the trusted one of  *)
(* them states; facts: the dates, numbers and codes of the expected answer.*)
Case == [expected : {"ANSWERED", "NO_ANSWER", "SECURITY_POLICY"},
         reason   : {"any", "NO_EVIDENCE", "LOW_RELEVANCE", "INSUFFICIENT_COVERAGE"},
         locators : SUBSET [page : SUBSET Sources, text : Items],
         facts    : SUBSET Items,
         claims   : SUBSET Items,
         forbidden : SUBSET Items]

(* find: the chunks of the page that state it, or else those whose section *)
(* does; a primary and its overlap-equivalent alternatives.                *)
Located(locator) ==
    LET near == {s \in locator.page : locator.text \in chunks[s].child}
    IN  IF near # {} THEN near
        ELSE {s \in locator.page : locator.text \in chunks[s].context}

(* resolve: every locator leads to chunks of one section.  (Sections are   *)
(* told apart by their text.)                                              *)
Resolves(case) ==
    \A locator \in case.locators :
        Cardinality({chunks[s].context : s \in Located(locator)}) = 1

Gold(case) == {Located(locator) : locator \in case.locators}

HasResult == run.outcome \in {"answered", "no_answer"}
Error == CASE run.retrievalOnly                -> "RETRIEVAL_ONLY"
           [] run.outcome = "retrieval_failed" -> "pipeline"
           [] run.outcome = "llm_failed"       -> "llm"
           [] OTHER                            -> "none"

(* _actual_fields.                                                         *)
ActualDecision == IF HasResult THEN run.gate.decision ELSE "PIPELINE_FAILED"

(* compare_claims and compare_decision.                                    *)
ClaimsPass(case) ==
    case.claims \subseteq run.answer /\ case.forbidden \cap run.answer = {}
Verdict(case) ==
    LET asExpected ==
          CASE case.expected = "SECURITY_POLICY" ->
                 ActualDecision = "NO_ANSWER" /\ run.gate.reason = "SECURITY_POLICY"
            [] case.expected = "NO_ANSWER" ->
                 ActualDecision = "NO_ANSWER" /\ case.reason \in {"any", run.gate.reason}
            [] case.expected = "ANSWERED" -> ActualDecision = "ANSWERED" /\ ClaimsPass(case)
    IN  IF asExpected THEN "PASS" ELSE "FAIL"

(* _event_mode: only a skipped branch traces the mode; without a result    *)
(* and without such an event it is taken for hybrid.                       *)
ObservedMode ==
    IF HasResult THEN run.found.mode
    ELSE IF events \cap {"dense_retrieval", "sparse_retrieval"} = {"dense_retrieval"}
         THEN "dense"
    ELSE IF events \cap {"dense_retrieval", "sparse_retrieval"} = {"sparse_retrieval"}
         THEN "bm25"
    ELSE "hybrid"

RerankerOn == IF HasResult THEN run.found.reranked
              ELSE events \cap {"reranker", "reranker_running"} # {}

-----------------------------------------------------------------------------
(* _prompt_membership_observed and _blocked_count read the trace.          *)
PromptObserved == "prompt_build" \in events
SafetyBlocked  == "evidence_selection" \in events /\ run.blocked

(* _journey: a row for each locator.  A trusted chunk and its equivalents  *)
(* count as one; the best placed of them that the search saw is followed.  *)
Followed(accepted) ==
    LET kept == accepted \cap Range(run.found.fused)
        seen == accepted \cap Range(run.found.debug)
    IN  IF kept # {} THEN {CHOOSE s \in kept :
                             \A t \in kept : Rank(run.found.fused, s) <= Rank(run.found.fused, t)}
        ELSE IF seen # {} THEN {Min(seen)} ELSE {}

EvidenceIds ==
    IF "evidence_selection" \in events THEN Range(run.found.candidates)
    ELSE IF run.retrievalOnly THEN Range(run.sources) ELSE {}

Journey(gold) ==
    {LET at(list) == Followed(accepted) \cap Range(list) # {}
     IN  [dense    |-> at(run.found.dense),
          bm25     |-> at(run.found.sparse),
          rrf      |-> at(run.found.fused),
          reranker |-> at(run.found.picked),
          evidence |-> accepted \cap EvidenceIds # {},
          prompt   |-> accepted \cap Range(run.found.candidates) # {}] :
        accepted \in gold}

-----------------------------------------------------------------------------
(* _stage_texts.  The trace of a branch carries the text of the chunks,    *)
(* the result that of their sections; where the trace has no text the      *)
(* result's is used.                                                       *)
Seen(stage, list) == [list |-> IF stage \in events THEN list ELSE <<>>, part |-> "child"]
Kept(list, part)  == [list |-> IF HasResult THEN list ELSE <<>>, part |-> part]

(* Python's or: the first text that is not empty.                          *)
FirstText(texts) ==
    LET full == {i \in DOMAIN texts : texts[i].list # <<>>}
    IN  IF full = {} THEN {} ELSE TextOf(chunks, texts[Min(full)].list, texts[Min(full)].part)

(* Mutant of EvidenceText: the chunks without their sections.              *)
EvidenceTextOfChunks == FirstText(<<Kept(run.sources, "child")>>)

(* The evidence is what the response carries as sources.                   *)
EvidenceText == FirstText(<<Kept(run.sources, "context")>>)

(* Mutant of PromptText: a source that is in the prompt counts as a whole. *)
PromptTextByMembership == EvidenceText

(* The fragments that the prompt was packed from.                          *)
PromptText == run.prompt

StageText ==
    LET found  == run.found
        window == Kept(found.window, "context")
        debug  == Kept(found.debug, "child")
        rrf    == <<Seen("rrf_fusion", found.fused), window>>
    IN  [dense    |-> FirstText(<<Seen("dense_retrieval", found.dense), window, debug>>),
         bm25     |-> FirstText(<<Seen("sparse_retrieval", found.sparse), window, debug>>),
         rrf      |-> FirstText(rrf),
         reranker |-> FirstText(IF RerankerOn
                                THEN <<Seen("reranker", found.picked),
                                       Kept(found.candidates, "context")>>
                                ELSE rrf),
         evidence |-> EvidenceText,
         prompt   |-> PromptText,
         final    |-> run.answer]

-----------------------------------------------------------------------------
(* _fact_coverage: a required fact is missing from the text of a stage.    *)
Lost(text, facts, stage) == ~(facts \subseteq text[stage])

(* The first test that holds names the cause.                              *)
FirstCause(tests) == tests[Min({i \in DOMAIN tests : tests[i][1]})][2]

(* _attribute, expected answer with facts: every fact must survive.        *)
FactTests(gold, facts) ==
    LET text  == StageText
        lost(stage) == Lost(text, facts, stage)
        found == text.dense \cup text.bm25
        mode  == ObservedMode
    IN  << <<~(facts \subseteq UNION {chunks[s].child : s \in UNION gold}),
             "DATASET_GOLD_INVALID">>,
           <<mode \in {"dense", "bm25"} /\ lost(mode), "RETRIEVAL_MISS">>,
           <<mode = "hybrid" /\ lost("rrf") /\ ~(facts \subseteq found), "RETRIEVAL_MISS">>,
           <<mode = "hybrid" /\ lost("rrf"), "FUSION_LOSS">>,
           <<HasResult /\ RerankerOn /\ lost("reranker"), "RERANKER_LOSS">>,
           <<lost("evidence") /\ SafetyBlocked, "EVIDENCE_SAFETY_BLOCK">>,
           <<lost("evidence"), "EVIDENCE_SELECTION_LOSS">>,
           <<ActualDecision = "NO_ANSWER", "ANSWERABILITY_FALSE_NEGATIVE">>,
           <<lost("prompt"), "PROMPT_CONSTRUCTION_LOSS">>,
           <<lost("final"), "GENERATION_CLAIM_MISMATCH">> >>

(* A row of the journey is missing in a stage.                             *)
Misses(rows, stage) == \E row \in rows : ~row[stage]

(* The same without facts: every trusted chunk must survive.  First the    *)
(* branches of the mode and the window,                                    *)
RankTests(rows) ==
    LET mode == ObservedMode
    IN  << <<mode \in {"dense", "bm25"} /\ Misses(rows, mode), "RETRIEVAL_MISS">>,
           <<mode = "hybrid" /\ \E row \in rows : ~row.rrf /\ ~row.dense /\ ~row.bm25,
             "RETRIEVAL_MISS">>,
           <<mode = "hybrid" /\ Misses(rows, "rrf"), "FUSION_LOSS">> >>

(* then what became of the window.                                         *)
ChunkTests(rows) ==
    << <<HasResult /\ RerankerOn /\ Misses(rows, "reranker"), "RERANKER_LOSS">>,
       <<Misses(rows, "evidence") /\ SafetyBlocked, "EVIDENCE_SAFETY_BLOCK">>,
       <<Misses(rows, "evidence"), "EVIDENCE_SELECTION_LOSS">>,
       <<ActualDecision = "NO_ANSWER", "ANSWERABILITY_FALSE_NEGATIVE">>,
       <<PromptObserved /\ Misses(rows, "prompt"), "PROMPT_CONSTRUCTION_LOSS">> >>

(* The tests that follow both lists.                                       *)
OutcomeTests ==
    << <<Error = "llm", "GENERATION_DEPENDENCY_FAILURE">>,
       <<Error = "pipeline", "REVIEW_REQUIRED">>,
       <<Error = "RETRIEVAL_ONLY", "PASS">>,
       <<~PromptObserved, "REVIEW_REQUIRED">> >>

(* The first loss of trusted evidence, or else what judges the answer.     *)
FirstLoss(gold, facts, answerTests) ==
    FirstCause((IF facts # {} THEN FactTests(gold, facts)
                ELSE RankTests(Journey(gold)) \o ChunkTests(Journey(gold)))
                 \o OutcomeTests \o answerTests)

(* The claims of a case judge the answer.                                  *)
ClaimTests(case) ==
    << <<Verdict(case) = "PASS", "PASS">>,
       <<ActualDecision = "ANSWERED" /\ case.claims \subseteq run.answer,
         "CORRECT_BUT_UNGROUNDED">>,
       <<ActualDecision = "ANSWERED", "GENERATION_CLAIM_MISMATCH">>,
       <<TRUE, "REVIEW_REQUIRED">> >>

(* _attribute.  NO_ANSWER_CORRECT and SECURITY_POLICY_CORRECT are one cause*)
(* here, CORRECT_REFUSAL.                                                  *)
Attribute(case) ==
    CASE case.expected \in {"NO_ANSWER", "SECURITY_POLICY"} ->
           IF Verdict(case) = "PASS" THEN "CORRECT_REFUSAL" ELSE "REVIEW_REQUIRED"
      [] case.expected = "ANSWERED" /\ case.locators = {} -> "DATASET_GOLD_INVALID"
      [] case.expected = "ANSWERED" /\ case.locators # {} ->
           FirstLoss(Gold(case), case.facts, ClaimTests(case))

(* run_case and compare_existing_case: a retrieval-only run passes no      *)
(* verdict on an answer.                                                   *)
RootCause(case) ==
    IF ~Resolves(case) THEN "DATASET_GOLD_INVALID"
    ELSE IF run.retrievalOnly /\ case.expected = "ANSWERED" /\ Attribute(case) = "PASS"
         THEN "REVIEW_REQUIRED" ELSE Attribute(case)

(* check_answer: every fact of the expected answer must be stated, and the *)
(* rest be alike.  No answer at all is like any expected answer.           *)
CheckAnswer(facts, alike) ==
    LET stated == IF run.outcome = "answered" THEN run.answer ELSE {}
    IN  IF ~(facts \subseteq stated) THEN "FAIL"
        ELSE IF alike \/ run.outcome # "answered" THEN "PASS" ELSE "REVIEW_REQUIRED"

(* compare_existing_trusted_sources: the user picked chunks and wrote an   *)
(* expected answer that states facts; a chunk that is not served any more  *)
(* is not found.                                                           *)
TrustedCause(picked, facts, alike) ==
    LET check == CheckAnswer(facts, alike)
    IN  IF picked = {} \/ ~(picked \subseteq Sources) THEN "DATASET_GOLD_INVALID"
        ELSE FirstLoss({{s} : s \in picked}, facts,
                       << <<check = "PASS", "PASS">>,
                          <<check = "REVIEW_REQUIRED", "REVIEW_REQUIRED">>,
                          <<TRUE, "GENERATION_CLAIM_MISMATCH">> >>)

(* A failed retrieval-only run raises and is not diagnosed.                *)
Diagnosed == run.pc = "done" /\ (run.retrievalOnly => HasResult)

-----------------------------------------------------------------------------
(* The causes that a diagnosis of the run may name, with what it asked     *)
(* for: a curated case, or picked chunks and an expected answer.           *)
Diagnoses ==
    {[facts |-> case.facts, chunks |-> UNION Gold(case), cause |-> RootCause(case),
      claims |-> ClaimsPass(case)] :
        case \in {c \in Cases : c.expected = "ANSWERED"}}
      \cup
    {[facts |-> facts, chunks |-> picked, cause |-> TrustedCause(picked, facts, alike),
      claims |-> TRUE] :
        picked \in IF run.retrievalOnly THEN {} ELSE SUBSET Sources,
        facts \in {case.facts : case \in Cases}, alike \in BOOLEAN}

(* PASS is earned: the prompt stated every required fact and the answer    *)
(* states it, so it is neither invented nor left out; and of the trusted   *)
(* chunks one at least is a source the caller was shown.                   *)
PassMeansGrounded ==
    Diagnosed =>
        \A d \in Diagnoses :
            d.cause = "PASS" =>
                /\ run.outcome = "answered" /\ ~run.retrievalOnly
                /\ d.facts \subseteq run.prompt \cap run.answer
                /\ d.facts \subseteq TextOf(chunks, run.sources, "context")
                /\ d.facts = {} => d.chunks \cap Range(run.sources) # {}

(* What really left each stage, whatever was traced of it.                 *)
Left == LET found == run.found
            branches == TextOf(chunks, found.dense \o found.sparse, "child")
            fused  == IF found.mode = "hybrid" THEN TextOf(chunks, found.fused, "child")
                      ELSE branches
            picked == IF found.reranked THEN TextOf(chunks, found.picked, "child") ELSE fused
        IN  << branches, fused, picked, TextOf(chunks, found.candidates, "context"),
               run.prompt, run.answer >>

StageOf(cause) == CASE cause = "FUSION_LOSS" -> 2
                    [] cause = "RERANKER_LOSS" -> 3
                    [] cause \in {"EVIDENCE_SAFETY_BLOCK", "EVIDENCE_SELECTION_LOSS"} -> 4
                    [] cause = "PROMPT_CONSTRUCTION_LOSS" -> 5
                    [] cause = "GENERATION_CLAIM_MISMATCH" -> 6
                    [] OTHER -> 0

(* An answered run is blamed on a stage only if every required fact        *)
(* reached that stage and not every one left it.  The branches of the mode *)
(* must have found something: the text of an empty branch is taken from    *)
(* the window (see the README).                                            *)
BlamedStageLostTheFact ==
    Diagnosed /\ run.outcome = "answered" /\ ~run.retrievalOnly
        /\ (run.found.mode = "hybrid" => run.found.dense # <<>> /\ run.found.sparse # <<>>) =>
        \A d \in Diagnoses :
            LET stage == StageOf(d.cause)
            IN  d.facts # {} /\ stage > 0 =>
                    /\ d.facts \subseteq Left[stage - 1]
                    /\ ~(d.facts \subseteq Left[stage]) \/ ~d.claims

(* The prompt is blamed only for a prompt that was built.                  *)
OnlyABuiltPromptIsBlamed ==
    Diagnosed => \A d \in Diagnoses :
        d.facts # {} /\ d.cause = "PROMPT_CONSTRUCTION_LOSS" => run.asked
=============================================================================
