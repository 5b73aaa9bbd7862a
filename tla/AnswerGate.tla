----------------------------- MODULE AnswerGate -----------------------------
(***************************************************************************)
(* The gates of a query before the language model: the evidence filter,    *)
(* the choice of a calibrated policy and the answerability decision.       *)
(*                                                                         *)
(* A text is the set of the items it states.  What a gate asks of a text   *)
(* (is the requested year in it, which words of the question are in it)    *)
(* is asked of this set.  A score is a multiple of Unit or a fused score,  *)
(* which is smaller than Unit.                                             *)
(***************************************************************************)
EXTENDS RankFusion

CONSTANTS Items,          \* what texts state
          Qualifiers,     \* the items the question names explicitly (a year, a quoted term)
          QuestionTerms,  \* the items that are words of the question
          NoProfile,      \* chunking_profile of a chunk stored without one
          DefaultPolicy,  \* the policy used when no profile policy applies
          ProfilePolicies \* chunking profile |-> policy

(* A chunk: its own text, the text of its parent section, and whether that *)
(* text matches an instruction rule of EvidenceSafetyPolicy.               *)
Chunk == [child : SUBSET Items, context : SUBSET Items, unsafe : BOOLEAN,
          profile : DOMAIN ProfilePolicies \cup {NoProfile}]

NoScore == -1

TextOf(chunks, list, part) == UNION {chunks[s][part] : s \in Range(list)}

(* EvidenceSafetyPolicy.filter keeps the order.                            *)
SafeOnly(chunks, list) ==
    LET kept[i \in 0..Len(list)] ==
          IF i = 0 THEN <<>>
          ELSE IF chunks[list[i]].unsafe THEN kept[i - 1] ELSE Append(kept[i - 1], list[i])
    IN  kept[Len(list)]

(* AnswerabilityPolicySet.select: only one known, uniform profile.         *)
SelectPolicy(chunks, evidence) ==
    LET known == {chunks[s].profile : s \in Range(evidence)} \ {NoProfile}
    IN  IF \E p \in DOMAIN ProfilePolicies : known = {p}
        THEN ProfilePolicies[CHOOSE p \in known : TRUE]
        ELSE DefaultPolicy

(* _score_kind: the score of the candidates that the policy looks at.      *)
ScoreKind(found) ==
    IF found.reranked /\ found.candidates # <<>> THEN "rerank"
    ELSE IF found.mode = "bm25" THEN "sparse"
    ELSE IF found.mode = "dense" \/ Range(found.candidates) \cap Range(found.dense) # {}
    THEN "dense"
    ELSE "sparse"

(* _score_for: a candidate that lacks this score gives its fused score.    *)
ScoreFor(found, kind, s) ==
    CASE kind = "rerank" -> found.rerankScore[s] * Unit
      [] kind = "dense" /\ s \in Range(found.dense)   -> found.denseScore[s] * Unit
      [] kind = "sparse" /\ s \in Range(found.sparse) -> found.sparseScore[s] * Unit
      [] OTHER -> FusedScore(found.dense, found.sparse, s)

(* The scores in the order of the candidates; a mutant of Scores.          *)
ScoresInRankOrder(found, kind) ==
    [i \in DOMAIN found.candidates |-> ScoreFor(found, kind, found.candidates[i])]

(* sorted(..., reverse=True): the candidates, best score first.            *)
Scores(found, kind) ==
    LET score  == ScoresInRankOrder(found, kind)
        ranked == BestFirst(DOMAIN score, score, Len(score))
    IN  [i \in DOMAIN ranked |-> score[ranked[i]]]

(* build_answerability_signals.                                            *)
Signals(chunks, found) ==
    LET kind   == ScoreKind(found)
        ranked == Scores(found, kind)
        text   == TextOf(chunks, found.candidates, "context")
    IN  [kind      |-> kind,
         count     |-> Len(found.candidates),
         top       |-> IF ranked = <<>> THEN NoScore ELSE ranked[1],
         hasMargin |-> Len(ranked) > 1,
         margin    |-> IF Len(ranked) > 1 THEN ranked[1] - ranked[2] ELSE 0,
         qualified |-> Qualifiers \subseteq text,
         covered   |-> Cardinality(QuestionTerms \cap text)]

NoAnswer(reason, top) == [decision |-> "NO_ANSWER", reason |-> reason, top |-> top]

(* AnswerabilityPolicy.decide, its tests in their order.                   *)
Decide(policy, signals) ==
    IF signals.count = 0
    THEN NoAnswer("NO_EVIDENCE", NoScore)
    ELSE IF signals.top < policy[signals.kind] * Unit
    THEN NoAnswer("LOW_RELEVANCE", signals.top)
    ELSE IF ~signals.qualified \/ signals.covered < policy.coverage
    THEN NoAnswer("INSUFFICIENT_COVERAGE", signals.top)
    ELSE IF signals.hasMargin /\ signals.margin < policy.margin * Unit
    THEN NoAnswer("LOW_RELEVANCE", signals.top)
    ELSE [decision |-> "ANSWERED", reason |-> "none", top |-> signals.top]

(* assess_answerability, after the question itself has passed.             *)
Assess(chunks, found, safetyBlocked) ==
    IF safetyBlocked THEN NoAnswer("SECURITY_POLICY", NoScore)
    ELSE Decide(SelectPolicy(chunks, found.candidates), Signals(chunks, found))
=============================================================================
