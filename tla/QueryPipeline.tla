---------------------------- MODULE QueryPipeline ----------------------------
(***************************************************************************)
(* QueryService.execute: the question's safety gate, the search, the       *)
(* evidence filter, the answerability gate, the prompt and the language    *)
(* model.  Each step is the code between two points where the request      *)
(* waits: the search runs in a thread, the generation is an HTTP request.  *)
(* A retrieval-only diagnosis (_run_retrieval_only) takes the same steps   *)
(* without a trace and stops after the gate.                               *)
(*                                                                         *)
(* Requests share nothing, so one is modelled; run holds what it has       *)
(* computed, chunks the texts it meets, events the stages it has traced.   *)
(***************************************************************************)
EXTENDS AnswerGate

CONSTANTS Contents,      \* the chunks the corpus is made of
          MaxScore,      \* the best score of a search branch
          Settings,      \* the top_k and fusion_limit of a request, as a pair
          RerankLimit,   \* reranker_limit
          Assertions     \* what an answer may state

(* What a chunk states, its section states: a chunk is made of sentences   *)
(* of its section, and one stored without a section stands for its own.    *)
ASSUME QueryAssumption ==
    /\ Contents \subseteq Chunk /\ Contents # {}
    /\ \A c \in Contents : c.child \subseteq c.context
    /\ MaxScore \in Nat /\ RerankLimit \in Nat
    /\ Settings \subseteq [topK : Nat, fusionLimit : Nat]

VARIABLES chunks, run, events

queryVars == <<chunks, run, events>>

Modes == {"dense", "bm25", "hybrid"}
ScoreOf(range) == [Sources -> range]

(* Nothing retrieved: _empty_retrieval.                                    *)
EmptyRetrieval(mode, reranked) ==
    [mode |-> mode, reranked |-> reranked, dense |-> <<>>, sparse |-> <<>>,
     denseScore |-> [s \in Sources |-> 0], sparseScore |-> [s \in Sources |-> 0],
     rerankScore |-> [s \in Sources |-> 0],
     fused |-> <<>>, debug |-> <<>>, picked |-> <<>>, window |-> <<>>, candidates |-> <<>>]

(* fused and picked: the window and the candidates that the search         *)
(* returned; window and candidates: what the evidence filter left of them. *)
NewRun == [pc |-> "idle", unsafeQuestion |-> FALSE, retrievalOnly |-> FALSE,
           topK |-> 1, fusionLimit |-> 1,
           found |-> EmptyRetrieval("hybrid", FALSE), blocked |-> FALSE,
           gate |-> NoAnswer("none", NoScore), prompt |-> {}, asked |-> FALSE,
           outcome |-> "none", answer |-> {}, sources |-> <<>>]

QueryInit ==
    /\ chunks = [s \in Sources |-> CHOOSE c \in Contents : TRUE]
    /\ run = NewRun
    /\ events = {}

-----------------------------------------------------------------------------
Traced(stages) == events' = IF run.retrievalOnly THEN events ELSE events \cup stages

Submit(mode, reranked, topK, fusionLimit, unsafe, retrievalOnly) ==
    /\ run.pc = "idle"
    /\ chunks' \in [Sources -> Contents]
    /\ run' = [NewRun EXCEPT !.pc = "submitted", !.unsafeQuestion = unsafe,
                             !.retrievalOnly = retrievalOnly,
                             !.topK = topK, !.fusionLimit = fusionLimit,
                             !.found = EmptyRetrieval(mode, reranked)]
    /\ events' = {}

(* The prompt-safety rules match: no search, no model.  The empty          *)
(* retrieval says the reranker was off.                                    *)
RefuseQuestion ==
    /\ run.pc = "submitted" /\ run.unsafeQuestion
    /\ run' = [run EXCEPT !.pc = "done", !.outcome = "no_answer",
                          !.found.reranked = FALSE,
                          !.gate = NoAnswer("SECURITY_POLICY", NoScore)]
    /\ UNCHANGED <<chunks, events>>

(* The stages that trace a list of candidates in a mode.                   *)
Branches(mode) == CASE mode = "dense"  -> {"dense_retrieval"}
                    [] mode = "bm25"   -> {"sparse_retrieval"}
                    [] mode = "hybrid" -> {"dense_retrieval", "sparse_retrieval", "rrf_fusion"}

(* RetrievalService.search over what the branches scored, best first.      *)
Retrieval(denseScore, sparseScore, rerankScore) ==
    LET mode   == run.found.mode
        scored(score) == BestFirst({s \in Sources : score[s] > 0}, score, Cardinality(Sources))
        dense  == scored(denseScore)
        sparse == scored(sparseScore)
        fused  == Window(mode, dense, sparse, CandidateWindow(run.topK, run.fusionLimit))
        picked == FinalCandidates(fused, run.found.reranked, rerankScore, run.topK, RerankLimit)
    IN  [run.found EXCEPT !.dense = dense, !.sparse = sparse, !.denseScore = denseScore,
                          !.sparseScore = sparseScore, !.rerankScore = rerankScore,
                          !.fused = fused, !.window = fused,
                          !.picked = picked, !.candidates = picked,
                          !.debug = DebugOrder(fused, dense, sparse)]

(* The search fails when an embedder, a branch or the reranker raises (503 *)
(* DEPENDENCY_UNAVAILABLE); what ran before is in the trace.               *)
Search ==
    /\ run.pc = "submitted" /\ ~run.unsafeQuestion
    /\ \E denseScore \in ScoreOf(IF run.found.mode = "bm25" THEN {0} ELSE 0..MaxScore),
          sparseScore \in ScoreOf(IF run.found.mode = "dense" THEN {0} ELSE 0..MaxScore),
          rerankScore \in ScoreOf(IF run.found.reranked THEN 1..MaxScore ELSE {0}) :
          LET found  == Retrieval(denseScore, sparseScore, rerankScore)
              scored == Branches(found.mode)
              ranks  == found.reranked /\ found.fused # <<>>
          IN  \/ /\ run' = [run EXCEPT !.pc = "retrieved", !.found = found]
                 /\ Traced(scored \cup (IF ranks THEN {"reranker"} ELSE {}))
              \/ /\ run' = [run EXCEPT !.pc = "done", !.outcome = "retrieval_failed",
                                       !.found = found]
                 /\ \/ Traced({})
                    \/ found.mode = "hybrid" /\ Traced({"dense_retrieval"})
                    \/ ranks /\ Traced(scored \cup {"reranker_running"})
    /\ UNCHANGED chunks

(* Mutant of Filtered: only the candidate window is filtered.              *)
FilteredWindowOnly(found) == [found EXCEPT !.window = SafeOnly(chunks, @)]

(* _apply_evidence_safety: what the filter removes is not replaced from    *)
(* the window, and the debug candidates stay as they were.                 *)
Filtered(found) == [found EXCEPT !.window = SafeOnly(chunks, @),
                                 !.candidates = SafeOnly(chunks, @)]

(* The evidence filter and the gate.  The gate blames security only when   *)
(* the filter has left nothing.                                            *)
SelectEvidence ==
    /\ run.pc = "retrieved"
    /\ LET found   == Filtered(run.found)
           blocked == \E s \in Range(run.found.picked) \cup Range(run.found.window) :
                         chunks[s].unsafe
           gate    == Assess(chunks, found, blocked /\ found.candidates = <<>>)
           refused == gate.decision = "NO_ANSWER"
       IN  /\ run' = [run EXCEPT !.found = found, !.blocked = blocked, !.gate = gate,
                        !.pc = IF refused \/ run.retrievalOnly THEN "done" ELSE "gated",
                        !.outcome = IF refused THEN "no_answer"
                                    ELSE IF run.retrievalOnly THEN "answered" ELSE @,
                        !.sources = IF run.retrievalOnly /\ ~refused
                                    THEN found.candidates ELSE @]
           /\ Traced({"evidence_selection"}
                        \cup (IF refused THEN {"prompt_skipped"} ELSE {}))
    /\ UNCHANGED chunks

(* What a prompt may state of a chunk: the whole section, the chunk alone, *)
(* or a window of the chunk that misses what it states.                    *)
Excerpts(s) == {chunks[s].context, chunks[s].child, {}}

(* pack_prompt.  Every candidate is in the prompt with some text, so only  *)
(* the text varies (module PromptPacking).                                 *)
PackPrompt ==
    /\ run.pc = "gated"
    /\ \E excerpt \in [Range(run.found.candidates) -> UNION {Excerpts(s) : s \in Sources}] :
          /\ \A s \in DOMAIN excerpt : excerpt[s] \in Excerpts(s)
          /\ run' = [run EXCEPT !.pc = "packed", !.asked = TRUE,
                                !.prompt = UNION {excerpt[s] : s \in DOMAIN excerpt}]
    /\ Traced({"prompt_build"})
    /\ UNCHANGED chunks

(* The model answers; it may state what it was not told.                   *)
Generate ==
    /\ run.pc = "packed"
    /\ \E answer \in SUBSET Assertions :
          run' = [run EXCEPT !.pc = "done", !.outcome = "answered", !.answer = answer,
                             !.sources = run.found.candidates]
    /\ UNCHANGED <<chunks, events>>

(* A timeout, an HTTP error or an empty answer: 503 with stage llm.        *)
GenerationFails ==
    /\ run.pc = "packed"
    /\ run' = [run EXCEPT !.pc = "done", !.outcome = "llm_failed"]
    /\ UNCHANGED <<chunks, events>>

(* The response is sent and the next request is served.                    *)
Respond == /\ run.pc = "done"
           /\ chunks' = [s \in Sources |-> CHOOSE c \in Contents : TRUE]
           /\ run' = NewRun /\ events' = {}

QueryNext ==
    \/ \E mode \in Modes, reranked, unsafe, only \in BOOLEAN, set \in Settings :
          Submit(mode, reranked, set.topK, set.fusionLimit, unsafe, only)
    \/ RefuseQuestion
    \/ Search
    \/ SelectEvidence
    \/ PackPrompt
    \/ Generate
    \/ GenerationFails
    \/ Respond

QuerySpec == QueryInit /\ [][QueryNext]_queryVars

-----------------------------------------------------------------------------
(* The fusion does not lose the better of two sources: when no branch      *)
(* prefers t to s and one prefers s, then s is in the window and before t  *)
(* if t is.                                                                *)
FusionKeepsTheBetter ==
    run.pc # "idle" /\ run.found.mode = "hybrid" /\ ~run.blocked =>
        \A t \in Range(run.found.window), s \in Sources :
            Dominates(run.found.dense, run.found.sparse, s, t) =>
                Before(run.found.window, s, t)

(* The gate judges the evidence, not the order in which the branches       *)
(* ranked it: no candidate scores better than the score that was compared  *)
(* with the threshold, and the margin is never negative.                   *)
GateSeesTheBestScore ==
    LET signals == Signals(chunks, run.found)
    IN  run.outcome # "none" /\ run.found.candidates # <<>> =>
        /\ signals.margin >= 0
        /\ \A s \in Range(run.found.candidates) :
              ScoreFor(run.found, signals.kind, s) <= signals.top

(* The model is never asked over an unsafe chunk, without evidence, or     *)
(* over evidence that misses what the question names, and what the prompt  *)
(* states is stated by the sources the caller is shown.                    *)
AskedOnlyOverSafeEvidence ==
    run.asked =>
        /\ ~run.unsafeQuestion /\ run.found.candidates # <<>>
        /\ \A s \in Range(run.found.candidates) : ~chunks[s].unsafe
        /\ run.prompt \cup Qualifiers \subseteq TextOf(chunks, run.found.candidates, "context")
=============================================================================
