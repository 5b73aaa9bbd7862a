----------------------------- MODULE RankFusion -----------------------------
(***************************************************************************)
(* What RetrievalService.search does with the ranked lists of its two      *)
(* branches: reciprocal rank fusion, the candidate window, the reranker    *)
(* and the cut to top_k.  A list is a sequence of source ids without       *)
(* repetition, best first.  A source id is a number: ids are compared only *)
(* to break ties.  A score is a natural number.                            *)
(***************************************************************************)
EXTENDS Integers, Sequences, FiniteSets, SequencesExt, FiniteSetsExt

CONSTANTS Sources,       \* source ids
          RrfK,          \* rrf_k
          Unit,          \* the score 1.0, in the unit in which 1/(rrf_k + rank) is whole
          WindowCap,     \* the 50 of _candidate_window
          MaxReranked    \* most candidates the cross-encoder scores

ASSUME RankFusionAssumption ==
    /\ IsFiniteSet(Sources) /\ Sources \subseteq Nat
    /\ RrfK \in Nat \ {0} /\ Unit \in Nat \ {0} /\ WindowCap \in Nat \ {0} /\ MaxReranked \in Nat \ {0}
    /\ \A r \in 1..Cardinality(Sources) : Unit % (RrfK + r) = 0

(* The key of sorted: the smaller id wins a tie.                           *)
Better(score, a, b) == score[a] > score[b] \/ (score[a] = score[b] /\ a < b)
Place(S, score, s)  == 1 + Cardinality({t \in S : Better(score, t, s)})

(* The best score first; at most n of them.                                *)
BestFirst(S, score, n) ==
    [i \in 1..Min({n, Cardinality(S)}) |-> CHOOSE s \in S : Place(S, score, s) = i]

Rank(list, s) == CHOOSE i \in 1..Len(list) : list[i] = s

(* Mutant of Contribution: the rank is left out of the sum.                *)
ContributionUnranked(list, s) ==
    IF s \in Range(list) THEN Unit \div (RrfK + 1) ELSE 0

(* 1.0 / (rrf_k + rank), nothing for a branch that did not find s.         *)
Contribution(list, s) ==
    IF s \in Range(list) THEN Unit \div (RrfK + Rank(list, s)) ELSE 0

FusedScore(dense, sparse, s) == Contribution(dense, s) + Contribution(sparse, s)

(* _candidate_window: the window kept beside the final top_k.              *)
CandidateWindow(topK, fusionLimit) ==
    Min({IF topK > fusionLimit THEN topK ELSE fusionLimit, WindowCap})

(* _fuse: the union of the branches by fused score, cut to the window.     *)
Fuse(dense, sparse, window) ==
    LET found == Range(dense) \cup Range(sparse)
    IN  BestFirst(found, [s \in found |-> FusedScore(dense, sparse, s)], window)

(* The window of each mode: the other modes keep the order of their branch.*)
Window(mode, dense, sparse, window) ==
    CASE mode = "hybrid" -> Fuse(dense, sparse, window)
      [] mode = "dense"  -> SubSeq(dense, 1, Min({window, Len(dense)}))
      [] mode = "bm25"   -> SubSeq(sparse, 1, Min({window, Len(sparse)}))

(* CrossEncoderReranker.rerank: the first max_candidates get a score of    *)
(* their own, and the order of the window is forgotten.                    *)
Rerank(window, score, limit) ==
    BestFirst(Range(SubSeq(window, 1, Min({MaxReranked, Len(window)}))), score, limit)

(* The evidence candidates: reranked, or the head of the window.           *)
FinalCandidates(window, reranked, score, topK, rerankLimit) ==
    IF reranked /\ window # <<>>
    THEN Rerank(window, score, Min({topK, rerankLimit}))
    ELSE SubSeq(window, 1, Min({topK, Len(window)}))

(* _build_debug_candidates: the window in its order, then what only the    *)
(* branches found.                                                         *)
DebugOrder(window, dense, sparse) ==
    LET others(list, seen) == SelectSeq(list, LAMBDA s : s \notin seen)
        withDense == window \o others(dense, Range(window))
    IN  withDense \o others(sparse, Range(withDense))

-----------------------------------------------------------------------------
(* s is before t in list, or the only one of them in it.                   *)
Before(list, s, t) ==
    /\ s \in Range(list)
    /\ t \in Range(list) => Rank(list, s) < Rank(list, t)

(* Neither branch prefers t, and one prefers s.                            *)
Dominates(dense, sparse, s, t) ==
    /\ Before(dense, s, t) \/ Before(sparse, s, t)
    /\ \A list \in {dense, sparse} : t \in Range(list) => Before(list, s, t)
=============================================================================
