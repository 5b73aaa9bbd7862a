------------------------------ MODULE Retrieval ------------------------------
(***************************************************************************)
(* Searches beside the ingestion pipeline.  RetrievalService.search asks   *)
(* the registry once for the active versions of the requested documents    *)
(* and then sends one Qdrant request per branch, each filtered by these    *)
(* versions and by the active flag; the pipeline moves on in between.      *)
(*                                                                         *)
(* What a branch finds is the set of points its filter lets through.  The  *)
(* scores, the limit, the fusion of the ranks and the reranker select and  *)
(* order points of these sets and look at no shared state.                 *)
(***************************************************************************)
EXTENDS IngestionPipeline

CONSTANT Searchers   \* concurrent searches

VARIABLE search      \* the local state of every search

searchVars == <<vars, search>>

RetrievalMode == {"dense", "bm25", "hybrid"}
Points == Versions \X Chunks

(* quiet is a history variable: no document has changed its status since   *)
(* the search captured its scope.                                          *)
SearchState == [pc     : {"idle", "dense", "sparse", "answered"},
                mode   : RetrievalMode,
                scope  : SUBSET Versions,
                dense  : SUBSET Points,
                sparse : SUBSET Points,
                quiet  : BOOLEAN]

IdleSearch == [pc |-> "idle", mode |-> "hybrid", scope |-> {},
               dense |-> {}, sparse |-> {}, quiet |-> FALSE]

SearchTypeOK == search \in [Searchers -> SearchState]

SearchInit == Init /\ search = [s \in Searchers |-> IdleSearch]

-----------------------------------------------------------------------------
(* registry.active_version_ids(documents).  It breaks a tie between active *)
(* versions of one document, of which there are none (AtMostOneActive).    *)
ActiveVersionIds(D) == UNION {ActiveVersions(d) : d \in D}

(* Mutant of Matching: an empty scope is sent, and then is no filter.      *)
MatchingAnyVersion(scope) ==
    {p \in Points : (scope = {} \/ p[1] \in scope) /\ points[p[1]][p[2]] = "active"}

(* _active_filter: the points of the versions in scope that are flagged    *)
(* active.  An empty scope is answered without a request.                  *)
Matching(scope) == {p \in Points : p[1] \in scope /\ points[p[1]][p[2]] = "active"}

(* _snapshot_active_version_ids.  No document id means all documents.      *)
BeginSearch(s, mode, D) ==
    /\ search[s].pc \in {"idle", "answered"}
    /\ search' = [search EXCEPT ![s] =
                    [IdleSearch EXCEPT !.pc = IF mode = "bm25" THEN "sparse" ELSE "dense",
                                       !.mode = mode,
                                       !.scope = ActiveVersionIds(D),
                                       !.quiet = TRUE]]
    /\ UNCHANGED vars

SearchDense(s) ==
    /\ search[s].pc = "dense"
    /\ search' = [search EXCEPT
                    ![s].pc = IF search[s].mode = "hybrid" THEN "sparse" ELSE "answered",
                    ![s].dense = Matching(search[s].scope)]
    /\ UNCHANGED vars

(* Mutant of SearchSparse: the branch captures a scope of its own.         *)
SearchSparseOwnScope(s) ==
    /\ search[s].pc = "sparse"
    /\ search' = [search EXCEPT ![s].pc = "answered",
                                ![s].sparse = Matching(ActiveVersionIds(Documents))]
    /\ UNCHANGED vars

SearchSparse(s) ==
    /\ search[s].pc = "sparse"
    /\ search' = [search EXCEPT ![s].pc = "answered",
                                ![s].sparse = Matching(search[s].scope)]
    /\ UNCHANGED vars

(* A request raises, and the search with it: 503 DEPENDENCY_UNAVAILABLE.   *)
SearchFails(s) ==
    /\ search[s].pc \in {"dense", "sparse"}
    /\ search' = [search EXCEPT ![s] = IdleSearch]
    /\ UNCHANGED vars

SearchStep(s) == SearchDense(s) \/ SearchSparse(s) \/ SearchFails(s)

(* A step of the pipeline.                                                 *)
IngestionStep ==
    /\ Next
    /\ search' = [s \in Searchers |->
                    [search[s] EXCEPT !.quiet = @ /\ documentStatus' = documentStatus]]

SearchNext ==
    \/ IngestionStep
    \/ \E s \in Searchers, mode \in RetrievalMode, D \in SUBSET Documents \ {{}} :
          BeginSearch(s, mode, D)
    \/ \E s \in Searchers : SearchStep(s)

SearchSpec == SearchInit /\ [][SearchNext]_searchVars

-----------------------------------------------------------------------------
Found(s) == search[s].dense \cup search[s].sparse

(* A search never mixes two versions of a document, although a new version *)
(* may be published, and take over, between its two requests.              *)
OneVersionPerDocument ==
    \A s \in Searchers : \A p, q \in Found(s) :
        DocumentOf[p[1]] = DocumentOf[q[1]] => p[1] = q[1]

(* The branches that a mode sends.                                         *)
Branches(s) ==
    (IF search[s].mode = "bm25" THEN {} ELSE {search[s].dense})
        \cup (IF search[s].mode = "dense" THEN {} ELSE {search[s].sparse})

(* While no document changes its status, every branch finds each point of  *)
(* the served versions and no other: what is staged, published or cleaned  *)
(* up beside the search does not show.                                     *)
QuietSearchIsComplete ==
    \A s \in Searchers :
        search[s].pc = "answered" /\ search[s].quiet =>
            \A found \in Branches(s) : found = search[s].scope \X Chunks
=============================================================================
