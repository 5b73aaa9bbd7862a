------------------------------- MODULE MCQuery -------------------------------
(***************************************************************************)
(* Values of the constants for the runs of the query pipeline, and the     *)
(* components that a query uses beside it: the packing of the prompt, the  *)
(* models and the BM25 vocabulary.  They share no state, so that each      *)
(* behaviour follows one of them (focus) and leaves the others as they     *)
(* began.                                                                  *)
(***************************************************************************)
EXTENDS GoldDiagnosis, PromptPacking, ModelService, Vocabulary

VARIABLE focus

TwoSources == {1, 2}

(* A window of one or two; with a window of two, one source or two.        *)
QuerySettings == {[topK |-> 1, fusionLimit |-> 1], [topK |-> 1, fusionLimit |-> 2],
                  [topK |-> 2, fusionLimit |-> 2]}

(* f: the fact the question asks for; q: the year it names; w: a claim     *)
(* that no document makes.                                                 *)
ChunkTexts ==
    { [child |-> {}, context |-> {}, unsafe |-> FALSE, profile |-> NoProfile],
      [child |-> {}, context |-> {"f", "q"}, unsafe |-> FALSE, profile |-> "small"],
      [child |-> {"f"}, context |-> {"f", "q"}, unsafe |-> FALSE, profile |-> "small"],
      [child |-> {"f"}, context |-> {"f", "q"}, unsafe |-> TRUE, profile |-> "small"] }

Default  == [dense |-> 2, sparse |-> 1, rerank |-> 1, margin |-> 0, coverage |-> 0]
Profiled == [p \in {"small"} |->
                [dense |-> 1, sparse |-> 1, rerank |-> 2, margin |-> 0, coverage |-> 1]]

(* 61 * 62: the ranks 1 and 2 under rrf_k = 60.                            *)
RankUnit == 3782

GoldCases ==
    LET at(page) == [page |-> page, text |-> "f"]
        answerable(locators, facts) ==
          [expected |-> "ANSWERED", reason |-> "any", locators |-> locators, facts |-> facts,
           claims |-> {"f"}, forbidden |-> {"w"}]
    IN  { answerable({at({1})}, {"f"}), answerable({at({1, 2})}, {"f"}),
          answerable({at({1}), at({2})}, {}),
          [answerable({}, {}) EXCEPT !.expected = "NO_ANSWER", !.reason = "LOW_RELEVANCE"],
          [answerable({}, {}) EXCEPT !.expected = "SECURITY_POLICY"] }

(* A text, and one with a new term besides.                                *)
MCVocabularyTexts == {{"a"}, {"a", "b"}}

MCQueryInit ==
    /\ QueryInit /\ PackingInit /\ ModelsInit /\ VocabularyInit
    /\ focus \in {"query", "packing", "models", "vocabulary"}

Rest(component, vars) == IF focus = component THEN TRUE ELSE UNCHANGED vars

MCQueryNext ==
    /\ UNCHANGED focus
    /\ Rest("query", queryVars) /\ Rest("packing", pack) /\ Rest("models", modelVars)
    /\ Rest("vocabulary", vocabularyVars)
    /\ \/ focus = "query"      /\ QueryNext
       \/ focus = "packing"    /\ PackingNext
       \/ focus = "models"     /\ ModelsNext
       \/ focus = "vocabulary" /\ VocabularyNext

MCQuerySpec ==
    /\ MCQueryInit
    /\ [][MCQueryNext]_<<focus, queryVars, pack, modelVars, vocabularyVars>>
=============================================================================
