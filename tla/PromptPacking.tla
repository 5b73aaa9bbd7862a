---------------------------- MODULE PromptPacking ----------------------------
(***************************************************************************)
(* OllamaAnswerGenerator.pack_prompt: a budget of characters is shared     *)
(* among the chunks of the evidence, and what they leave among the         *)
(* sections the chunks come from.  Only lengths are modelled.              *)
(*                                                                         *)
(* Both sharings run _fair_allocations; one step is one iteration of its   *)
(* inner loop, with the rounds it starts.                                  *)
(***************************************************************************)
EXTENDS Integers, FiniteSets, FiniteSetsExt, Functions

CONSTANTS Evidence,     \* positions of the selected chunks, 1..n
          Lengths,      \* lengths of a text
          Budgets,      \* values of max_evidence_chars
          Prefix        \* len("Context:\n")

ASSUME PackingAssumption ==
    /\ IsFiniteSet(Evidence) /\ Evidence = 1..Cardinality(Evidence)
    /\ Lengths \subseteq Nat /\ 0 \in Lengths /\ Prefix \in Nat
    /\ Budgets \subseteq Nat /\ Budgets # {}

VARIABLE pack

NoText == [e \in Evidence |-> 0]

(* child, parent: the lengths of the texts (a section that equals its      *)
(* chunk is no parent candidate and counts as 0).  remaining: characters   *)
(* left in the loop; share, todo: the round in progress.                   *)
PackState == [pc        : {"idle", "children", "parents", "packed"},
              budget    : Budgets,
              child     : [Evidence -> Lengths],
              parent    : [Evidence -> Lengths],
              given     : [Evidence -> Nat],   \* allocations of the loop
              active    : SUBSET Evidence,
              todo      : SUBSET Evidence,
              share     : Nat,
              remaining : Int,
              chunk     : [Evidence -> Nat],   \* characters of the chunk in the prompt
              section   : [Evidence -> Nat]]   \* characters of the section in the prompt

IdlePack == [pc |-> "idle", budget |-> CHOOSE b \in Budgets : TRUE,
             child |-> NoText, parent |-> NoText, given |-> NoText,
             active |-> {}, todo |-> {}, share |-> 0, remaining |-> 0,
             chunk |-> NoText, section |-> NoText]

PackingInit == pack = IdlePack
PackingTypeOK == pack \in PackState

(* What the loop over the chunks adds up (remaining -= len(part)).         *)
SumOver(f) ==
    LET sum[e \in {0} \cup Evidence] == IF e = 0 THEN 0 ELSE sum[e - 1] + f[e]
    IN  sum[Cardinality(Evidence)]

-----------------------------------------------------------------------------
(* max(1, remaining // len(active)).                                       *)
Share(remaining, active) ==
    IF active # {} /\ remaining \div Cardinality(active) > 1
    THEN remaining \div Cardinality(active) ELSE 1

(* Mutant of Round: each source in turn may take all that is left.         *)
RoundGreedy(lengths, remaining) ==
    LET active == {e \in Evidence : lengths[e] > 0}
    IN  [given |-> NoText, active |-> active, todo |-> active,
         share |-> IF remaining > 1 THEN remaining ELSE 1, remaining |-> remaining]

(* _fair_allocations before its first round.                               *)
Round(lengths, remaining) ==
    LET active == {e \in Evidence : lengths[e] > 0}
    IN  [given |-> NoText, active |-> active, todo |-> active,
         share |-> Share(remaining, active), remaining |-> remaining]

(* The loop variables of _fair_allocations, entered anew.                  *)
Enter(state, round) ==
    [state EXCEPT !.given = round.given, !.active = round.active, !.todo = round.todo,
                  !.share = round.share, !.remaining = round.remaining]

Pack(budget, child, parent) ==
    /\ pack.pc = "idle"
    /\ pack' = Enter([IdlePack EXCEPT !.pc = "children", !.budget = budget,
                                      !.child = child, !.parent = parent],
                     Round(child, budget))

LengthsOf(state) == IF state.pc = "children" THEN state.child ELSE state.parent
Sharing == pack.pc \in {"children", "parents"} /\ pack.active # {} /\ pack.remaining > 0

(* One source of a round takes its share, or what it still lacks; the last *)
(* of a round starts the next round over those that still lack some.       *)
Allocate ==
    /\ Sharing
    /\ LET e      == Min(pack.todo)
           lacks  == LengthsOf(pack)[e] - pack.given[e]
           amount == IF lacks < pack.share THEN lacks ELSE pack.share
           active == IF lacks <= pack.share THEN pack.active \ {e} ELSE pack.active
           left   == pack.remaining - amount
           ended  == pack.todo = {e}
       IN  pack' = [pack EXCEPT !.given[e] = @ + amount, !.remaining = left,
                                !.active = active,
                                !.todo = IF ended THEN active ELSE @ \ {e},
                                !.share = IF ended THEN Share(left, active) ELSE @]

-----------------------------------------------------------------------------
(* _query_aware_window_with_metadata: the start of the window is moved     *)
(* back so far that the text behind it fills the allocation.               *)
WindowLength(length, allocation) == IF length <= allocation THEN length ELSE allocation

(* Mutant of ParentOverhead: the newline that joins a section is forgotten.*)
ParentOverheadPrefixOnly == Prefix

(* A section costs its prefix and the newline that joins it to its chunk.  *)
ParentOverhead == Prefix + 1

(* The chunks are windowed, and the sections share what remains, less the  *)
(* overhead of every candidate section.                                    *)
ShareParents ==
    /\ pack.pc = "children" /\ ~Sharing
    /\ LET chunk == [e \in Evidence |-> WindowLength(pack.child[e], pack.given[e])]
           left  == pack.budget - SumOver(chunk)
           overhead == ParentOverhead * Cardinality({e \in Evidence : pack.parent[e] > 0})
       IN  pack' = Enter([pack EXCEPT !.pc = "parents", !.chunk = chunk],
                         Round(pack.parent, IF left > overhead THEN left - overhead ELSE 0))

(* The sections in their order: each is cut again to what is left.         *)
SectionLengths ==
    LET step[e \in {0} \cup Evidence] ==
          IF e = 0 THEN [left |-> pack.budget - SumOver(pack.chunk), section |-> NoText]
          ELSE LET before == step[e - 1]
                   room == IF before.left > ParentOverhead THEN before.left - ParentOverhead ELSE 0
                   part == WindowLength(pack.parent[e],
                                        IF pack.given[e] < room THEN pack.given[e] ELSE room)
               IN  [left |-> before.left - (IF part > 0 THEN ParentOverhead + part ELSE 0),
                    section |-> [before.section EXCEPT ![e] = part]]
    IN  step[Cardinality(Evidence)].section

FinishPack ==
    /\ pack.pc = "parents" /\ ~Sharing
    /\ pack' = [pack EXCEPT !.pc = "packed", !.section = SectionLengths]

ServePrompt == pack.pc = "packed" /\ pack' = IdlePack

PackingNext ==
    \/ \E budget \in Budgets, child, parent \in [Evidence -> Lengths] :
          Pack(budget, child, parent)
    \/ Allocate
    \/ ShareParents
    \/ FinishPack
    \/ ServePrompt

PackingSpec == PackingInit /\ [][PackingNext]_pack

-----------------------------------------------------------------------------
(* len(included_text): the section is prefixed, and joined by a newline if *)
(* the chunk is there too.                                                 *)
IncludedChars(e) ==
    pack.chunk[e] + (IF pack.section[e] = 0 THEN 0
                     ELSE Prefix + pack.section[e] + (IF pack.chunk[e] > 0 THEN 1 ELSE 0))

(* What the comment in pack_prompt promises: total_evidence_chars never    *)
(* exceeds the budget, whatever the texts.                                 *)
PromptFitsBudget ==
    pack.pc = "packed" => SumOver([e \in Evidence |-> IncludedChars(e)]) <= pack.budget

(* No source starves: when the sharing ends, a source that did not get all *)
(* of its text has at most one character less than any other.              *)
FairShare ==
    pack.pc \in {"children", "parents"} /\ ~Sharing =>
        \A e, d \in Evidence :
            pack.given[e] < LengthsOf(pack)[e] => pack.given[d] <= pack.given[e] + 1
=============================================================================
