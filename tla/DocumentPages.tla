--------------------------- MODULE DocumentPages ---------------------------
(***************************************************************************)
(* list_documents of both registries: the documents of a tenant, newest    *)
(* first, in pages whose cursor is an offset.  A client walks the pages    *)
(* while documents and new versions of documents are uploaded.  A deleted  *)
(* document stays in the list and is left out here.                        *)
(***************************************************************************)
EXTENDS Naturals, Sequences, FiniteSets, SequencesExt

CONSTANTS Documents,   \* document ids
          Limits,      \* page sizes
          MaxUploads   \* bound on the versions stored

ASSUME PagesAssumption == Limits \subseteq Nat \ {0} /\ MaxUploads \in Nat

VARIABLES uploads,     \* the document of each version stored, in order
          walk         \* the client: where it is, and what it saw

pagesVars == <<uploads, walk>>

(* expected: history, the documents stored when the walk began.            *)
NoWalk == [pc |-> "idle", limit |-> 1, offset |-> 0, seen |-> {}, expected |-> {}]
PagesInit == uploads = << >> /\ walk = NoWalk

UploadVersion(d) ==
    /\ Len(uploads) < MaxUploads
    /\ uploads' = Append(uploads, d)
    /\ UNCHANGED walk

BeginWalk(limit) ==
    /\ walk.pc = "idle"
    /\ walk' = [NoWalk EXCEPT !.pc = "walking", !.limit = limit, !.expected = Range(uploads)]
    /\ UNCHANGED uploads

-----------------------------------------------------------------------------
(* Mutant of ByAge: a document is as old as its last version.              *)
ByAgeOfLast == FoldLeft(LAMBDA list, d : Append(Remove(list, d), d), << >>, uploads)

(* created_at is that of the first version.                                *)
ByAge ==
    LET list[n \in 0..Len(uploads)] ==
          IF n = 0 THEN << >>
          ELSE IF Contains(list[n - 1], uploads[n]) THEN list[n - 1]
          ELSE Append(list[n - 1], uploads[n])
    IN  list[Len(uploads)]

(* sorted(..., reverse=True).                                              *)
Listed == Reverse(ByAge)

(* One page; without a next cursor the walk ends.                          *)
NextPage ==
    /\ walk.pc = "walking"
    /\ LET next == walk.offset + walk.limit
           page == {Listed[i] : i \in (walk.offset + 1..next) \cap DOMAIN Listed}
       IN  walk' = [walk EXCEPT !.seen = @ \cup page, !.offset = next,
                                !.pc = IF next < Len(Listed) THEN "walking" ELSE "done"]
    /\ UNCHANGED uploads

EndWalk == walk.pc = "done" /\ walk' = NoWalk /\ UNCHANGED uploads

PagesNext ==
    \/ \E d \in Documents : UploadVersion(d)
    \/ \E limit \in Limits : BeginWalk(limit)
    \/ NextPage
    \/ EndWalk

PagesSpec == PagesInit /\ [][PagesNext]_pagesVars

-----------------------------------------------------------------------------
(* A client that follows the cursors sees every document that was there    *)
(* when it began, whatever is uploaded meanwhile (some of them twice).     *)
WalkMissesNothing == walk.pc = "done" => walk.expected \subseteq walk.seen
=============================================================================
