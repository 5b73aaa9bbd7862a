------------------------------ MODULE Chunking ------------------------------
(***************************************************************************)
(* The profile of an upload is resolved (KnownSectionMarkerProfileResolver)*)
(* and its pages are cut (domain/chunks.py, ChunkingService): pages become *)
(* sections (parents), and a section becomes overlapping chunks of         *)
(* sentences (children).                                                   *)
(*                                                                         *)
(* A text is a sequence of characters: "w" for a letter, "." for the end   *)
(* of a sentence, " " and "\n" for white space, and "m" and "n" for what   *)
(* the section markers, texts themselves, are made of.  Positions are      *)
(* those in the joined text of all pages, counted from 1; a span is        *)
(* [first, last], both inside.                                             *)
(***************************************************************************)
EXTENDS Integers, Sequences, FiniteSets, FiniteSetsExt, SequencesExt

Space == " "
White == {Space, "\n"}

CONSTANTS Characters,   \* what a text is made of
          Uploads,      \* uploads: sequences of the texts of the pages
          Markers,      \* profile |-> its section markers, in their order
          Candidates,   \* the profiles AUTO tries, in their order
          MaxSizes,     \* generic_parent_max_chars
          SentenceSets  \* pairs of chunk_size_sentences and chunk_overlap_sentences

ASSUME ChunkingAssumption ==
    /\ White \subseteq Characters
    /\ Uploads \subseteq Seq(Seq(Characters))
    /\ \A profile \in DOMAIN Markers :
          /\ Markers[profile] \in Seq(Seq(Characters))
          /\ \A k \in DOMAIN Markers[profile] :
                Markers[profile][k] # << >> /\ Markers[profile][k][1] \notin White
    /\ Candidates \in Seq(DOMAIN Markers)
    /\ MaxSizes \subseteq Nat \ {0}
    /\ \A s \in SentenceSets : s.size \in Nat \ {0} /\ s.overlap \in 0..s.size - 1

VARIABLE upload   \* the document, from its preparation to its Chunk stage

NoUpload == [pc |-> "none", raw |-> << >>, requested |-> "none", markers |-> << >>,
             pages |-> << >>, max |-> 1, sentences |-> [size |-> 1, overlap |-> 0],
             sections |-> << >>, chunks |-> << >>]

ChunkingInit == upload = NoUpload

(* The members of a set of numbers, in their order.                        *)
InOrder(S) ==
    [k \in 1..Cardinality(S) |-> CHOOSE i \in S : Cardinality({j \in S : j <= i}) = k]

-----------------------------------------------------------------------------
(* normalize_page_text.                                                    *)
Normalized(text) ==
    LET kept == {i \in DOMAIN text : text[i] \notin White \/
                    (/\ i > 1 /\ text[i - 1] \notin White
                     /\ \E k \in i..Len(text) : text[k] \notin White)}
        at == InOrder(kept)
    IN  [i \in DOMAIN at |-> IF text[at[i]] \in White THEN Space ELSE text[at[i]]]

(* extract: the pages are normalized, and only those with text are kept.   *)
NormalizedPages(pages) ==
    LET kept == InOrder({p \in DOMAIN pages : Normalized(pages[p]) # << >>})
    IN  [k \in DOMAIN kept |-> [number |-> kept[k], text |-> Normalized(pages[kept[k]])]]

(* "\n".join(...).                                                         *)
Joined(pages) ==
    FlattenSeq([p \in DOMAIN pages |-> IF p = 1 THEN pages[p].text ELSE <<"\n">> \o pages[p].text])

(* _page_boundaries.                                                       *)
Boundaries(pages) ==
    LET cursor[p \in 0..Len(pages)] ==
          IF p = 0 THEN 1 ELSE cursor[p - 1] + Len(pages[p].text) + 1
    IN  [p \in DOMAIN pages |->
            [first |-> cursor[p - 1], last |-> cursor[p] - 2, number |-> pages[p].number]]

-----------------------------------------------------------------------------
(* Mutant of After: a window is taken to end at a space.                   *)
AfterSkippingOne(text, span) == span.last + 2

(* The next window begins at the next character that is not a space.       *)
After(text, span) ==
    LET rest == {i \in span.last + 1..Len(text) : text[i] # Space}
    IN  IF rest = {} THEN Len(text) + 1 ELSE Min(rest)

(* The window of _bounded_text_spans at first: as much as fits, cut at the *)
(* last space within reach.                                                *)
Window(text, first, max) ==
    LET spaces == {i \in first + 1..first + max : i <= Len(text) /\ text[i] = Space}
    IN  IF first + max > Len(text) THEN [first |-> first, last |-> Len(text)]
        ELSE IF spaces # {} THEN [first |-> first, last |-> Max(spaces) - 1]
        ELSE [first |-> first, last |-> first + max - 1]

(* _bounded_text_spans: its loop ends with the first start that is behind  *)
(* the text.                                                               *)
TextSpans(text, max) ==
    LET start[k \in 0..Len(text)] ==
          IF k = 0 THEN 1 ELSE After(text, Window(text, start[k - 1], max))
        rounds == Min({k \in 0..Len(text) : start[k] > Len(text)})
    IN  [k \in 1..rounds |-> Window(text, start[k - 1], max)]

Shifted(spans, by) ==
    [k \in DOMAIN spans |-> [first |-> spans[k].first + by, last |-> spans[k].last + by]]

(* One page of _bounded_parent_spans.  While a window is open it is the    *)
(* last of the spans, and the page is joined to it if it fits; a page that *)
(* is too long by itself is cut.                                           *)
AddPage(acc, text, page, max) ==
    LET n == Len(acc.spans)
    IN  IF Len(text) > max
        THEN [open |-> FALSE, spans |-> acc.spans \o Shifted(TextSpans(text, max), page.first - 1)]
        ELSE IF acc.open /\ page.last - acc.spans[n].first + 1 <= max
        THEN [acc EXCEPT !.spans[n].last = page.last]
        ELSE [open |-> TRUE,
              spans |-> Append(acc.spans, [first |-> page.first, last |-> page.last])]

(* _bounded_parent_spans.                                                  *)
ParentSpans(pages, max) ==
    LET bounds == Boundaries(pages)
        after[p \in 0..Len(pages)] ==
          IF p = 0 THEN [open |-> FALSE, spans |-> << >>]
          ELSE AddPage(after[p - 1], pages[p].text, bounds[p], max)
    IN  after[Len(pages)].spans

(* str.find of each marker; 0 if it is not there.                          *)
Positions(text, markers) ==
    [k \in DOMAIN markers |->
        LET n     == Len(markers[k])
            found == {i \in 1..Len(text) - n + 1 :
                         \A j \in 1..n : text[i + j - 1] = markers[k][j]}
        IN  IF found = {} THEN 0 ELSE Min(found)]

(* _make_parent drops the white space at the end of a section.             *)
Trimmed(text, span) ==
    LET kept == {i \in span.first..span.last : text[i] \notin White}
    IN  [first |-> span.first, last |-> IF kept = {} THEN span.first - 1 ELSE Max(kept)]

(* A section runs from its marker to the next.                             *)
MarkedSpans(text, markers) ==
    LET at == Positions(text, markers)
    IN  [k \in DOMAIN markers |->
            Trimmed(text, [first |-> at[k],
                           last  |-> IF k < Len(at) THEN at[k + 1] - 1 ELSE Len(text)])]

(* All markers are found, none before the one it follows; otherwise        *)
(* sectionize_pages raises.                                                *)
MarkersUsable(text, markers) ==
    LET at == Positions(text, markers)
    IN  \A k \in DOMAIN at : at[k] # 0 /\ (k > 1 => at[k - 1] <= at[k])

(* What the resolver searches: the extractor has normalized the pages.     *)
SearchedText(raw) == Joined(NormalizedPages(raw))

(* resolve: AUTO takes the first profile whose markers are all found in    *)
(* their order; if none is, or nothing can be extracted, no markers.       *)
Resolved(raw, requested, readable) ==
    LET found == {k \in DOMAIN Candidates :
                     /\ readable /\ SearchedText(raw) # << >>
                     /\ MarkersUsable(SearchedText(raw), Markers[Candidates[k]])}
    IN  IF requested = "generic_v1" THEN << >>
        ELSE IF requested # "auto" THEN Markers[requested]
        ELSE IF found = {} THEN << >> ELSE Markers[Candidates[Min(found)]]

-----------------------------------------------------------------------------
(* _split_sentence_spans: cut at the white space behind a full stop.       *)
Sentences(text, section) ==
    LET cuts == {i \in section.first + 1..section.last : text[i] \in White /\ text[i - 1] = "."}
        ends == InOrder({i \in section.first..section.last : i + 1 \in cuts \/ i = section.last})
    IN  [k \in DOMAIN ends |-> [first |-> IF k = 1 THEN section.first ELSE ends[k - 1] + 2,
                                last  |-> ends[k]]]

(* The first sentences of the chunks of n sentences: the loop stops with   *)
(* the chunk that reaches the last, and another overlaps the one before.   *)
Starts(n, s) ==
    {x \in {1 + (s.size - s.overlap) * k : k \in 0..n - 1} : x = 1 \/ x + s.overlap <= n}

(* Mutant of Pages: the boundaries of a page include both its neighbours'. *)
PagesTouching(bounds, span) ==
    {bounds[p].number : p \in {p \in DOMAIN bounds :
        span.first <= bounds[p].last + 2 /\ span.last >= bounds[p].first}}

(* _page_range_for_span: the pages the span overlaps.                      *)
Pages(bounds, span) ==
    {bounds[p].number : p \in {p \in DOMAIN bounds :
        span.first <= bounds[p].last /\ span.last >= bounds[p].first}}

(* chunk_parent_section.                                                   *)
ChunksOf(text, bounds, parent, section, s) ==
    LET sentences == Sentences(text, section)
        starts    == InOrder(Starts(Len(sentences), s))
    IN  [k \in DOMAIN starts |->
            LET last  == Min({starts[k] + s.size - 1, Len(sentences)})
                span  == [first |-> sentences[starts[k]].first, last |-> sentences[last].last]
                pages == Pages(bounds, span)
            IN  [parent |-> parent, span |-> span,
                 page_start |-> Min(pages), page_end |-> Max(pages)]]

-----------------------------------------------------------------------------
(* prepare: the profile is resolved, and kept with the job.                *)
PrepareUpload(raw, requested, readable, max, s) ==
    /\ upload.pc = "none"
    /\ upload' = [NoUpload EXCEPT !.pc = IF readable THEN "accepted" ELSE "unreadable",
                     !.raw = raw, !.requested = requested, !.max = max, !.sentences = s,
                     !.markers = Resolved(raw, requested, readable)]

(* parse_pages and normalize_pages; a document without text is refused.    *)
ParsePages ==
    /\ upload.pc \in {"accepted", "unreadable"}
    /\ LET pages == IF upload.pc = "accepted" THEN NormalizedPages(upload.raw) ELSE << >>
       IN  upload' = [upload EXCEPT !.pc = IF pages = << >> THEN "parse_failed" ELSE "parsed",
                                    !.pages = pages]

(* The first half of build_from_pages.                                     *)
Sectionize ==
    /\ upload.pc = "parsed"
    /\ LET text == Joined(upload.pages)
       IN  upload' =
             IF upload.markers = << >>
             THEN [upload EXCEPT !.pc = "sections",
                                 !.sections = ParentSpans(upload.pages, upload.max)]
             ELSE IF MarkersUsable(text, upload.markers)
             THEN [upload EXCEPT !.pc = "sections", !.sections = MarkedSpans(text, upload.markers)]
             ELSE [upload EXCEPT !.pc = "chunking_failed"]

(* The second half: the chunks of each section; none at all is refused.    *)
ChunkSections ==
    /\ upload.pc = "sections"
    /\ LET text   == Joined(upload.pages)
           bounds == Boundaries(upload.pages)
           chunks == FlattenSeq([k \in DOMAIN upload.sections |->
                         ChunksOf(text, bounds, k, upload.sections[k], upload.sentences)])
       IN  upload' = [upload EXCEPT !.pc = IF chunks = << >> THEN "chunking_failed" ELSE "chunked",
                                    !.chunks = chunks]

ChunkingDone == /\ upload.pc \in {"chunked", "parse_failed", "chunking_failed"}
                /\ upload' = NoUpload

ChunkingNext ==
    \/ \E raw \in Uploads, requested \in {"auto", "generic_v1"} \cup DOMAIN Markers,
          readable \in BOOLEAN, max \in MaxSizes, s \in SentenceSets :
          PrepareUpload(raw, requested, readable, max, s)
    \/ ParsePages \/ Sectionize \/ ChunkSections \/ ChunkingDone

ChunkingSpec == ChunkingInit /\ [][ChunkingNext]_upload

-----------------------------------------------------------------------------
Within(i, span) == i \in span.first..span.last
Words == LET text == Joined(upload.pages) IN {i \in DOMAIN text : text[i] \notin White}

(* No text is lost: AUTO, which is advisory, fails no document that could  *)
(* be indexed without section markers; behind the first marker (or from    *)
(* the start, without markers) every character is in one section and in a  *)
(* chunk of it, and a section without markers keeps its size.              *)
EveryWordIsIndexed ==
    /\ upload.requested = "auto" => upload.pc # "chunking_failed"
    /\ upload.pc = "chunked" =>
        /\ \A i \in Words : i >= upload.sections[1].first =>
              \E k \in DOMAIN upload.sections :
                 /\ \A j \in DOMAIN upload.sections : Within(i, upload.sections[j]) <=> j = k
                 /\ \E c \in DOMAIN upload.chunks :
                       upload.chunks[c].parent = k /\ Within(i, upload.chunks[c].span)
        /\ upload.markers = << >> =>
              /\ upload.sections[1].first = 1
              /\ \A k \in DOMAIN upload.sections :
                    upload.sections[k].last - upload.sections[k].first < upload.max

(* A chunk cites the pages its characters are on, from the first to the    *)
(* last.                                                                   *)
ChunkCitesItsPages ==
    upload.pc = "chunked" =>
        LET bounds == Boundaries(upload.pages)
            PageAt(i) == bounds[CHOOSE p \in DOMAIN bounds : Within(i, bounds[p])].number
        IN  \A c \in DOMAIN upload.chunks :
               LET chunk == upload.chunks[c]
               IN  /\ chunk.page_start = PageAt(chunk.span.first)
                   /\ chunk.page_end = PageAt(chunk.span.last)
=============================================================================
