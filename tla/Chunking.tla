------------------------------ MODULE Chunking ------------------------------
(***************************************************************************)
(* chunk_pages: the extracted pages of a document become chunks.  Lines    *)
(* that repeat across pages go, paragraphs become segments, and a window   *)
(* of about TargetTokens slides over the segments, stepping back by about  *)
(* OverlapTokens; the loop is modelled step by step.                       *)
(*                                                                         *)
(* A page is its normalised lines.  The text of a chunk is the sequence of *)
(* its paragraphs, which determines the string and is determined by it: a  *)
(* paragraph is not empty and holds no empty line.                         *)
(*                                                                         *)
(* A definition marked "Variant" is no part of the next-state relation: it *)
(* is the one below it with a plausible mistake.                           *)
(***************************************************************************)
EXTENDS Naturals, SequencesExt, Numbers

CONSTANTS
    Documents,      \* bound: the documents, each a sequence of pages
    Blank,          \* the empty line
    Headings,       \* lines that _is_heading accepts
    Long,           \* lines of more than 80 characters
    Weight,         \* the tokens of a line
    TargetTokens,   \* TARGET_TOKENS (700)
    OverlapTokens   \* OVERLAP_TOKENS (100)

ASSUME ChunkingAssumption ==
    /\ \A doc \in Documents : doc \in Seq(Seq(DOMAIN Weight \cup {Blank}))
    /\ \A line \in DOMAIN Weight : Weight[line] \in Nat
    /\ TargetTokens \in Nat \ {0}

VARIABLES
    pages,      \* the document
    segments,   \* its paragraphs
    i, j,       \* the window under construction: segments i .. j - 1
    k,          \* where the next one may begin
    tokens,     \* tokens of the window
    overlap,    \* tokens of segments k .. j - 1
    windows,    \* the windows drafted, with their first and last segment
    at          \* "split", "window", "overlap", and "drafted" at the end

cvars == <<pages, segments, i, j, k, tokens, overlap, windows, at>>

-----------------------------------------------------------------------------
(* Lines, paragraphs and segments *)

PagesWith(doc, line) == {p \in DOMAIN doc : line \in Range(doc[p])}

\* Short lines on three pages and on 60% of the pages at least.
Repeated(doc) ==
    {line \in UNION {Range(doc[p]) : p \in DOMAIN doc} \ (Long \cup {Blank}) :
        LET n == Cardinality(PagesWith(doc, line)) IN n >= 3 /\ n >= (Len(doc) * 6) \div 10}

\* remove_repeated_lines; it drops the empty lines too.
Cleaned(doc) ==
    IF Len(doc) < 3 THEN doc
    ELSE [p \in DOMAIN doc |->
            LET stay == Ascending({q \in DOMAIN doc[p] : doc[p][q] \notin Repeated(doc) \cup {Blank}})
            IN  [q \in DOMAIN stay |-> doc[p][stay[q]]]]

\* The longest stretches of lines that are not empty.
Starts(page) == {q \in DOMAIN page : page[q] # Blank /\ (q = 1 \/ page[q - 1] = Blank)}
EndOf(page, q) == CHOOSE r \in q .. Len(page) :
                     /\ \A m \in q .. r : page[m] # Blank
                     /\ r = Len(page) \/ page[r + 1] = Blank
Paragraphs(page) ==
    LET starts == Ascending(Starts(page))
    IN  [c \in DOMAIN starts |-> SubSeq(page, starts[c], EndOf(page, starts[c]))]

\* _segment_pages, after remove_repeated_lines.
SegmentsOf(doc) ==
    FlattenSeq([p \in DOMAIN doc |->
                  LET ps == Paragraphs(Cleaned(doc)[p])
                  IN  [q \in DOMAIN ps |-> [page |-> p, text |-> ps[q]]]])

Tokens(s) == Total([q \in DOMAIN segments[s].text |-> Weight[segments[s].text[q]]])
IsHeading(s) == Len(segments[s].text) = 1 /\ segments[s].text[1] \in Headings

-----------------------------------------------------------------------------
(* The loop *)

CInit ==
    /\ pages \in Documents
    /\ segments = <<>> /\ windows = <<>>
    /\ i = 1 /\ j = 1 /\ k = 1 /\ tokens = 0 /\ overlap = 0
    /\ at = "split"

n == Len(segments)

Split ==
    /\ at = "split"
    /\ segments' = SegmentsOf(pages)
    /\ at' = IF segments' = <<>> THEN "drafted" ELSE "window"
    /\ UNCHANGED <<pages, i, j, k, tokens, overlap, windows>>

WindowOpen == j <= n /\ (tokens < TargetTokens \/ j = i)

Extend ==
    /\ at = "window" /\ WindowOpen
    /\ tokens' = tokens + Tokens(j)
    /\ j' = j + 1
    /\ UNCHANGED <<pages, segments, i, k, overlap, windows, at>>

\* The draft of a chunk; the one that reaches the end is the last.
Draft ==
    /\ at = "window" /\ ~WindowOpen
    /\ windows' = Append(windows, [first |-> i, last |-> j - 1])
    /\ at' = IF j > n THEN "drafted" ELSE "overlap"
    /\ k' = j
    /\ overlap' = 0
    /\ UNCHANGED <<pages, segments, i, j, tokens>>

Overlapping == k > i + 1 /\ overlap < OverlapTokens

StepBack ==
    /\ at = "overlap" /\ Overlapping
    /\ k' = k - 1
    /\ overlap' = overlap + Tokens(k - 1)
    /\ UNCHANGED <<pages, segments, i, j, tokens, windows, at>>

\* Variant: the next window begins behind the overlap's first segment.
AdvanceBehind ==
    /\ at = "overlap" /\ ~Overlapping
    /\ i' = IF k > i THEN k + 1 ELSE i + 1
    /\ j' = i'
    /\ tokens' = 0
    /\ at' = "window"
    /\ UNCHANGED <<pages, segments, k, overlap, windows>>

Advance ==
    /\ at = "overlap" /\ ~Overlapping
    /\ i' = IF k > i THEN k ELSE i + 1
    /\ j' = i'
    /\ tokens' = 0
    /\ at' = "window"
    /\ UNCHANGED <<pages, segments, k, overlap, windows>>

CNext == Split \/ Extend \/ Draft \/ StepBack \/ Advance

ChunkingSpec == CInit /\ [][CNext]_cvars

-----------------------------------------------------------------------------
(* The chunks *)

Segs(w) == windows[w].first .. windows[w].last
Content(w) == [s \in 1 .. windows[w].last + 1 - windows[w].first |->
                 segments[windows[w].first + s - 1].text]

\* Of drafts with the same content the first is kept.
Kept == {w \in DOMAIN windows : \A v \in 1 .. w - 1 : Content(v) # Content(w)}

HeadingAt(s) == {h \in 1 .. s : IsHeading(h) /\ \A g \in h + 1 .. s : ~IsHeading(g)}

ChunkOf(w) == [content |-> Content(w),
               heading |-> {segments[h].text : h \in HeadingAt(windows[w].first)},
               page_start |-> segments[windows[w].first].page,
               page_end |-> segments[windows[w].last].page]

\* The chunks in the order of their ordinals.
Chunks == LET ws == Ascending(Kept) IN [c \in DOMAIN ws |-> ChunkOf(ws[c])]

-----------------------------------------------------------------------------
(* Properties *)

\* Every segment that a step of the loop has left behind is in a window, and a
\* window never begins where the one before it began or behind its end.
WindowsCover ==
    /\ \A s \in 1 .. (IF at = "drafted" THEN n ELSE i - 1) :
         \E w \in DOMAIN windows : s \in Segs(w)
    /\ \A w \in DOMAIN windows : w > 1 =>
         /\ windows[w - 1].first < windows[w].first
         /\ windows[w].first <= windows[w - 1].last + 1
=============================================================================
