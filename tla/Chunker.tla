------------------------------ MODULE Chunker ------------------------------
(***************************************************************************)
(* split_with (src/chunk.rs): a markdown document is cut at its headings   *)
(* of levels 1 to 3, and a section of too many words into windows that     *)
(* overlap.  Both loops are modelled iteration by iteration, over every    *)
(* document and every pair of options of the bounds.                       *)
(*                                                                         *)
(* A line is a fence, a heading or prose, with a number of words; the word *)
(* j of line n is <<n, j>>.  A heading's first word is its hashes, the     *)
(* others are its text (no closing hashes), so a heading of one word has   *)
(* no text.  A heading text stands as the number of its line, 0 for none.  *)
(* The bytes of a note are its lines as written, and whether all of them   *)
(* are UTF-8.                                                              *)
(***************************************************************************)
EXTENDS Naturals, Sequences, FiniteSets, SequencesExt

CONSTANTS
    DEFAULT_MAX_TOKENS, DEFAULT_OVERLAP_TOKENS,
    MaxTokens, Overlaps,   \* the arguments of split_with
    MaxLines,              \* bound: lines of a document
    HeadingWords,          \* bound: words of a heading line
    ProseWords             \* bound: words of a prose line

ASSUME ChunkerAssumption ==
    /\ DEFAULT_MAX_TOKENS \in Nat \ {0} /\ DEFAULT_OVERLAP_TOKENS \in Nat
    /\ MaxTokens \subseteq Nat /\ Overlaps \subseteq Nat
    /\ MaxLines \in Nat
    /\ HeadingWords \subseteq Nat \ {0} /\ ProseWords \subseteq Nat

VARIABLES
    markdown,  \* the bytes of the note
    doc,       \* the lines of the text they decode to
    max_tokens, overlap,
    next,      \* the line split_sections reads next
    in_fence,
    stack,     \* the heading in force at each of the three levels
    cur,       \* the section being read
    sections,  \* those read and not yet cut
    start,     \* where the next window of the first of them starts
    out,       \* the chunks
    pc         \* "walk", "cut" or "done"

input == <<markdown, doc, max_tokens, overlap>>
walk == <<next, in_fence, stack, cur>>
chunker == <<input, walk, sections, start, out, pc>>

Line ==
    [kind : {"heading"}, level : 1..4, words : HeadingWords]
    \cup [kind : {"prose"}, level : {0}, words : ProseWords]
    \cup [kind : {"fence"}, level : {0}, words : {1}]

Words(n) == [j \in 1..doc[n].words |-> <<n, j>>]
Text(section) == FlattenSeq([i \in DOMAIN section.lines |-> Words(section.lines[i])])

Least(a, b) == IF a <= b THEN a ELSE b

----------------------------------------------------------------------------
\* split_sections

Untitled == [heading |-> 0, path |-> <<>>, lines |-> <<>>]

\* Nothing is read of a note that is not UTF-8: one line stands for any.
Documents ==
    [utf8 : {TRUE}, lines : UNION {[1..n -> Line] : n \in 0..MaxLines}]
    \cup [utf8 : {FALSE}, lines : [1..1 -> Line]]

\* Mutant: the lines up to the bad byte, or with a mark in its place.
from_utf8_lossy(bytes) == bytes.lines

\* A byte that is not UTF-8 anywhere makes the text of the whole note empty.
from_utf8(bytes) == IF bytes.utf8 THEN bytes.lines ELSE <<>>

\* A call with a document and two arguments of these.
split_with(documents, max, over) ==
    /\ markdown \in documents /\ doc = from_utf8(markdown)
    /\ \E m \in max : max_tokens = IF m = 0 THEN DEFAULT_MAX_TOKENS ELSE m
    /\ \E o \in over : overlap = IF o >= max_tokens THEN DEFAULT_OVERLAP_TOKENS ELSE o
    /\ next = 1 /\ in_fence = FALSE
    /\ stack = [level \in 1..3 |-> 0]
    /\ cur = Untitled
    /\ sections = <<>> /\ start = 0 /\ out = <<>> /\ pc = "walk"

\* What flush leaves: the preamble of a document that starts with a heading is
\* no section.
Flushed == IF cur.lines = <<>> THEN sections ELSE Append(sections, cur)

Reads(kind) == pc = "walk" /\ next <= Len(doc) /\ doc[next].kind = kind

Push ==
    /\ cur' = [cur EXCEPT !.lines = Append(@, next)]
    /\ next' = next + 1

Fence ==
    /\ Reads("fence")
    /\ in_fence' = ~in_fence
    /\ Push
    /\ UNCHANGED <<input, stack, sections, start, out, pc>>

\* Only the levels 1 to 3 split, and only outside a fence.
Splits == ~in_fence /\ doc[next].level \in 1..3

\* parse_heading: the text of a heading, if it has one.
HeadingText == IF doc[next].words = 1 THEN 0 ELSE next

\* Mutant: the levels below keep their headings.
TrailUncleared == [stack EXCEPT ![doc[next].level] = HeadingText]

\* The trail with the heading set at its level and the levels below cleared.
Trail ==
    [level \in 1..3 |->
        CASE level < doc[next].level -> stack[level]
          [] level = doc[next].level -> HeadingText
          [] OTHER                   -> 0]

\* The headings of the trail, without the levels that have none.
join_path(trail) ==
    LET At(level) == IF trail[level] = 0 THEN <<>> ELSE <<trail[level]>>
    IN At(1) \o At(2) \o At(3)

Heading ==
    /\ Reads("heading") /\ Splits
    /\ sections' = Flushed
    /\ stack' = Trail
    /\ cur' = [heading |-> HeadingText, path |-> join_path(stack'), lines |-> <<next>>]
    /\ next' = next + 1
    /\ UNCHANGED <<input, in_fence, start, out, pc>>

Prose ==
    /\ Reads("prose") \/ (Reads("heading") /\ ~Splits)
    /\ Push
    /\ UNCHANGED <<input, in_fence, stack, sections, start, out, pc>>

EndOfText ==
    /\ pc = "walk" /\ next > Len(doc)
    /\ sections' = Flushed
    /\ cur' = Untitled
    /\ pc' = "cut"
    /\ UNCHANGED <<input, next, in_fence, stack, start, out>>

----------------------------------------------------------------------------
\* The loop over the sections

Section == Head(sections)

\* The heading line that is peeled off: only with a text, and only if a line
\* is left below it once the blank end has been trimmed.
Peeled ==
    IF Section.heading = 0 THEN <<>>
    ELSE LET Mine == Words(Section.heading)
         IN IF Text(Section) = Mine THEN <<>> ELSE Mine

Rest == SubSeq(Text(Section), Len(Peeled) + 1, Len(Text(Section)))

\* Mutants: no lower bound to the step; windows side by side.
StepUnbounded == IF overlap < max_tokens THEN max_tokens - overlap ELSE 0
StepWhole == max_tokens

Step == IF overlap < max_tokens THEN max_tokens - overlap ELSE 1

make_chunk(content) ==
    [heading |-> Section.heading, path |-> Section.path, content |-> content]

Cutting == pc = "cut" /\ sections # <<>>

Blank ==
    /\ Cutting /\ Text(Section) = <<>>
    /\ sections' = Tail(sections)
    /\ UNCHANGED <<input, walk, start, out, pc>>

Whole ==
    /\ Cutting /\ Len(Text(Section)) \in 1..max_tokens
    /\ out' = Append(out, make_chunk(Text(Section)))
    /\ sections' = Tail(sections)
    /\ UNCHANGED <<input, walk, start, pc>>

End == Least(start + max_tokens, Len(Rest))

\* Mutant: windows go on until the start is past the end.
AtEndOfSteps == start + Step >= Len(Rest)

\* The window that reaches the end is the last.
AtEnd == End = Len(Rest)

Window ==
    /\ Cutting /\ Len(Text(Section)) > max_tokens
    /\ out' = Append(out, make_chunk(Peeled \o SubSeq(Rest, start + 1, End)))
    /\ IF AtEnd THEN start' = 0 /\ sections' = Tail(sections)
                ELSE start' = start + Step /\ UNCHANGED sections
    /\ UNCHANGED <<input, walk, pc>>

Finish ==
    /\ pc = "cut" /\ sections = <<>>
    /\ pc' = "done"
    /\ UNCHANGED <<input, walk, sections, start, out>>

split_step ==
    \/ Fence \/ Heading \/ Prose \/ EndOfText
    \/ Blank \/ Whole \/ Window \/ Finish

----------------------------------------------------------------------------
AllWords == FlattenSeq([n \in DOMAIN doc |-> Words(n)])

\* Types; a window always starts before the end of its section, and there are
\* never more chunks than words, so the cutting comes to an end.
TypeOK ==
    /\ max_tokens \in Nat \ {0} /\ overlap \in Nat
    /\ next \in 1..Len(doc) + 1
    /\ in_fence \in BOOLEAN
    /\ stack \in [1..3 -> 0..Len(doc)]
    /\ pc \in {"walk", "cut", "done"}
    /\ pc # "walk" => cur = Untitled
    /\ start > 0 => Cutting /\ start < Len(Rest)
    /\ Len(out) <= Len(AllWords)

Titled(h) == h # 0 /\ doc[h].words > 1

\* The headings that split, by the text before them: no fence is open.
Boundaries ==
    {n \in DOMAIN doc :
        /\ doc[n].level \in 1..3
        /\ Cardinality({f \in 1..n - 1 : doc[f].kind = "fence"}) % 2 = 0}

\* The heading that line n is under, 0 for none.
HeadingOf(n) == LET Above == Boundaries \cap 1..n
                IN CHOOSE h \in Above \cup {0} : \A g \in Above : g <= h

\* The heading chunk k is under; its words without that heading's line.
Home(k) == HeadingOf(Last(out[k].content)[1])
Body(k) ==
    LET c == out[k].content
    IN IF Titled(Home(k)) /\ IsStrictPrefix(Words(Home(k)), c)
       THEN SubSeq(c, doc[Home(k)].words + 1, Len(c)) ELSE c

\* The words of chunk k past those that earlier ones have: it has them in front.
Fresh(k) ==
    LET c == out[k].content
        Seen == {j \in DOMAIN c : \E i \in 1..k - 1 : c[j] \in ToSet(out[i].content)}
    IN SubSeq(c, Cardinality(Seen) + 1, Len(c))

\* The words of lines as they were written.
WordsOf(lines) ==
    FlattenSeq([n \in DOMAIN lines |-> [j \in 1..lines[n].words |-> <<n, j>>]])

\* src/chunk.rs:53-120: every word written in a note of valid UTF-8 is in a
\* chunk, in the note's order, and every chunk has a word that no earlier one
\* has.  Of a note with a byte that is not UTF-8 every word is lost: it has no
\* chunk at all, never those of a part of it.
NothingIsLost ==
    pc = "done" =>
        /\ markdown.utf8 =>
              FlattenSeq([k \in DOMAIN out |-> Fresh(k)]) = WordsOf(markdown.lines)
        /\ ~markdown.utf8 => out = <<>>
        /\ \A k \in DOMAIN out : Fresh(k) # <<>>

\* src/chunk.rs:14 "split into sub-chunks with overlap_tokens word overlap":
\* all windows of a section but the last are full, none is more than full, and
\* each starts with the words the one before ended with, at least one word on.
WindowsOverlap ==
    pc = "done" => \A k \in DOMAIN out :
        /\ Len(Body(k)) <= max_tokens
        /\ k > 1 /\ Home(k) = Home(k - 1) =>
             LET shared == Least(overlap, max_tokens - 1)
             IN /\ Len(Body(k - 1)) = max_tokens /\ Len(Body(k)) > shared
                /\ SubSeq(Body(k), 1, shared)
                     = SubSeq(Body(k - 1), max_tokens - shared + 1, max_tokens)

\* The headings n is under: each until one of its own level or above follows.
Ancestors(n) ==
    {a \in Boundaries \cap 1..n :
        /\ Titled(a)
        /\ \A g \in Boundaries \cap (a + 1)..n : doc[g].level > doc[a].level}

\* src/chunk.rs:9, :11 and :15: no chunk has words of two sections, each begins
\* with the line of its heading, if that has a text and words below it, and its
\* path is the "joined trail of ancestor headings".
ChunksAreSelfIdentifying ==
    pc = "done" => \A k \in DOMAIN out :
        LET c == out[k].content
            path == out[k].path
            h == Home(k)
            below == \E w \in ToSet(AllWords) : HeadingOf(w[1]) = h /\ w[1] > h
        IN /\ \A j \in DOMAIN c : HeadingOf(c[j][1]) = h
           /\ out[k].heading = IF Titled(h) THEN h ELSE 0
           /\ Titled(h) /\ below => IsPrefix(Words(h), c)
           /\ ToSet(path) = Ancestors(h)
           /\ \A i \in 2..Len(path) : path[i - 1] < path[i]

=============================================================================
