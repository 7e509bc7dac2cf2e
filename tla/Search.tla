------------------------------- MODULE Search -------------------------------
(***************************************************************************)
(* A query (src/search/mod.rs: search_with_options and similar) beside an  *)
(* index that keeps changing.  Every step that touches the store takes its *)
(* mutex for itself: the rankers run one after another in any order, the   *)
(* hits are looked up later, and the writer may commit in between.         *)
(*                                                                         *)
(* A file is one chunk here, and its row id is the next free one, as in    *)
(* Store, so that the id of a deleted chunk may come back as another's.    *)
(* Rankings are arbitrary: no property is about which chunk is nearest.    *)
(* The place of a media hit in the blended result is MediaLane's matter.   *)
(***************************************************************************)
EXTENDS Naturals, Sequences, FiniteSets, SequencesExt, FiniteSetsExt, Ranking

CONSTANTS
    Notes, Images, Pdfs,  \* the files of the vault by kind
    CANDIDATE_K,          \* the least size of a candidate list
    MaxLimit,             \* bound: limit of a request
    MaxId,                \* bound: row ids
    MaxChanges            \* bound: commits during the request

ASSUME SearchAssumption ==
    /\ Notes \cap Images = {} /\ Notes \cap Pdfs = {} /\ Images \cap Pdfs = {}
    /\ IsFiniteSet(Notes) /\ IsFiniteSet(Images) /\ IsFiniteSet(Pdfs)
    /\ {CANDIDATE_K, MaxLimit} \subseteq 1..50
    /\ MaxId \in Nat \ {0} /\ MaxChanges \in Nat

Paths == Notes \cup Images \cup Pdfs
MediaTypes == {"image", "pdf"}
RRF_K == 60

MediaType(p) ==
    CASE p \in Notes  -> "text"
      [] p \in Images -> "image"
      [] p \in Pdfs   -> "pdf"

VARIABLES
    row,      \* the index: the id of each file's chunk, 0 if it has none
    changes,  \* how many commits there were since the request began
    request,  \* what is asked: mode, limit, media types, source, lane slots
    pc,       \* where the request is; "done", "blank" and "failed" end it
    waiting,  \* the rankers that have not answered
    found,    \* the candidate list of each ranker, best first
    hits      \* the answer: a sequence of ids with the path each stood for

vars == <<row, changes, request, pc, waiting, found, hits>>

Modes == {"blended", "lane", "media", "similar"}
Rankers == {"vec", "fts", "media"}

\* The rankers a mode asks.
Asked(mode) ==
    CASE mode = "lane"  -> {"vec", "fts", "media"}
      [] mode = "media" -> {"media"}
      [] OTHER          -> {"vec", "fts"}

Requests ==
    [mode : Modes, limit : 1..MaxLimit, types : SUBSET MediaTypes,
     source : Paths, slots : 0..MaxLimit]

\* Only what the mode reads is varied.
WellFormed(r) ==
    /\ r.mode # "media" => r.types = {}
    /\ r.mode # "similar" => r.source = CHOOSE p \in Paths : TRUE
    /\ IF r.mode = "lane" THEN r.slots <= r.limit ELSE r.slots = 0

Indexed == {p \in Paths : row[p] # 0}
OwnerOf(id) == {p \in Paths : row[p] = id}
Owned(id) == id # 0 /\ OwnerOf(id) # {}

Init ==
    /\ row \in {f \in [Paths -> 0..MaxId] :
                  \A p, q \in Paths : f[p] = f[q] => p = q \/ f[p] = 0}
    /\ changes = 0
    /\ request \in {r \in Requests : WellFormed(r)}
    /\ pc = "idle"
    /\ waiting = {}
    /\ found = [k \in Rankers |-> <<>>]
    /\ hits = <<>>

---------------------------------------------------------------------------
\* The writer, as AtomicIndex has it.

Unrow(p) == [row EXCEPT ![p] = 0]

ReplaceFile(p) ==
    LET id == 1 + Max({Unrow(p)[q] : q \in Paths})
    IN /\ id <= MaxId
       /\ row' = [row EXCEPT ![p] = id]

RemoveFile(p) ==
    /\ row[p] # 0
    /\ row' = Unrow(p)

Commit ==
    /\ pc \in {"source", "rank", "hydrate", "lane"}
    /\ changes < MaxChanges
    /\ changes' = changes + 1
    /\ \E p \in Paths : ReplaceFile(p) \/ RemoveFile(p)
    /\ UNCHANGED <<request, pc, waiting, found, hits>>

---------------------------------------------------------------------------
\* The request.

\* search_with_options: nothing is looked for when the query is blank; else
\* it is embedded, and the vector's size checked.
EmbedQuery ==
    /\ pc = "idle" /\ request.mode # "similar"
    /\ \/ pc' = "rank" /\ waiting' = Asked(request.mode)
       \/ pc' \in {"blank", "failed"} /\ UNCHANGED waiting
    /\ UNCHANGED <<row, changes, request, found, hits>>

AskSimilar ==
    /\ pc = "idle" /\ request.mode = "similar"
    /\ pc' = "source"
    /\ UNCHANGED <<row, changes, request, waiting, found, hits>>

chunks_for_similar(p) == {row[p]} \ {0}

\* similar: the mean of the source's vectors, and the words of its text chunks.
\* Without a chunk the answer is empty when the file is indexed, and an error
\* when it is not.
ReadSource ==
    /\ pc = "source"
    /\ IF chunks_for_similar(request.source) = {}
       THEN pc' \in {"done", "failed"} /\ UNCHANGED waiting
       ELSE pc' = "rank" /\ waiting' = Asked("similar")
    /\ UNCHANGED <<row, changes, request, found, hits>>

PoolSize == Max({CANDIDATE_K, request.limit})

\* The rankings of n of the elements of S.
Rankings(S, n) == {s \in [1..n -> S] : IsInjective(s)}

\* The rows search_media_vec scans.
MediaRows ==
    {row[p] : p \in {q \in Indexed \ Notes :
                       request.types = {} \/ MediaType(q) \in request.types}}

\* Media has no words to look for.
HasWords == request.mode = "similar" => request.source \in Notes

\* The rows a ranker may return.
Scanned(ranker) ==
    CASE ranker = "vec"   -> {row[p] : p \in Indexed}
      [] ranker = "fts"   -> IF HasWords THEN {row[p] : p \in Indexed \cap Notes} ELSE {}
      [] ranker = "media" -> MediaRows

\* The vector rankers return the pool; the words of the query may match any
\* rows, or none when the words are no FTS query.
Lists(ranker) ==
    LET S == Scanned(ranker)
        full == Least(PoolSize, Cardinality(S))
    IN IF ranker = "fts" THEN UNION {Rankings(S, n) : n \in 0..full}
                         ELSE Rankings(S, full)

Rank ==
    /\ pc = "rank"
    /\ \E ranker \in waiting :
         /\ waiting' = waiting \ {ranker}
         /\ \E list \in Lists(ranker) : found' = [found EXCEPT ![ranker] = list]
    /\ pc' = IF waiting' = {} THEN "hydrate" ELSE "rank"
    /\ UNCHANGED <<row, changes, request, hits>>

\* What one is divided by for the share of an id in a list.
Divisor(list, id) == RRF_K + CHOOSE k \in DOMAIN list : list[k] = id

\* Mutant: the second list overwrites the share of the first.
ScoreOfLastList(a, b, id) ==
    <<1, IF id \in ToSet(b) THEN Divisor(b, id) ELSE Divisor(a, id)>>

\* The sum of the shares, as a fraction.  The code adds doubles: sums of two
\* fractions with divisors up to 110 are too far apart for the rounding to
\* reverse them, and no property is about the order of equal ones.
Score(a, b, id) ==
    LET x == Divisor(a, id)
        y == Divisor(b, id)
    IN CASE id \in ToSet(a) \cap ToSet(b) -> <<x + y, x * y>>
         [] id \in ToSet(a) \ ToSet(b)    -> <<1, x>>
         [] OTHER                         -> <<1, y>>

Higher(s, t) == s[1] * t[2] > t[1] * s[2]

\* By score, then by id.
Ahead(a, b, x, y) ==
    \/ Higher(Score(a, b, x), Score(a, b, y))
    \/ ~Higher(Score(a, b, y), Score(a, b, x)) /\ x < y

\* fuse_rrf_ranked
Fuse(a, b) ==
    LET ids == ToSet(a) \cup ToSet(b)
    IN Sorted({p \in ids \X ids : Ahead(a, b, p[1], p[2])}, ids)

Hit(id) == [id |-> id, path |-> CHOOSE p \in OwnerOf(id) : TRUE]

Excluded(id) == request.mode = "similar" /\ request.source \in OwnerOf(id)

\* The positions of the ids that still are rows, and not the source's.
Answering(ids) == {k \in DOMAIN ids : Owned(ids[k]) /\ ~Excluded(ids[k])}

HitsOf(ids) == [k \in DOMAIN ids |-> Hit(ids[k])]

\* Mutant: the limit counts the rows that are passed over.
HydrateHead(ids, n) == HitsOf(Kept(First(ids, n), Answering(First(ids, n))))

\* Mutant: the source file is not passed over.
HydrateSource(ids, n) ==
    HitsOf(First(Kept(ids, {k \in DOMAIN ids : Owned(ids[k])}), n))

Hydrate(ids, n) == HitsOf(First(Kept(ids, Answering(ids)), n))

Fused ==
    IF request.mode = "media" THEN Fuse(found["media"], <<>>)
                              ELSE Fuse(found["vec"], found["fts"])

HydrateHits ==
    /\ pc = "hydrate"
    /\ hits' = Hydrate(Fused, request.limit)
    /\ pc' = IF request.mode = "lane" THEN "lane" ELSE "done"
    /\ UNCHANGED <<row, changes, request, waiting, found>>

IsNote(hit) == hit.path \in Notes

MediaHits == Hydrate(Fuse(found["media"], <<>>), PoolSize)

\* Media has a gate, text has none.
InGate(hit, within) == ~IsNote(hit) /\ hit.id \in within

\* Mutant: a candidate the result has already is admitted again.
NewHitsAgain(media, within) == Kept(media, {k \in DOMAIN media : InGate(media[k], within)})

\* The media candidates within their gate that the result does not have.
NewHits(media, within) ==
    Kept(media, {k \in DOMAIN media :
                   /\ InGate(media[k], within)
                   /\ \A j \in DOMAIN hits : hits[j].id # media[k].id})

\* insert_media_lane: at most slots of them come in, the last text hits make room.
InsertMediaLane(new) ==
    LET texts == {k \in DOMAIN hits : IsNote(hits[k])}
        free == request.limit - Len(hits)
        admitted == First(new, Least(request.slots, free + Cardinality(texts)))
        gone == {k \in texts : Cardinality({m \in texts : m >= k}) + free <= Len(admitted)}
    IN Kept(hits, DOMAIN hits \ gone) \o admitted

\* The second lookup, and the insertion.
AddMedia ==
    /\ pc = "lane"
    /\ \E within \in SUBSET ToSet(found["media"]) :
         hits' = InsertMediaLane(NewHits(MediaHits, within))
    /\ pc' = "done"
    /\ UNCHANGED <<row, changes, request, waiting, found>>

\* A store error ends the request.
StoreError ==
    /\ pc \in {"source", "rank", "hydrate", "lane"}
    /\ pc' = "failed"
    /\ hits' = <<>>
    /\ UNCHANGED <<row, changes, request, waiting, found>>

Next ==
    \/ Commit
    \/ EmbedQuery \/ AskSimilar \/ ReadSource
    \/ Rank \/ HydrateHits \/ AddMedia
    \/ StoreError

Spec == Init /\ [][Next]_vars

---------------------------------------------------------------------------
\* A chunk is in an answer once, whatever is committed between the lookup of
\* the blended hits and that of the media hits.
HitsAreDistinct == \A j, k \in DOMAIN hits : hits[j].id = hits[k].id => j = k

\* The files a request is about.
Corpus ==
    CASE request.mode = "media"   -> {p \in Indexed \ Notes :
                                        request.types = {} \/ MediaType(p) \in request.types}
      [] request.mode = "similar" -> Indexed \ {request.source}
      [] OTHER                    -> Indexed

Quiet == pc = "done" /\ changes = 0

\* The file one asks about is never among the files like it, even when it is
\* indexed anew, under other row ids, in the middle of the request; and as long
\* as nothing is committed meanwhile, an answer is of the corpus asked for.
AnswersTheCorpus ==
    \A k \in DOMAIN hits :
        /\ request.mode = "similar" => hits[k].path # request.source
        /\ Quiet => hits[k].path \in Corpus

\* An answer is never longer than asked for.  As long as nothing is committed
\* meanwhile, and the pool holds every chunk, the page is full: hits are passed
\* over before the limit counts, and the lane gives back every place it takes.
\* (A file without a chunk has nothing to be similar to.)
PageIsFull ==
    /\ Len(hits) <= request.limit
    /\ /\ Quiet /\ Cardinality(Indexed) <= PoolSize
       /\ request.mode = "similar" => row[request.source] # 0
       => Len(hits) = Least(request.limit, Cardinality(Corpus))

\* RRF with k = 60: what both rankers found is ahead of what only one did, at
\* whatever ranks a list can have: 2 / (60 + 50) is more than 1 / 61.
FoundByBothFirst ==
    request.mode \in {"blended", "similar"} =>
        LET Both == ToSet(found["vec"]) \cap ToSet(found["fts"])
        IN \A j, k \in DOMAIN hits :
             hits[j].id \in Both /\ hits[k].id \notin Both => j < k

=============================================================================
