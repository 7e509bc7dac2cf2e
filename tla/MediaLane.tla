----------------------------- MODULE MediaLane -----------------------------
(***************************************************************************)
(* The media lane of a blended search.  search_media_vec                   *)
(* (src/store/mod.rs) scans the media rows in whatever order they come and *)
(* keeps the nearest in a heap; insert_media_lane (src/search/mod.rs)      *)
(* makes room for some of them in the fused result, at the cost of its     *)
(* last text hits.  Both loops are modelled iteration by iteration.        *)
(*                                                                         *)
(* A hit is its chunk id.  slots is floor(limit * fraction), so anything   *)
(* up to the limit.                                                        *)
(***************************************************************************)
EXTENDS Naturals, Sequences, FiniteSets, SequencesExt, Ranking

CONSTANTS
    TextIds,            \* ids of text chunks
    ImageIds, PdfIds,   \* ids of media chunks
    Distances,          \* bound: cosine distances to the query
    MaxPool             \* bound: limit of the request, and size of the pool

ASSUME LaneAssumption ==
    /\ TextIds \subseteq Nat /\ ImageIds \subseteq Nat /\ PdfIds \subseteq Nat
    /\ TextIds \cap (ImageIds \cup PdfIds) = {} /\ ImageIds \cap PdfIds = {}
    /\ IsFiniteSet(ImageIds) /\ IsFiniteSet(PdfIds)
    /\ Distances \subseteq Nat
    /\ MaxPool \in Nat \ {0}

MediaIds == ImageIds \cup PdfIds

VARIABLES
    candidate_k, \* how many the heap may hold
    distance,    \* of every indexed media chunk to the query
    rows,        \* the rows the scan has not come to
    heap,        \* the best so far, as pairs of a distance and an id
    candidates,  \* the media hits the scan found, nearest first
    limit, slots,
    before,      \* the blended result handed in
    gated,       \* the candidates within their gate
    results,     \* the result as it stands
    inserted,    \* the hits to be admitted
    turn,        \* how many have been
    stage        \* "scan", "gate", "admit" or "done"

scan == <<candidate_k, distance, rows, heap, candidates>>
input == <<limit, slots, before, gated>>
laneVars == <<scan, input, results, inserted, turn, stage>>

IsText(id) == id \in TextIds
IsMedia(id) == id \in ImageIds \cup PdfIds

Media == DOMAIN distance

\* The sequences without repetition over S, up to a length.
Blends(S, n) ==
    UNION {{s \in [1..len -> S] : IsInjective(s)} : len \in 0..n}

LaneInit ==
    /\ candidate_k \in 1..MaxPool
    /\ distance \in UNION {[S -> Distances] : S \in SUBSET MediaIds}
    /\ rows \in SetToSeqs(DOMAIN distance)
    /\ heap = {} /\ candidates = <<>>
    /\ limit = 0 /\ slots = 0 /\ before = <<>> /\ gated = {}
    /\ results = <<>> /\ inserted = <<>>
    /\ turn = 0 /\ stage = "scan"

---------------------------------------------------------------------------
\* search_media_vec

\* Mutant: a tie goes to the row that came first.
CloserAlone(a, b) == a[1] < b[1]

\* The order of the heap: distance, then id.
Closer(a, b) == a[1] < b[1] \/ (a[1] = b[1] /\ a[2] < b[2])

Furthest == CHOOSE a \in heap : \A b \in heap \ {a} : Closer(b, a)

\* TopKByDistance::admit, for the next row of the scan.
Scan ==
    /\ stage = "scan" /\ rows # <<>>
    /\ LET new == <<distance[Head(rows)], Head(rows)>>
       IN heap' = CASE Cardinality(heap) < candidate_k -> heap \cup {new}
                    [] Cardinality(heap) >= candidate_k /\ Closer(new, Furthest) ->
                         (heap \ {Furthest}) \cup {new}
                    [] OTHER -> heap
    /\ rows' = Tail(rows)
    /\ UNCHANGED <<candidate_k, distance, candidates, input, results, inserted, turn, stage>>

into_sorted_vec ==
    LET sorted == Sorted({p \in heap \X heap : Closer(p[1], p[2])}, heap)
    IN [j \in DOMAIN sorted |-> sorted[j][2]]

\* The text rankers hand in their fusion.
Blend ==
    /\ stage = "scan" /\ rows = <<>>
    /\ candidates' = into_sorted_vec
    /\ heap' = {}
    /\ limit' \in 1..candidate_k
    /\ slots' \in 0..limit'
    /\ before' \in Blends(TextIds \cup Media, limit')
    /\ \E gate_image, gate_pdf \in Distances :
         gated' = {id \in ToSet(candidates') :
                     distance[id] <= IF id \in ImageIds THEN gate_image ELSE gate_pdf}
    /\ results' = before'
    /\ stage' = "gate"
    /\ UNCHANGED <<candidate_k, distance, rows, inserted, turn>>

---------------------------------------------------------------------------
\* insert_media_lane

CeilDiv(a, b) == (a + b - 1) \div b

\* The first of the candidates at these positions.
Take(E) == First(Kept(candidates, E), slots)

WithinGate == {m \in DOMAIN candidates : candidates[m] \in gated}

\* Mutant: hits that are in the result already count as candidates.
EligiblePresent == Take(WithinGate)

\* The candidates within their gate that the result does not have.
Eligible == Take({m \in WithinGate : candidates[m] \notin ToSet(before)})

TextAt(s) == {m \in DOMAIN s : IsText(s[m])}

\* Mutant: only free capacity is counted.
AdmissibleFree == Least(limit - Len(before), Len(Eligible))

\* Free capacity plus the text hits that can be displaced.
Admissible ==
    Least((limit - Len(before)) + Cardinality(TextAt(before)), Len(Eligible))

\* Everything before the loop, with its two early returns.
Gate ==
    /\ stage = "gate"
    /\ inserted' = SubSeq(Eligible, 1, Admissible)
    /\ stage' = IF slots = 0 \/ Admissible = 0 THEN "done" ELSE "admit"
    /\ UNCHANGED <<scan, input, results, turn>>

LastText(s) ==
    CHOOSE m \in TextAt(s) : \A j \in TextAt(s) : j <= m

\* A full result loses its last text hit.
MakeRoom ==
    IF Len(results) >= limit THEN RemoveAt(results, LastText(results)) ELSE results

\* One iteration; without a text hit to displace the function returns.
Admit ==
    /\ stage = "admit"
    /\ IF Len(results) >= limit /\ \A m \in DOMAIN results : IsMedia(results[m])
       THEN /\ stage' = "done"
            /\ UNCHANGED <<results, turn>>
       ELSE LET position == CeilDiv(limit, Len(inserted)) * (turn + 1) - 1
            IN /\ results' = InsertAt(MakeRoom, 1 + Least(position, Len(MakeRoom)),
                                      inserted[turn + 1])
               /\ turn' = turn + 1
               /\ stage' = IF turn + 1 = Len(inserted) THEN "done" ELSE "admit"
    /\ UNCHANGED <<scan, input, inserted>>

LaneNext == Scan \/ Blend \/ Gate \/ Admit

LaneSpec == LaneInit /\ [][LaneNext]_laneVars

---------------------------------------------------------------------------
\* store/mod.rs:608 "Top-k media chunks by cosine distance": in whatever order the
\* rows come, the lane is offered them by distance and, at the same distance,
\* by id, and one left out would have come after all of them.
NearestAreConsidered ==
    stage # "scan" =>
        LET Ahead(a, b) == distance[a] < distance[b] \/ (distance[a] = distance[b] /\ a < b)
        IN /\ Len(candidates) = Least(candidate_k, Cardinality(Media))
           /\ \A a, b \in DOMAIN candidates : a < b => Ahead(candidates[a], candidates[b])
           /\ \A a \in ToSet(candidates), b \in Media \ ToSet(candidates) : Ahead(a, b)

\* docs/ARCHITECTURE.md:57: the lane never exceeds the limit, media of the
\* blended result is neither duplicated nor displaced, the text that stays is the
\* best ranked, no text is added, and what stays keeps its order.
FusionIsKept ==
    stage # "scan" =>
        /\ IsInjective(results) /\ Len(results) <= limit
        /\ \A id \in ToSet(before) : IsMedia(id) => id \in ToSet(results)
        /\ \A id \in ToSet(results) : IsText(id) => id \in ToSet(before)
        /\ \A a, b \in TextAt(before) :
             a < b /\ before[b] \in ToSet(results) => before[a] \in ToSet(results)
        /\ \A a, b \in DOMAIN before, m, n \in DOMAIN results :
             results[m] = before[a] /\ results[n] = before[b] /\ a < b => m < n

\* The lane admits media within its gate only, and when it ends as much of it as
\* the share, the gates and the text there is to displace allow: the return
\* inside the loop is never taken.
LaneIsFilled ==
    LET added == ToSet(results) \ ToSet(before)
    IN /\ added \subseteq gated
       /\ stage = "done" =>
            Cardinality(added) =
                Least(Least(slots, Cardinality(gated \ ToSet(before))),
                      (limit - Len(before)) + Cardinality(TextAt(before)))

=============================================================================
