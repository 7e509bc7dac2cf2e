------------------------------- MODULE Ranking -------------------------------
(***************************************************************************)
(* Sorting, filtering and truncating, said by ranks and positions: what    *)
(* the sorts, filters and takes of src/search/mod.rs and src/store/mod.rs  *)
(* return, with nothing recursive in it.                                   *)
(***************************************************************************)
EXTENDS Naturals, Sequences, FiniteSets

Least(a, b) == IF a <= b THEN a ELSE b

\* The place of x among S in the order R, a set of pairs.
RankIn(R, S, x) == Cardinality({y \in S : y = x \/ <<y, x>> \in R})

\* S in the order R.
Sorted(R, S) == [j \in 1..Cardinality(S) |-> CHOOSE x \in S : RankIn(R, S, x) = j]

\* The j-th of a set of numbers.
Place(E, j) == CHOOSE m \in E : Cardinality({n \in E : n <= m}) = j

\* What s has at the positions E.
Kept(s, E) == [j \in 1..Cardinality(E) |-> s[Place(E, j)]]

\* The first n of s.
First(s, n) == SubSeq(s, 1, Least(n, Len(s)))

=============================================================================
