---------------------------- MODULE OrderedSets ----------------------------
(***************************************************************************)
(* Finite sets of integers in increasing order: the position of an element *)
(* and the sequence of them all.  The definitions are first-order, so that *)
(* what selects the entries of a log or of a file can be reasoned about.   *)
(***************************************************************************)
EXTENDS Integers, FiniteSets

\* How many elements of S are not above i: of an element, its position.
Rank(S, i) == Cardinality({h \in S : h <= i})

\* The elements of S in increasing order.
InOrder(S) == [j \in 1..Cardinality(S) |-> CHOOSE i \in S : Rank(S, i) = j]

\* The elements of the sequence s whose places are in S, in their order.
AtPlaces(s, S) == [j \in 1..Cardinality(S) |-> s[InOrder(S)[j]]]
=============================================================================
