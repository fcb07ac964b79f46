----------------------------- MODULE Enumeration -----------------------------
(***************************************************************************)
(* Sets of numbers in order, and the part of a sequence at a set of        *)
(* places, each element placed by how many are ahead of it.                *)
(***************************************************************************)
EXTENDS Integers, Sequences, FiniteSets

\* The i-th least element of a finite set of numbers.
Nth(S, i) == CHOOSE x \in S : Cardinality({y \in S : y < x}) = i - 1

\* A finite set of numbers as a sequence, least first.
Ascending(S) == [i \in 1..Cardinality(S) |-> Nth(S, i)]

\* What a sequence holds at these places, in the order it has there.
Picked(s, places) == [i \in 1..Cardinality(places) |-> s[Nth(places, i)]]
=============================================================================
