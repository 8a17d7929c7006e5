------------------------------- MODULE Filters -------------------------------
(***************************************************************************)
(* Array.prototype.filter over sequences.  It is SelectSeq with the places *)
(* to keep in place of a test, in a form that can be reasoned about: the   *)
(* place a value comes from is named by how many of those kept come before *)
(* it, not by a recursion.                                                 *)
(***************************************************************************)
EXTENDS Integers, Sequences, FiniteSets

\* The i-th of a set of places.
Place(kept, i) == CHOOSE k \in kept : Cardinality({j \in kept : j <= k}) = i

\* The elements of s at the places in kept, in their order.
Filtered(s, kept) == [i \in 1 .. Cardinality(kept) |-> s[Place(kept, i)]]
=============================================================================
