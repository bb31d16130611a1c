----------------------------- MODULE Positions -----------------------------
(***************************************************************************)
(* The part of a list a loop keeps: the elements at some positions, in     *)
(* their order.  (SelectSeq says the same; this form names the n-th        *)
(* element, which a proof can reason about.)                               *)
(***************************************************************************)
EXTENDS Naturals, Sequences, FiniteSets

\* How many positions of I there are up to i.
Rank(I, i) == Cardinality(I \cap 1..i)

\* The elements of s at the positions I: its n-th is the n-th of them.
Picked(s, I) == [n \in 1..Cardinality(I) |-> s[CHOOSE i \in I : Rank(I, i) = n]]

\* The elements of s that are among some.
KeptAmong(s, those) == Picked(s, {i \in DOMAIN s : s[i] \in those})

=============================================================================
