-------------------------- MODULE MCSessionStore --------------------------
(* Small instances of SessionStore for TLC.                                *)
EXTENDS SessionStore, TLC

CONSTANTS k1, k2, i1, i2, r1

TwoKeys      == {k1, k2}
TwoInstances == {i1, i2}
OneRun       == {r1}

Symmetry == Permutations(Keys) \cup Permutations(Instances)
===========================================================================
