----------------------------- MODULE MCAdapters -----------------------------
(* Small instances of Adapters for TLC. *)
EXTENDS Adapters, TLC

CONSTANTS a1, a2, w1, w2, i1, i2

Symmetry == Permutations({a1, a2}) \cup Permutations({w1, w2}) \cup Permutations({i1, i2})
=============================================================================
