----------------------------- MODULE MCCatalog -----------------------------
(* Small instances of Catalog for TLC. *)
EXTENDS Catalog, TLC

CONSTANTS o1, o2, o3

Symmetry == Permutations({o1, o2, o3})

\* What an object holds once nothing points to it is never read again.
Live == <<[o \in Reachable \ {Nil} |-> heap[o]], entities, index, pc, held, target>>
=============================================================================
