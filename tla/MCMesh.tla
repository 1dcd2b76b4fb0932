------------------------------- MODULE MCMesh -------------------------------
(* Small instances of Mesh for TLC. *)
EXTENDS Mesh, TLC

CONSTANTS c1, c2, q1, q2

Symmetry == Permutations({c1, c2}) \cup Permutations({q1, q2})
=============================================================================
