--------------------------- MODULE MCRealContainer ---------------------------
(* Small instances of RealContainer for TLC. *)
EXTENDS RealContainer, TLC

CONSTANTS q1, q2, q3

Symmetry == Permutations({q1, q2, q3})
=============================================================================
