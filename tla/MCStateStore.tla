---------------------------- MODULE MCStateStore ----------------------------
(* Small instances of StateStore for TLC. *)
EXTENDS StateStore, TLC

CONSTANTS o1, o2, number, float

Symmetry == Permutations({o1, o2})

MCJson == [v \in {number, float} |-> float]

\* What an object holds once nothing points to it is never read again.
Live == <<[o \in Reachable \ {Nil} |-> heap[o]], states, db, snaps, goroutine,
          process>>
=============================================================================
