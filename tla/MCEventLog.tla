---------------------------- MODULE MCEventLog ----------------------------
(* Small instances of EventLog for TLC. *)
EXTENDS EventLog, TLC

CONSTANTS t1, t2, l1, l2, a, b

Symmetry == Permutations({t1, t2}) \cup Permutations({l1, l2})
=============================================================================
