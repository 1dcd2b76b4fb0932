---------------------------- MODULE MCProposals ----------------------------
(* Small instances of Proposals for TLC. *)
EXTENDS Proposals, TLC

CONSTANTS r1, r2, p1, p2, t1, t2

TwoRules == {r1, r2}
AutoOne == {r1}
Texts == {t1, t2}
ReasonTwo == [r \in {r1, r2} |-> IF r = r1 THEN t1 ELSE t2]

Symmetry == Permutations({p1, p2})
=============================================================================
