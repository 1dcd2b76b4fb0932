------------------------- MODULE ProposalLifecycle -------------------------
(***************************************************************************)
(* What layer 6 promises about the status of an action proposal            *)
(* (ARCHITECTURE.md, "Proposal Lifecycle"; ProposalStatus in               *)
(* layer6/types.go): a proposal is born pending, is decided once, executes *)
(* at most once, and a rejected, completed or failed proposal is final.    *)
(*                                                                         *)
(* Approval is the gate: only an approved proposal executes.  A proposal   *)
(* that its process forgets (the manager keeps proposals in memory and     *)
(* does not reload them) is "gone" for good.                               *)
(***************************************************************************)
CONSTANT Proposal

VARIABLE status

States == {"none", "pending", "approved", "rejected", "executing",
           "completed", "failed", "gone"}

Init == status = [p \in Proposal |-> "none"]

Move(p, from, to) ==
  /\ status[p] \in from
  /\ status' = [status EXCEPT ![p] = to]

Approve(p) == Move(p, {"pending"}, "approved")
Reject(p)  == Move(p, {"pending"}, "rejected")
Start(p)   == Move(p, {"approved"}, "executing")
Finish(p)  == Move(p, {"executing"}, "completed") \/ Move(p, {"executing"}, "failed")

\* One evaluation creates one proposal or, for a summary, several at once.
Create == \E P \in SUBSET Proposal :
  /\ \A p \in P : status[p] = "none"
  /\ status' = [p \in Proposal |-> IF p \in P THEN "pending" ELSE status[p]]

\* The process ends: every proposal it has created is forgotten.
Forget == status' = [p \in Proposal |->
                       IF status[p] = "none" THEN "none" ELSE "gone"]

Next ==
  \/ \E p \in Proposal :
       Approve(p) \/ Reject(p) \/ Start(p) \/ Finish(p)
  \/ Create
  \/ Forget

Spec == Init /\ [][Next]_status
=============================================================================
