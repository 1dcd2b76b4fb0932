----------------------------- MODULE MCObservers -----------------------------
(***************************************************************************)
(* The components of Observers in one run: a behaviour is one of one of    *)
(* them, which is chosen in the initial state, while the variables of the  *)
(* other stay as they are.                                                 *)
(***************************************************************************)
EXTENDS Observers

VARIABLE part  \* the component that runs

tele == <<db, clock, item, step, buffer, stored, trace, holding, done, stopped,
          subs, pending, closed, accepted, failed, received, crashed>>
coor == <<started, ended, known, found, peers, coordinatorID, isCoordinator, changes, dropped>>

Init ==
  /\ part \in {"telemetry", "coordinators"}
  /\ Telemetry!Init
  /\ Coordinators!Init

Next ==
  /\ UNCHANGED part
  /\ \/ part = "telemetry" /\ Telemetry!Next /\ UNCHANGED coor
     \/ part = "coordinators" /\ Coordinators!Next /\ UNCHANGED tele

Spec ==
  /\ Init /\ [][Next]_<<part, tele, coor>>
  /\ Telemetry!Fairness /\ Coordinators!Fairness
=============================================================================
