------------------------------ MODULE Observers ------------------------------
(***************************************************************************)
(* Telemetry and the choice of a coordinator: two components that neither  *)
(* call each other nor share state, and whose goroutines must be scheduled *)
(* for what they promise.  Each is an INSTANCE with variables and          *)
(* constants of its own.  MCObservers runs them on small instances;        *)
(* ObserversProofs proves what is proved about them.                       *)
(***************************************************************************)
EXTENDS Integers

CONSTANTS Item, Source, Channel, Capacity, Pending, Interval, Limit, EndOfTime, All, None
VARIABLES db, clock, item, step, buffer, stored, trace, holding, done, stopped,
          subs, pending, closed, accepted, failed, received, crashed
Telemetry == INSTANCE Telemetry WITH Entity <- Source, MaxTime <- EndOfTime

\* None is not an item, as holding is one or the other, nor a trace; intervals take
\* time, and the clock starts at one.
ASSUME TelemetryAssumption ==
  /\ None \notin Item
  /\ Interval \in Nat \ {0} /\ EndOfTime \in Nat \ {0} /\ Limit \in Nat
  /\ None \notin [start : Nat, end : Nat, of : SUBSET Source]

CONSTANTS Node, Changes
VARIABLES started, ended, known, found, peers, coordinatorID, isCoordinator, changes, dropped
Coordinators == INSTANCE Coordinators WITH stopped <- ended

\* Node IDs are compared: they are numbered in their order, from one, as zero
\* stands for the empty string.
ASSUME CoordinatorsAssumption == Node \subseteq Nat \ {0} /\ Changes \in Nat

-----------------------------------------------------------------------------
(* Properties: each is stated, and explained, in the component's module. *)

\* What a collector took is stored, refused or buffered, once and in order.
NothingLost == Telemetry!NothingLost

\* Subscribers get events once, in order, none too early, on open channels only.
SubscribersServed == Telemetry!SubscribersServed

\* Timelines are sorted and complete up to the limit of a statement; in memory
\* aggregations count each metric once.
QueriesRight == Telemetry!QueriesRight

\* What a collector took is dealt with in the end; no subscriber holds it up.
Recorded == Telemetry!Recorded

\* Nodes come to know one another and agree on one coordinator.
OneCoordinator == Coordinators!OneCoordinator
=============================================================================
