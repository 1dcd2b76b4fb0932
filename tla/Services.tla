------------------------------- MODULE Services -------------------------------
(***************************************************************************)
(* Eight components that call none of the others and share no state: each  *)
(* is an INSTANCE with variables and constants of its own, and what it     *)
(* promises is named here.  MCServices runs them on small instances;       *)
(* ServicesProofs proves the promises for all constants that meet the      *)
(* assumptions below.                                                      *)
(***************************************************************************)
EXTENDS Integers, FiniteSets, Sequences

CONSTANT Nil

-----------------------------------------------------------------------------
(* Layer 5 *)

CONSTANTS Box, Proc, User, Interface
VARIABLES dir, record, copy, doing, alive, owner, misused
Wsl2 == INSTANCE Wsl2 WITH disk <- record, started <- owner, odd <- misused

\* Nil is neither an ID nor a process nor a record.
ASSUME Wsl2Assumption == Nil \notin Box \cup Proc \cup Wsl2!Record

CONSTANTS Container, Net, NetName, Client, Given
VARIABLES status, running, paused, calls, name, address, odd, freed, given
Workloads == INSTANCE Workloads WITH Name <- NetName, Caller <- Client

\* IDs are uuids, and none of the words that say what a caller is about to do.
ASSUME WorkloadsAssumption == Container \cap {"idle", "start", "look"} = {}

CONSTANTS Image, Name
VARIABLES images, tag, disk, whole, byName, standing
Images == INSTANCE Images

\* IDs are cut from uuids (numbered here as they are drawn), and never a name:tag.
ASSUME ImagesAssumption ==
  /\ Image \subseteq Nat
  /\ Image \cap Name = {}
  /\ Nil \notin Image \cup Name

-----------------------------------------------------------------------------
(* Layer 1 *)

CONSTANTS Caller, Threshold, ResetTimeout
VARIABLES state, failCount, age, calling, streak
Breaker == INSTANCE Breaker

ASSUME BreakerAssumption == Threshold \in Nat \ {0} /\ ResetTimeout \in Nat

CONSTANTS RequestID, TTL, Period, MaxClock
VARIABLES now, seen, cleaned, unseen, last
Idempotency == INSTANCE Idempotency WITH
  Request <- RequestID, MaxTime <- MaxClock, clock <- now

ASSUME IdempotencyAssumption == TTL \in Nat /\ Period \in Nat /\ MaxClock \in Nat \ {0}

-----------------------------------------------------------------------------
(* Layer 2 *)

CONSTANTS Entity, MaxListed
VARIABLES entities, rel, asked, added, stranded
Relations == INSTANCE Relations

\* IDs in the catalog are finitely many, and the empty ID is none.
ASSUME RelationsAssumption == IsFiniteSet(Entity) /\ Nil \notin Entity

-----------------------------------------------------------------------------
(* The policy engine *)

CONSTANTS Id, Priority, Request, RuleList, MaxPerMin, Minute, LastTick
VARIABLES policies, limited, time, count, lastReset, passed
Policies == INSTANCE Policies WITH MaxTime <- LastTick, clock <- time

\* Priorities are numbers; a limit of zero is none.
ASSUME PoliciesAssumption ==
  /\ IsFiniteSet(Id) /\ Priority \subseteq Int
  /\ MaxPerMin \in Nat \ {0} /\ Minute \in Nat /\ LastTick \in Nat \ {0}

-----------------------------------------------------------------------------
(* Layer 6 *)

CONSTANTS Type, Word, Metric, Written, Tuner, Top, Few, Some, Many, Streak, MaxCount
VARIABLES rules, tuning, earned, since, way
Rules == INSTANCE Rules

\* Finitely many rules are written, with thresholds on the scale.
ASSUME RulesAssumption ==
  /\ IsFiniteSet(Rules!RuleID) /\ Nil \notin Rules!RuleID
  /\ \A r \in Written : /\ r.priority \in Int /\ r.conditions \in Seq(Rules!Condition)
                         /\ {r.enabled, r.auto} \subseteq BOOLEAN
  /\ {Top, Few, Some, Many, Streak, MaxCount} \subseteq Nat

-----------------------------------------------------------------------------
(* Properties: each is stated, and explained, in the component's module. *)

\* Every variable of each component has its type.
TypesOK ==
  /\ Wsl2!TypeOK /\ Workloads!TypeOK /\ Images!TypeOK /\ Breaker!TypeOK
  /\ Idempotency!TypeOK /\ Policies!TypeOK /\ Rules!TypeOK /\ Relations!TypeOK

\* A process in a WSL2 container that is used with care is on its record.
RunningRecorded == Wsl2!RunningRecorded

\* A simulated container's status and its Running flag agree.
StatusAgrees == Workloads!StatusAgrees

\* Prune never removes a container that runs.
PruneSpares == Workloads!PruneSpares

\* The addresses a network computes differ until an endpoint is disconnected.
AddressesDiffer == Workloads!AddressesDiffer

\* A name leads to the newest image made under it since one was removed.
NamesLead == Images!NamesLead

\* After a streak of failures no call is let through before the timeout.
FailsFast == Breaker!FailsFast

\* Within the TTL CheckAndMark takes an ID for new once.
OncePerTTL == Idempotency!OncePerTTL

\* Cycles and impacted entities are found, and Deregister strands nobody.
DependenciesSound == Relations!DependenciesSound

\* A request is answered by the matching policy, an event by the matching rule,
\* of the highest priority; and tuning and promotion follow a rule's outcomes.
DecisionsRight == Policies!PolicyRight /\ Rules!RulesRight
=============================================================================
