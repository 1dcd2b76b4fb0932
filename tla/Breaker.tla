------------------------------- MODULE Breaker -------------------------------
(***************************************************************************)
(* The circuit breaker of layer 1 (circuit_breaker.go).  Execute asks,     *)
(* calls and records in three steps, and many callers are between them at  *)
(* a time.  No statement of the code makes the state CircuitHalfOpen, so   *)
(* an open circuit whose timeout is over lets everybody try.               *)
(***************************************************************************)
EXTENDS Integers

CONSTANTS
  Caller,        \* goroutines in Execute: a bound
  Threshold,
  ResetTimeout   \* in ticks of the clock

VARIABLES
  state,      \* "closed" or "open"
  failCount,
  age,        \* of lastFailTime, up to one tick more than the timeout
  calling,    \* the callers whose function runs
  streak      \* history: failures since the last success or Reset, up to Threshold

vars == <<state, failCount, age, calling, streak>>

Least(a, b) == IF a < b THEN a ELSE b

Init ==
  /\ state = "closed"
  /\ failCount = 0
  /\ age = ResetTimeout + 1
  /\ calling = {}
  /\ streak = 0

Tick ==
  /\ age' = Least(age + 1, ResetTimeout + 1)
  /\ UNCHANGED <<state, failCount, calling, streak>>

\* Execute: AllowRequest
AllowRequest(k) ==
  /\ k \notin calling
  /\ state = "closed" \/ age > ResetTimeout
  /\ calling' = calling \cup {k}
  /\ UNCHANGED <<state, failCount, age, streak>>

\* A success while the circuit is closed does not take back a failure.
RecordSuccess(k) ==
  /\ k \in calling
  /\ calling' = calling \ {k}
  /\ state' = "closed"
  /\ failCount' = IF state = "open" THEN 0 ELSE failCount
  /\ streak' = 0
  /\ UNCHANGED age

\* Mutant: one failure too many.
RecordFailureLate(k) ==
  /\ k \in calling
  /\ calling' = calling \ {k}
  /\ failCount' = Least(failCount + 1, Threshold + 1)
  /\ age' = 0
  /\ state' = IF failCount' > Threshold THEN "open" ELSE state
  /\ streak' = Least(streak + 1, Threshold)

\* failCount goes on counting; the bound is one that no test can tell from more.
RecordFailure(k) ==
  /\ k \in calling
  /\ calling' = calling \ {k}
  /\ failCount' = Least(failCount + 1, Threshold + 1)
  /\ age' = 0
  /\ state' = IF failCount' >= Threshold THEN "open" ELSE state
  /\ streak' = Least(streak + 1, Threshold)

Reset ==
  /\ state' = "closed"
  /\ failCount' = 0
  /\ streak' = 0
  /\ UNCHANGED <<age, calling>>

Next ==
  \/ Tick \/ Reset
  \/ \E k \in Caller : AllowRequest(k) \/ RecordSuccess(k) \/ RecordFailure(k)

Spec == Init /\ [][Next]_vars

-----------------------------------------------------------------------------
(* Properties *)

\* Every variable has its type.
TypeOK ==
  /\ state \in {"closed", "open"}
  /\ failCount \in 0..(Threshold + 1) /\ streak \in 0..Threshold
  /\ age \in 0..(ResetTimeout + 1)
  /\ calling \subseteq Caller

\* When the last Threshold outcomes were failures, in whatever order the calls
\* were made, no call is let through until the timeout after the last of them.
FailsFast == [][streak >= Threshold /\ age <= ResetTimeout => calling' \subseteq calling]_vars
=============================================================================
