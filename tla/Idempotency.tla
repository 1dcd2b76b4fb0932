----------------------------- MODULE Idempotency -----------------------------
(***************************************************************************)
(* The store of processed request IDs (layer1/idempotency.go): seen marks  *)
(* an ID with the time, and cleanupLoop, which wakes once a period, drops  *)
(* the marks that are older than the TTL.                                  *)
(***************************************************************************)
EXTENDS Integers

CONSTANTS
  Request,   \* request IDs
  Caller,    \* goroutines that use IsSeen and then MarkSeen: a bound
  TTL,
  Period,    \* of cleanupLoop; five minutes in the code
  MaxTime    \* a bound on the clock

VARIABLES
  clock,
  seen,      \* IdempotencyStore.seen; 0 for an ID that is not there
  cleaned,   \* cleanupLoop ran at this time
  unseen,    \* what each caller found not seen, and has not marked yet
  last       \* history: when an ID was last taken for new, or marked

vars == <<clock, seen, cleaned, unseen, last>>

Init ==
  /\ clock = 1
  /\ seen = [r \in Request |-> 0]
  /\ cleaned = FALSE
  /\ unseen = [k \in Caller |-> {}]
  /\ last = [r \in Request |-> 0]

Tick ==
  /\ clock < MaxTime
  /\ clock' = clock + 1
  /\ cleaned' = FALSE
  /\ UNCHANGED <<seen, unseen, last>>

Mark(r) ==
  /\ seen' = [seen EXCEPT ![r] = clock]
  /\ last' = [last EXCEPT ![r] = clock]

\* That returns false: the request is taken for new.
CheckAndMark(r) ==
  /\ seen[r] = 0
  /\ Mark(r)
  /\ UNCHANGED <<clock, cleaned, unseen>>

\* IsSeen; the caller goes on to handle the request.
FindUnseen(k, r) ==
  /\ seen[r] = 0
  /\ unseen[k] = {}
  /\ unseen' = [unseen EXCEPT ![k] = {r}]
  /\ UNCHANGED <<clock, seen, cleaned, last>>

MarkSeen(k, r) ==
  /\ r \in unseen[k]
  /\ unseen' = [unseen EXCEPT ![k] = {}]
  /\ Mark(r)
  /\ UNCHANGED <<clock, cleaned>>

\* Mutant: a mark exactly as old as the TTL goes too.
ExpiredOrDue(r) == seen[r] # 0 /\ seen[r] <= clock - TTL

Expired(r) == seen[r] # 0 /\ seen[r] < clock - TTL

\* One turn of cleanupLoop, in time or late: at any time after the first period.
Cleanup ==
  /\ ~cleaned
  /\ clock >= Period
  /\ cleaned' = TRUE
  /\ seen' = [r \in Request |-> IF Expired(r) THEN 0 ELSE seen[r]]
  /\ UNCHANGED <<clock, unseen, last>>

Next ==
  \/ Tick \/ Cleanup
  \/ \E r \in Request : CheckAndMark(r) \/ \E k \in Caller : FindUnseen(k, r) \/ MarkSeen(k, r)

Spec == Init /\ [][Next]_vars

-----------------------------------------------------------------------------
(* Properties *)

\* Every variable has its type.
TypeOK ==
  /\ clock \in 1..MaxTime /\ cleaned \in BOOLEAN
  /\ \A r \in Request : seen[r] \in {0, last[r]} /\ last[r] \in 0..clock
  /\ \A k \in Caller : unseen[k] \subseteq Request

\* CheckAndMark takes a request for new only if its ID was neither taken for new
\* nor marked within the TTL before, however cleanups fall in between: also a
\* late mark, of a caller who had looked before the other one, counts.
OncePerTTL == [][\A r \in Request :
  seen[r] = 0 /\ seen'[r] # 0 /\ UNCHANGED unseen => last[r] = 0 \/ clock - last[r] > TTL]_vars
=============================================================================
