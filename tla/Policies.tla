------------------------------ MODULE Policies ------------------------------
(***************************************************************************)
(* The policy engine (policy/engine.go) and its rate limiter               *)
(* (policy/rate_limiter.go).  AddPolicy keeps the list sorted by priority  *)
(* and Evaluate goes by the first rule that matches; a request that no     *)
(* rule matches is denied.  A request counts against its limit first,      *)
(* whatever the policies then say.                                         *)
(*                                                                         *)
(* A rule is the set of requests it matches (patterns and conditions) and  *)
(* an effect.                                                              *)
(***************************************************************************)
EXTENDS Integers, SequencesExt, FiniteSetsExt

CONSTANTS
  Id,         \* of policies
  Priority,
  Request,
  RuleList,   \* the rules a policy may have: sequences of rules
  MaxPerMin,  \* of the limit, on the one action (0 in the code is none)
  Minute,     \* in ticks of the clock
  MaxTime     \* a bound on the clock

VARIABLES
  policies,   \* Engine.policies
  limited,    \* SetLimit was called
  clock,
  count,      \* of the actor's bucket
  lastReset,  \* of the bucket; 0 before there is one
  passed      \* history: when the limiter let a request pass, under the limit

bucket == <<limited, clock, count, lastReset, passed>>
vars   == <<policies, bucket>>

Effect == {"allow", "deny"}
Rule   == [of : SUBSET Request, effect : Effect]
Policy == [id : Id, priority : Priority, enabled : BOOLEAN, rules : RuleList]
Deny   == [effect |-> "deny", by |-> {}]

Init ==
  /\ policies = <<>>
  /\ limited = FALSE
  /\ clock = 1
  /\ count = 0
  /\ lastReset = 0
  /\ passed = <<>>

-----------------------------------------------------------------------------
(* The policies *)

\* sort.Slice: policies of one priority may end in any order.
Sorted(list) ==
  {[n \in DOMAIN list |-> list[p[n]]] :
     p \in {q \in [DOMAIN list -> DOMAIN list] :
              /\ IsInjective(q)
              /\ \A m, n \in DOMAIN list : m < n => list[q[m]].priority >= list[q[n]].priority}}

AddPolicy(p) ==
  /\ \/ \E n \in DOMAIN policies :
          policies[n].id = p.id /\ policies' \in Sorted([policies EXCEPT ![n] = p])
     \/ /\ \A n \in DOMAIN policies : policies[n].id # p.id
        /\ policies' \in Sorted(Append(policies, p))
  /\ UNCHANGED bucket

RemovePolicy(i) ==
  /\ \E n \in DOMAIN policies :
       policies[n].id = i /\ policies' = RemoveAt(policies, n)
  /\ UNCHANGED bucket

\* The first rule of a policy that matches a request.
First(p, r) == CHOOSE n \in DOMAIN p.rules :
  /\ r \in p.rules[n].of
  /\ \A m \in 1..(n - 1) : r \notin p.rules[m].of

Matches(p, r) == p.enabled /\ \E n \in DOMAIN p.rules : r \in p.rules[n].of

\* What Evaluate answers to a request within its limit: by the first policy that
\* matches.
Decision(r) ==
  LET matching == {n \in DOMAIN policies : Matches(policies[n], r)}
      p == policies[Min(matching)]
  IN  IF matching = {} THEN Deny
      ELSE [effect |-> p.rules[First(p, r)].effect, by |-> {p.id}]

-----------------------------------------------------------------------------
(* The limiter *)

SetLimit ==
  /\ limited' = TRUE
  /\ UNCHANGED <<policies, clock, count, lastReset, passed>>

Tick ==
  /\ clock < MaxTime
  /\ clock' = clock + 1
  /\ UNCHANGED <<policies, limited, count, lastReset, passed>>

\* Evaluate: a bucket is made with the first request under the limit.
Evaluate ==
  /\ limited
  /\ LET over == lastReset = 0 \/ clock - lastReset > Minute
         used == IF over THEN 0 ELSE count
     IN  /\ lastReset' = IF over THEN clock ELSE lastReset
         /\ IF used >= MaxPerMin
              THEN count' = used /\ UNCHANGED passed
              ELSE count' = used + 1 /\ passed' = Append(passed, clock)
  /\ UNCHANGED <<policies, limited, clock>>

Next ==
  \/ \E p \in Policy : AddPolicy(p)
  \/ \E i \in Id : RemovePolicy(i)
  \/ SetLimit \/ Tick \/ Evaluate

Spec == Init /\ [][Next]_vars

-----------------------------------------------------------------------------
(* Properties *)

\* Every variable has its type.
TypeOK ==
  /\ policies \in Seq(Policy) /\ Len(policies) <= Cardinality(Id)
  /\ limited \in BOOLEAN
  /\ clock \in 1..MaxTime /\ lastReset \in 0..clock
  /\ count \in 0..MaxPerMin

\* A request that is within its limit is answered by a matching policy of the
\* highest priority among those that match, by the effect of its first matching
\* rule, and denied if none matches, after whatever was added, replaced and
\* removed; and fewer than twice the limit pass within any minute.
PolicyRight ==
  /\ \A r \in Request :
       LET all == {policies[n] : n \in {m \in DOMAIN policies : Matches(policies[m], r)}}
           top == {p \in all : \A q \in all : q.priority <= p.priority}
       IN  IF all = {} THEN Decision(r) = Deny
           ELSE \E p \in top :
                  Decision(r) = [effect |-> p.rules[First(p, r)].effect, by |-> {p.id}]
  /\ \A p, q \in Range(policies) : p.id = q.id => p = q
  /\ \A n \in DOMAIN passed :
       n + 2 * MaxPerMin - 1 \in DOMAIN passed => passed[n + 2 * MaxPerMin - 1] - passed[n] > Minute
=============================================================================
