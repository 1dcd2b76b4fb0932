----------------------------- MODULE MCServices -----------------------------
(***************************************************************************)
(* The components of Services in one run: a behaviour is one of one of     *)
(* them, chosen in the initial state, while the variables of the others    *)
(* keep their initial values.                                              *)
(***************************************************************************)
EXTENDS Services, TLC

VARIABLE part  \* the component that runs

\* A policy without rules, one with a rule, one with two.
MCRuleList ==
  {<<>>, <<[of |-> {"start"}, effect |-> "allow"]>>,
   <<[of |-> {"start", "stop"}, effect |-> "deny"], [of |-> {"start"}, effect |-> "allow"]>>}

\* A condition that asks for nothing yet.
Blank == [type |-> Nil, word |-> Nil, metric |-> Nil, op |-> Nil, value |-> 0]

Above(v) == [Blank EXCEPT !.metric = "cpu", !.op = ">", !.value = v]
Below(v) == [Blank EXCEPT !.metric = "cpu", !.op = "<=", !.value = v]
Other(v) == [Blank EXCEPT !.metric = "cpu", !.op = "!=", !.value = v]

\* A rule on an interval, one that takes its place, a rule on events and words,
\* one that is off.
MCWritten ==
  {[id |-> 1, priority |-> 1, enabled |-> TRUE, conditions |-> <<Above(1), Below(1)>>, auto |-> FALSE],
   [id |-> 1, priority |-> 2, enabled |-> TRUE, auto |-> TRUE,
    conditions |-> <<Above(0), [Blank EXCEPT !.word = "oom"]>>],
   [id |-> 2, priority |-> 1, enabled |-> TRUE, auto |-> FALSE,
    conditions |-> <<Other(1), [Blank EXCEPT !.type = "crash", !.word = "oom"]>>],
   [id |-> 2, priority |-> 3, enabled |-> FALSE, conditions |-> <<Below(2)>>, auto |-> FALSE]}

wsl  == <<dir, record, copy, doing, alive, owner, misused>>
work == <<status, running, paused, calls, name, address, odd, freed, given>>
imag == <<images, tag, disk, whole, byName, standing>>
brea == <<state, failCount, age, calling, streak>>
idem == <<now, seen, cleaned, unseen, last>>
poli == <<policies, limited, time, count, lastReset, passed>>
rela == <<entities, rel, asked, added, stranded>>
rule == <<rules, tuning, earned, since, way>>
vars == <<part, wsl, work, imag, brea, idem, poli, rela, rule>>

Part == {"wsl2", "workloads", "images", "breaker", "idempotency", "policies", "relations",
         "rules"}

Init ==
  /\ part \in Part
  /\ Wsl2!Init /\ Workloads!Init /\ Images!Init /\ Breaker!Init
  /\ Idempotency!Init /\ Policies!Init /\ Relations!Init /\ Rules!Init

Next ==
  /\ UNCHANGED part
  /\ \/ part = "wsl2" /\ Wsl2!Next
        /\ UNCHANGED <<work, imag, brea, idem, poli, rela, rule>>
     \/ part = "workloads" /\ Workloads!Next
        /\ UNCHANGED <<wsl, imag, brea, idem, poli, rela, rule>>
     \/ part = "images" /\ Images!Next
        /\ UNCHANGED <<wsl, work, brea, idem, poli, rela, rule>>
     \/ part = "breaker" /\ Breaker!Next
        /\ UNCHANGED <<wsl, work, imag, idem, poli, rela, rule>>
     \/ part = "idempotency" /\ Idempotency!Next
        /\ UNCHANGED <<wsl, work, imag, brea, poli, rela, rule>>
     \/ part = "policies" /\ Policies!Next
        /\ UNCHANGED <<wsl, work, imag, brea, idem, rela, rule>>
     \/ part = "relations" /\ Relations!Next
        /\ UNCHANGED <<wsl, work, imag, brea, idem, poli, rule>>
     \/ part = "rules" /\ Rules!Next
        /\ UNCHANGED <<wsl, work, imag, brea, idem, poli, rela>>

Spec == Init /\ [][Next]_vars

\* Nothing tells one container from another.
Symmetry == Permutations(Container) \cup Permutations(Box)

=============================================================================
