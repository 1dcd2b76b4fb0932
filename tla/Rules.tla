-------------------------------- MODULE Rules --------------------------------
(***************************************************************************)
(* The rules of layer 6 as the engine keeps, matches and tunes them        *)
(* (layer6/rule_engine.go, learning.go).  Module Proposals has what        *)
(* becomes of a rule that matched; here is which one does.                 *)
(*                                                                         *)
(* Of thresholds and values only the order matters: they are steps on one  *)
(* scale, and tuning moves a threshold a step where the code adds or takes *)
(* off a few percent.  Thresholds are not negative.  The engine's calls    *)
(* have its lock; TuneThresholds has none: it goes through a copy of the   *)
(* list and reads and writes the rules themselves, while outcomes are      *)
(* counted and rules are replaced.                                         *)
(***************************************************************************)
EXTENDS Integers, SequencesExt, FiniteSetsExt

CONSTANTS
  Type, Word, Metric,  \* types of events, words and metrics that rules ask for
  Written,   \* rules as somebody writes them: [id, priority, enabled, conditions, auto]
  Tuner,     \* goroutines that tune: the manager's loop and its callers
  Nil,       \* what a condition does not ask for
  Top,       \* the highest step: a bound
  Few,       \* outcomes before which a rule is left alone; 5 in the code
  Some,      \* outcomes after which a poor rule is tightened; 10 in the code
  Many,      \* and a good one relaxed; 20 in the code
  Streak,    \* successes after which a rule is promoted; 10 in the code
  MaxCount   \* a bound on the outcomes of a rule

VARIABLES
  rules,     \* RuleEngine.rules
  tuning,    \* where each call of TuneThresholds is
  earned,    \* history: the promotions, with the outcomes under the ID until then
  since,     \* history: the outcomes reported under each ID since the rule was added
  way        \* history: the direction of the last tuning, until another outcome

vars == <<rules, tuning, earned, since, way>>

RuleID    == {r.id : r \in Written}
Value     == 0..(Top + 1)
Op        == {">", ">=", "<", "<=", "==", "!="}
Condition == [type : Type \cup {Nil}, word : Word \cup {Nil}, metric : Metric \cup {Nil},
              op : Op \cup {Nil}, value : 0..Top]
Metrics   == UNION {[M -> Value] : M \in SUBSET Metric}

\* The words are those found in the description or in the type; the type is Nil
\* if no rule asks for it.
Events == [type : Type \cup {Nil}, words : SUBSET Word, metrics : Metrics]

\* Where a call of TuneThresholds is: the rules left, the one it is at, what it
\* has read of it, and the next condition.
Stage(at, left, of, total) ==
  [at |-> at, left |-> left, of |-> of, total |-> total, move |-> "none", next |-> 0]

Idle        == Stage("idle", {}, Nil, 0)
Going(left) == Stage("next", left, Nil, 0)

Init ==
  /\ rules = <<>>
  /\ tuning = [t \in Tuner |-> Idle]
  /\ earned = {}
  /\ since = [i \in RuleID |-> [good |-> 0, bad |-> 0]]
  /\ way = [i \in RuleID |-> "none"]

At(i) == {n \in DOMAIN rules : rules[n].id = i}

\* What the history has on an ID starts again.  A call of TuneThresholds that has
\* the old rule goes on with it, but nobody sees that one any more.
Forgotten(i) ==
  /\ since' = [since EXCEPT ![i] = [good |-> 0, bad |-> 0]]
  /\ way' = [way EXCEPT ![i] = "none"]
  /\ earned' = {e \in earned : e.id # i}
  /\ tuning' = [t \in Tuner |->
       IF tuning[t].of = i THEN Going(tuning[t].left \ {i})
                           ELSE [tuning[t] EXCEPT !.left = @ \ {i}]]

New(r) == [id |-> r.id, priority |-> r.priority, enabled |-> r.enabled,
           conditions |-> r.conditions, auto |-> r.auto, good |-> 0, bad |-> 0]

-----------------------------------------------------------------------------
(* RuleEngine *)

\* Mutant: the rule that takes the place of another keeps its counts.
AddRuleKeepsCounts(r) ==
  /\ IF At(r.id) = {} THEN rules' = Append(rules, New(r))
     ELSE \E n \in At(r.id) :
            rules' = [rules EXCEPT ![n] = [New(r) EXCEPT !.good = rules[n].good, !.bad = rules[n].bad]]
  /\ Forgotten(r.id)

\* In the place of the one with the same ID, whose counts go with it.
AddRule(r) ==
  /\ IF At(r.id) = {} THEN rules' = Append(rules, New(r))
     ELSE \E n \in At(r.id) : rules' = [rules EXCEPT ![n] = New(r)]
  /\ Forgotten(r.id)

RemoveRule(i) ==
  /\ \E n \in At(i) : rules' = RemoveAt(rules, n)
  /\ Forgotten(i)

evalOperator(value, op, threshold) ==
  CASE op = ">"  -> value > threshold
    [] op = ">=" -> value >= threshold
    [] op = "<"  -> value < threshold
    [] op = "<=" -> value <= threshold
    [] op = "==" -> value = threshold
    [] op = "!=" -> value # threshold
    [] OTHER     -> FALSE

\* A metric that is not there meets no condition.
Meets(c, metrics) ==
  c.metric # Nil => /\ c.metric \in DOMAIN metrics
                    /\ evalOperator(metrics[c.metric], c.op, c.value)

matchesEvent(r, event) ==
  /\ r.conditions # <<>>
  /\ \A n \in DOMAIN r.conditions : LET c == r.conditions[n] IN
       /\ c.type # Nil => event.type = c.type
       /\ c.word # Nil => c.word \in event.words
       /\ Meets(c, event.metrics)

\* Words are not asked for.
matchesSummary(r, metrics) ==
  /\ r.conditions # <<>>
  /\ \A n \in DOMAIN r.conditions :
       r.conditions[n].type = Nil /\ Meets(r.conditions[n], metrics)

\* The first of the highest priority among those that match: none, or one.
Evaluate(event) ==
  LET best[n \in 0..Len(rules)] ==
        IF n = 0 THEN {}
        ELSE IF /\ rules[n].enabled /\ matchesEvent(rules[n], event)
                /\ \A b \in best[n - 1] : rules[n].priority > b.priority
          THEN {rules[n]} ELSE best[n - 1]
  IN  best[Len(rules)]

\* All that match, of which each makes a proposal.
EvaluateSummary(metrics) ==
  {r \in Range(rules) : r.enabled /\ matchesSummary(r, metrics)}

\* By the ID: the outcome may be that of a rule that was replaced.
UpdateStats(i, succeeded) ==
  /\ \E n \in At(i) :
       /\ rules[n].good + rules[n].bad < MaxCount
       /\ rules' = IF succeeded THEN [rules EXCEPT ![n].good = @ + 1]
                                ELSE [rules EXCEPT ![n].bad = @ + 1]
  /\ since' = IF succeeded THEN [since EXCEPT ![i].good = @ + 1]
                           ELSE [since EXCEPT ![i].bad = @ + 1]
  /\ way' = [way EXCEPT ![i] = "none"]
  /\ UNCHANGED <<earned, tuning>>

-----------------------------------------------------------------------------
(* LearningEngine.TuneThresholds, in the steps of one call *)

Poor(r) == 100 * r.good < 70 * (r.good + r.bad)
Fine(r) == 100 * r.good > 85 * (r.good + r.bad)

\* The ends of the scale stand for what is beyond them.
Lower(v)  == IF v > 1 THEN v - 1 ELSE v
Higher(v) == IF v < Top THEN v + 1 ELSE v

Upper(c) == c.op \in {">", ">="}
Tightened(c) == [c EXCEPT !.value = IF Upper(c) THEN Lower(@) ELSE Higher(@)]
Relaxed(c)   == [c EXCEPT !.value = IF Upper(c) THEN Higher(@) ELSE Lower(@)]

\* ListRules.
TuneThresholds(t) ==
  /\ tuning[t] = Idle
  /\ tuning' = [tuning EXCEPT ![t] = Going({r.id : r \in Range(rules)})]
  /\ UNCHANGED <<rules, earned, since, way>>

ReadTotal(t, n) ==
  LET i == rules[n].id
      total == rules[n].good + rules[n].bad
      left == tuning[t].left \ {i}
  IN  /\ tuning[t].at = "next" /\ i \in tuning[t].left
      /\ tuning' = [tuning EXCEPT ![t] =
           IF total < Few THEN Going(left)
           ELSE Stage("rate", left, i, total)]
      /\ UNCHANGED <<rules, earned, since, way>>

\* The counts are read again.
ReadRate(t, n) ==
  LET r == rules[n]
      move == IF Poor(r) /\ tuning[t].total >= Some THEN "tighten"
              ELSE IF Fine(r) /\ tuning[t].total >= Many THEN "relax" ELSE "none"
  IN  /\ tuning[t].at = "rate" /\ tuning[t].of = r.id
      /\ tuning' = [tuning EXCEPT ![t] = [@ EXCEPT !.at = "tune", !.move = move, !.next = 1]]
      /\ UNCHANGED <<rules, earned, since, way>>

\* The next condition of the rule.
TuneCondition(t, n) ==
  LET r == rules[n]
      c == r.conditions[tuning[t].next]
      new == IF tuning[t].move = "tighten" THEN Tightened(c) ELSE Relaxed(c)
  IN  /\ tuning[t].at = "tune" /\ tuning[t].of = r.id
      /\ tuning[t].move # "none" /\ tuning[t].next <= Len(r.conditions)
      /\ tuning' = [tuning EXCEPT ![t].next = @ + 1]
      /\ IF c.metric = Nil \/ c.value = 0 THEN UNCHANGED <<rules, way>>
         ELSE /\ rules' = [rules EXCEPT ![n].conditions =
                             [@ EXCEPT ![tuning[t].next] = new]]
              /\ way' = [way EXCEPT ![r.id] = tuning[t].move]
      /\ UNCHANGED <<earned, since>>

Promotable(r) == ~r.auto /\ r.good >= Streak /\ r.bad = 0

\* The counts are read once more.
ReadStreak(t, n) ==
  LET r == rules[n]
  IN  /\ tuning[t].at = "tune" /\ tuning[t].of = r.id
      /\ tuning[t].move = "none" \/ tuning[t].next > Len(r.conditions)
      /\ IF Promotable(r)
         THEN /\ tuning' = [tuning EXCEPT ![t].at = "promote"]
              /\ earned' = earned \cup {[id |-> r.id, good |-> since[r.id].good,
                                         bad |-> since[r.id].bad]}
         ELSE tuning' = [tuning EXCEPT ![t] = Going(tuning[t].left)] /\ UNCHANGED earned
      /\ UNCHANGED <<rules, since, way>>

\* Whatever was counted since the streak was read.
Promote(t, n) ==
  /\ tuning[t].at = "promote" /\ tuning[t].of = rules[n].id
  /\ rules' = [rules EXCEPT ![n].auto = TRUE]
  /\ tuning' = [tuning EXCEPT ![t] = Going(tuning[t].left)]
  /\ UNCHANGED <<earned, since, way>>

TuneEnds(t) ==
  /\ tuning[t].at = "next" /\ tuning[t].left = {}
  /\ tuning' = [tuning EXCEPT ![t] = Idle]
  /\ UNCHANGED <<rules, earned, since, way>>

Tune(t) ==
  \/ TuneThresholds(t) \/ TuneEnds(t)
  \/ \E n \in DOMAIN rules : \/ ReadTotal(t, n) \/ ReadRate(t, n) \/ TuneCondition(t, n)
                             \/ ReadStreak(t, n) \/ Promote(t, n)

Next ==
  \/ \E r \in Written : AddRule(r)
  \/ \E i \in RuleID : RemoveRule(i) \/ \E succeeded \in BOOLEAN : UpdateStats(i, succeeded)
  \/ \E t \in Tuner : Tune(t)

Spec == Init /\ [][Next]_vars

-----------------------------------------------------------------------------
(* Properties *)

Call == [at : {"idle", "next", "rate", "tune", "promote"}, left : SUBSET RuleID,
         of : RuleID \cup {Nil}, total : 0..MaxCount, move : {"none", "tighten", "relax"},
         next : Nat]

\* Every variable has its type.
TypeOK ==
  /\ Len(rules) <= Cardinality(RuleID)
  /\ \A n \in DOMAIN rules : rules[n].id \in RuleID /\ rules[n].conditions \in Seq(Condition)
  /\ tuning \in [Tuner -> Call]
  /\ earned \subseteq [id : RuleID, good : 0..MaxCount, bad : 0..MaxCount]
  /\ way \in [RuleID -> {"none", "tighten", "relax"}]

\* An ID has one rule, and an event goes to an enabled rule that matches and has
\* no better and no earlier equal one.
EventsAnswered ==
  /\ \A m, n \in DOMAIN rules : rules[m].id = rules[n].id => m = n
  /\ \A event \in Events :
       LET fit == {n \in DOMAIN rules : rules[n].enabled /\ matchesEvent(rules[n], event)}
           better(m, n) == \/ rules[m].priority > rules[n].priority
                           \/ rules[m].priority = rules[n].priority /\ m < n
       IN  Evaluate(event) = {rules[n] : n \in {x \in fit : \A m \in fit \ {x} : better(x, m)}}

\* A summary calls the enabled rules without a type of event that an event with
\* its metrics and every word would call: a rule that asks for nothing but a word
\* is called by every summary.
SummariesAnswered == \A metrics \in Metrics :
  LET event == [type |-> Nil, words |-> Word, metrics |-> metrics]
  IN  EvaluateSummary(metrics) =
        {r \in Range(rules) : /\ r.enabled /\ matchesEvent(r, event)
                              /\ \A n \in DOMAIN r.conditions : r.conditions[n].type = Nil}

\* With "<", "<=", ">" and ">=" a tightened threshold calls for whatever it called
\* for before, and a relaxed one for nothing new.
TuningDirected == \A n \in DOMAIN rules : \A m \in DOMAIN rules[n].conditions, v \in Value :
  LET c == rules[n].conditions[m]
      fires(d) == evalOperator(v, d.op, d.value)
  IN  c.op \in {">", ">=", "<", "<="} =>
        (fires(c) => fires(Tightened(c))) /\ (fires(Relaxed(c)) => fires(c))

\* The decision to let a rule run without approval is taken at a streak of
\* successes and no failure since the rule was added, and a threshold is tightened
\* only under an ID that has failed since then.  What counts are the outcomes
\* reported under the ID, those of a rule that this one replaced among them.
TuningEarned ==
  /\ \A e \in earned : e.good >= Streak /\ e.bad = 0
  /\ \A i \in RuleID : way[i] = "tighten" => since[i].bad > 0
  /\ \A t \in Tuner : tuning[t].at = "promote" => \E e \in earned : e.id = tuning[t].of

\* After whatever was added, replaced, removed and counted, while TuneThresholds
\* was going on or not: rules answer as they should, and tuning follows the counts.
RulesRight == EventsAnswered /\ SummariesAnswered /\ TuningDirected /\ TuningEarned
=============================================================================
