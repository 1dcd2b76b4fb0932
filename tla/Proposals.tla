----------------------------- MODULE Proposals -----------------------------
(***************************************************************************)
(* The proposal pipeline of layer 6 (layer6/manager.go, with the parts of  *)
(* rule_engine.go, learning.go and sqlite_store.go it calls).              *)
(*                                                                         *)
(* A rule that matches an event or a summary yields a proposal.  Human     *)
(* callers approve or reject it; executeProposal runs in a goroutine of    *)
(* its own and records the outcome.  Every thread that works on a          *)
(* proposal is <<kind, proposal>>:                                         *)
(*   "propose"  ProcessEvent, or ProcessSummary's turn for the proposal    *)
(*   "approve"  the ApproveProposal call that found it pending             *)
(*   "reject"   the RejectProposal call that found it pending              *)
(*   "auto"     go executeProposal started without approval                *)
(*   "run"      go executeProposal started by ApproveProposal              *)
(* A thread's steps are cut where another thread can get in between: at    *)
(* m.mu, at each SQL statement, and at the unlocked writes of Status.      *)
(* An ApproveProposal or RejectProposal call that finds no pending         *)
(* proposal returns an error and changes nothing.                          *)
(***************************************************************************)
EXTENDS Integers, FiniteSets

CONSTANTS
  Rule,          \* rule IDs
  Proposal,      \* proposal IDs (uuids, so never reused)
  AutoApprove,   \* the rules whose configured action is auto_approve
  Text,          \* texts a proposal's reasoning can be
  RulePrefixed,  \* the texts that match LIKE 'rule:%'
  Reasoning,     \* the reasoning of a rule's proposals
  DemoteAfter,   \* outcomes needed before a poor rate demotes a rule (5)
  TuneAfter,     \* outcomes needed before a rule is tuned (5)
  PromoteAfter,  \* successes that promote a rule to auto-approve (10)
  StoreFails,    \* whether a statement of the store may fail
  MaxRestarts    \* bound on crashes, for model checking

ASSUME RuleAssumption ==
  /\ Rule # {}
  /\ AutoApprove \subseteq Rule
  /\ RulePrefixed \subseteq Text
  /\ Reasoning \in [Rule -> Text]
ASSUME ThresholdAssumption ==
  /\ DemoteAfter \in Nat
  /\ TuneAfter \in Nat
  /\ PromoteAfter \in Nat
ASSUME FaultAssumption == StoreFails \in BOOLEAN /\ MaxRestarts \in Nat

VARIABLES
  status,     \* ActionProposal.Status ("none": not built, "gone": forgotten)
  rule,       \* ActionProposal.RuleID
  needs,      \* ActionProposal.RequiresApproval
  approved,   \* the proposals whose ApprovedBy is set
  mem,        \* Manager.proposals
  mu,         \* who holds Manager.mu across several steps
  pc,         \* pc[k][p]: where thread <<k, p>> is
  arg,        \* arg[k][p]: the status bound to its StoreProposal statement
  learnt,     \* learnt[k][p]: the frequency its LoadLearningData returned
  row,        \* status column of the proposals table
  stats,      \* Rule.SuccessCount and FailureCount
  auto,       \* the rules with Action.AutoApprove set
  incidents,  \* incidents table
  learning,   \* frequency column of the learning_data table, per pattern
  executor,   \* whether the manager was given an executor
  restarts,   \* crashes so far
  runs        \* history: how many times each action was started

thread   == <<pc, arg, learnt>>
proposal == <<status, rule, needs, approved>>
db       == <<row, incidents, learning>>
rules    == <<stats, auto>>
process  == <<executor, restarts>>
vars     == <<thread, proposal, db, rules, process, mem, mu, runs>>

Kinds    == {"propose", "approve", "reject", "auto", "run"}
Runners  == {"auto", "run"}
Recorders == Runners \cup {"reject"}
Statuses == {"none", "pending", "approved", "rejected", "executing",
             "completed", "failed", "gone"}
PCs == {"idle", "append", "batch", "read", "write", "start", "acting",
        "record", "learn", "done"}
Incident == [kind : Kinds, proposal : Proposal, rule : Rule,
             description : Text, succeeded : BOOLEAN]

Goto(k, p, l) == pc' = [pc EXCEPT ![k][p] = l]
At(k, p, l)   == pc[k][p] = l

-----------------------------------------------------------------------------
(* Rule statistics *)

Total(r) == stats[r].succ + stats[r].fail

\* The success rate is 1 without data, so a new rule is never poor.
PoorRate(r) == 10 * stats[r].succ < 7 * Total(r)

\* buildProposal: an auto-approve rule with a poor record is demoted.
RequiresApproval(r) == r \in auto => PoorRate(r) /\ Total(r) > DemoteAfter

\* LoadRuleStats: groups by description the incidents whose description
\* starts with "rule:", and NewManager gives each group to the rule of that ID.
LoadRuleStats(r, succeeded) ==
  Cardinality({i \in incidents : /\ i.description \in RulePrefixed
                                 /\ i.description = r
                                 /\ i.succeeded = succeeded})

-----------------------------------------------------------------------------
Init ==
  /\ status = [p \in Proposal |-> "none"]
  /\ rule = [p \in Proposal |-> CHOOSE r \in Rule : TRUE]
  /\ needs = [p \in Proposal |-> FALSE]
  /\ approved = {}
  /\ mem = {}
  /\ mu = "free"
  /\ pc = [k \in Kinds |-> [p \in Proposal |-> "idle"]]
  /\ arg = [k \in Kinds |-> [p \in Proposal |-> "none"]]
  /\ learnt = [k \in Kinds |-> [p \in Proposal |-> 0]]
  /\ row = [p \in Proposal |-> "none"]
  /\ stats = [r \in Rule |-> [succ |-> 0, fail |-> 0]]
  /\ auto = AutoApprove
  /\ incidents = {}
  /\ learning = [r \in Rule |-> 0]
  /\ executor \in BOOLEAN
  /\ restarts = 0
  /\ runs = [p \in Proposal |-> 0]

-----------------------------------------------------------------------------
(* ProcessEvent and ProcessSummary *)

\* The proposals are built under the rule engine's lock only: m.mu is not
\* held, so what RequiresApproval saw may be out of date when they are queued.
Build(P, f, l) ==
  /\ \A p \in P : status[p] = "none"
  /\ status' = [p \in Proposal |-> IF p \in P THEN "pending" ELSE status[p]]
  /\ rule' = [p \in Proposal |-> IF p \in P THEN f[p] ELSE rule[p]]
  /\ needs' = [p \in Proposal |-> IF p \in P THEN RequiresApproval(f[p])
                                             ELSE needs[p]]
  /\ pc' = [pc EXCEPT !["propose"] = [p \in Proposal |->
              IF p \in P THEN l ELSE pc["propose"][p]]]
  /\ UNCHANGED <<approved, arg, learnt, db, rules, process, mem, mu, runs>>

\* RuleEngine.Evaluate: the best matching rule proposes one action.
Evaluate(p, r) == Build({p}, [q \in {p} |-> r], "append")

\* RuleEngine.EvaluateSummary: every matching rule proposes one action.
\* One summary is processed at a time (bound).
EvaluateSummary(P, f) ==
  /\ P # {}
  /\ \A p, q \in P : f[p] = f[q] => p = q
  /\ \A p \in Proposal : ~At("propose", p, "batch")
  /\ Build(P, f, "batch")

LockBatch ==
  /\ mu = "free"
  /\ \E p \in Proposal : At("propose", p, "batch")
  /\ mu' = "summary"
  /\ UNCHANGED <<thread, proposal, db, rules, process, mem, runs>>

\* One turn of ProcessSummary's loop, under m.mu: queue, store, go execute.
QueueFromBatch(p) ==
  /\ mu = "summary"
  /\ At("propose", p, "batch")
  /\ mem' = mem \cup {p}
  /\ \/ row' = [row EXCEPT ![p] = status[p]]
     \/ StoreFails /\ UNCHANGED row
  /\ pc' = [pc EXCEPT !["propose"][p] = "done",
                      !["auto"][p] = IF needs[p] THEN @ ELSE "start"]
  /\ mu' = IF \E q \in Proposal \ {p} : At("propose", q, "batch")
             THEN "summary" ELSE "free"
  /\ UNCHANGED <<proposal, arg, learnt, incidents, learning, rules, process,
                 runs>>

\* ProcessEvent queues the proposal under m.mu and stores it after.
Queue(p) ==
  /\ mu = "free"
  /\ At("propose", p, "append")
  /\ mem' = mem \cup {p}
  /\ Goto("propose", p, "read")
  /\ UNCHANGED <<proposal, arg, learnt, db, rules, process, mu, runs>>

-----------------------------------------------------------------------------
(* StoreProposal: the arguments are read, without m.mu in most callers,     *)
(* before the statement runs; what its caller does next is the caller's.    *)

ReadRow(k, p) ==
  /\ At(k, p, "read")
  /\ arg' = [arg EXCEPT ![k][p] = status[p]]
  /\ Goto(k, p, "write")
  /\ UNCHANGED <<proposal, learnt, db, rules, process, mem, mu, runs>>

\* The statement may fail: every caller ignores its error.  The local values
\* of a call are cleared when they are dead.
WriteRow(k, p) ==
  /\ At(k, p, "write")
  /\ \/ row' = [row EXCEPT ![p] = arg[k][p]]
     \/ StoreFails /\ UNCHANGED row
  /\ arg' = [arg EXCEPT ![k][p] = "none"]
  /\ UNCHANGED <<proposal, learnt, incidents, learning, rules, process, mem, mu,
                 runs>>

\* Mutant: ProcessEvent executes whatever it stored.
ProposeStoredUngated(p) ==
  /\ WriteRow("propose", p)
  /\ pc' = [pc EXCEPT !["propose"][p] = "done", !["auto"][p] = "start"]

\* Mutant: ApproveProposal does not start the execution.
ApproveStoredNoRun(p) == WriteRow("approve", p) /\ Goto("approve", p, "done")

\* Mutant: executeProposal does not store the proposal at its end.
RunNotStored(k, p) ==
  /\ At(k, p, "write")
  /\ arg' = [arg EXCEPT ![k][p] = "none"]
  /\ Goto(k, p, "done")
  /\ UNCHANGED <<proposal, learnt, db, rules, process, mem, mu, runs>>

\* ProcessEvent goes on to execute what needs no approval.
ProposeStored(p) ==
  /\ WriteRow("propose", p)
  /\ pc' = [pc EXCEPT !["propose"][p] = "done",
                      !["auto"][p] = IF needs[p] THEN @ ELSE "start"]

ApproveStored(p) ==
  /\ WriteRow("approve", p)
  /\ pc' = [pc EXCEPT !["approve"][p] = "done", !["run"][p] = "start"]

RejectStored(p) == WriteRow("reject", p) /\ Goto("reject", p, "record")

RunStored(k, p) == WriteRow(k, p) /\ Goto(k, p, "done")

-----------------------------------------------------------------------------
(* ApproveProposal and RejectProposal *)

\* Mutant: no test of the status.
DecidableAnyStatus(p) == mu = "free" /\ p \in mem

Decidable(p) == mu = "free" /\ p \in mem /\ status[p] = "pending"

\* The lock is released before the row is written and the action started.
Approve(p) ==
  /\ Decidable(p)
  /\ status' = [status EXCEPT ![p] = "approved"]
  /\ approved' = approved \cup {p}
  /\ Goto("approve", p, "read")
  /\ UNCHANGED <<rule, needs, arg, learnt, db, rules, process, mem, mu, runs>>

\* The lock is kept until the outcome is recorded.
Reject(p) ==
  /\ Decidable(p)
  /\ status' = [status EXCEPT ![p] = "rejected"]
  /\ mu' = "reject"
  /\ Goto("reject", p, "read")
  /\ UNCHANGED <<rule, needs, approved, arg, learnt, db, rules, process, mem,
                 runs>>

-----------------------------------------------------------------------------
(* executeProposal and RecordOutcome *)

\* Status is set without the lock, whatever it was.
Begin(k, p) ==
  /\ At(k, p, "start")
  /\ executor
  /\ status' = [status EXCEPT ![p] = "executing"]
  /\ runs' = [runs EXCEPT ![p] = @ + 1]
  /\ Goto(k, p, "acting")
  /\ UNCHANGED <<rule, needs, approved, arg, learnt, db, rules, process, mem, mu>>

\* A manager without an executor does nothing.
Skip(k, p) ==
  /\ At(k, p, "start")
  /\ ~executor
  /\ Goto(k, p, "done")
  /\ UNCHANGED <<proposal, arg, learnt, db, rules, process, mem, mu, runs>>

\* Mutant: only successes count.
UpdateStatsSuccessOnly(r, succeeded) ==
  stats' = IF succeeded THEN [stats EXCEPT ![r].succ = @ + 1] ELSE stats

UpdateStats(r, succeeded) ==
  stats' = IF succeeded THEN [stats EXCEPT ![r].succ = @ + 1]
                        ELSE [stats EXCEPT ![r].fail = @ + 1]

\* Mutant: a failure leaves no incident.
RecordNoFailures(k, p, succeeded) ==
  /\ UpdateStats(rule[p], succeeded)
  /\ incidents' = IF succeeded THEN incidents \cup
       {[kind |-> k, proposal |-> p, rule |-> rule[p],
         description |-> Reasoning[rule[p]], succeeded |-> TRUE]} ELSE incidents
  /\ learnt' = [learnt EXCEPT ![k][p] = learning[rule[p]]]
  /\ Goto(k, p, "learn")
  /\ UNCHANGED <<rule, needs, approved, arg, row, learning, auto, process, mem, mu,
                 runs>>

\* RecordOutcome up to LoadLearningData: UpdateStats, StoreIncident and the
\* read of the pattern's frequency.  They are one step: a crash forgets the
\* first as soon as it happens, and no other thread depends on their order.
\* A failed insert is ignored and a failed read taken for a new pattern.
Record(k, p, succeeded) ==
  /\ UpdateStats(rule[p], succeeded)
  /\ \/ incidents' = incidents \cup
          {[kind |-> k, proposal |-> p, rule |-> rule[p],
            description |-> Reasoning[rule[p]], succeeded |-> succeeded]}
     \/ StoreFails /\ UNCHANGED incidents
  /\ \/ learnt' = [learnt EXCEPT ![k][p] = learning[rule[p]]]
     \/ StoreFails /\ learnt' = [learnt EXCEPT ![k][p] = 0]
  /\ Goto(k, p, "learn")
  /\ UNCHANGED <<rule, needs, approved, arg, row, learning, auto, process, mem, mu,
                 runs>>

\* Mutant: a failure leaves the proposal executing.
FinishNoFailed(k, p, succeeded) ==
  /\ At(k, p, "acting")
  /\ status' = [status EXCEPT ![p] = IF succeeded THEN "completed" ELSE @]
  /\ Record(k, p, succeeded)

\* The executor returns.  Its status is set in memory, just before Record.
Finish(k, p, succeeded) ==
  /\ At(k, p, "acting")
  /\ status' = [status EXCEPT ![p] = IF succeeded THEN "completed" ELSE "failed"]
  /\ Record(k, p, succeeded)

\* A rejection counts as a failure of the rule.
RejectRecorded(p) ==
  /\ At("reject", p, "record")
  /\ Record("reject", p, FALSE)
  /\ UNCHANGED status

\* StoreLearningData; RejectProposal then returns and releases the lock, and
\* executeProposal stores the proposal.
Learn(k, p) ==
  /\ At(k, p, "learn")
  /\ \/ learning' = [learning EXCEPT ![rule[p]] = learnt[k][p] + 1]
     \/ StoreFails /\ UNCHANGED learning
  /\ learnt' = [learnt EXCEPT ![k][p] = 0]
  /\ Goto(k, p, IF k = "reject" THEN "done" ELSE "read")
  /\ mu' = IF k = "reject" THEN "free" ELSE mu
  /\ UNCHANGED <<proposal, arg, row, incidents, rules, process, mem, runs>>

-----------------------------------------------------------------------------
(* The hourly TuneThresholds, as far as approvals go, and the process *)

Promotable(r) ==
  /\ r \notin auto
  /\ Total(r) >= TuneAfter
  /\ stats[r].succ >= PromoteAfter
  /\ stats[r].fail = 0

TuneThresholds ==
  /\ \E r \in Rule : Promotable(r)
  /\ auto' = auto \cup {r \in Rule : Promotable(r)}
  /\ UNCHANGED <<thread, proposal, db, stats, process, mem, mu, runs>>

\* The process dies and NewManager builds another: the rules come from the
\* rule files, their counts from LoadRuleStats if it can read them, and no
\* proposal is reloaded.
Restart ==
  /\ restarts < MaxRestarts
  /\ restarts' = restarts + 1
  /\ executor' \in BOOLEAN
  /\ mem' = {}
  /\ mu' = "free"
  /\ status' = [p \in Proposal |-> IF status[p] = "none" THEN "none" ELSE "gone"]
  /\ pc' = [k \in Kinds |-> [p \in Proposal |->
              IF At(k, p, "idle") THEN "idle" ELSE "done"]]
  /\ \/ stats' = [r \in Rule |-> [succ |-> LoadRuleStats(r, TRUE),
                                  fail |-> LoadRuleStats(r, FALSE)]]
     \/ StoreFails /\ stats' = [r \in Rule |-> [succ |-> 0, fail |-> 0]]
  /\ auto' = AutoApprove
  /\ arg' = [k \in Kinds |-> [p \in Proposal |-> "none"]]
  /\ learnt' = [k \in Kinds |-> [p \in Proposal |-> 0]]
  /\ UNCHANGED <<rule, needs, approved, db, runs>>

-----------------------------------------------------------------------------
Propose ==
  \/ \E p \in Proposal, r \in Rule : Evaluate(p, r)
  \/ \E P \in SUBSET Proposal : \E f \in [P -> Rule] : EvaluateSummary(P, f)

Decide == \E p \in Proposal : Approve(p) \/ Reject(p)

Manage ==
  \/ LockBatch
  \/ \E p \in Proposal :
       \/ QueueFromBatch(p)
       \/ Queue(p)
       \/ ProposeStored(p)
       \/ ApproveStored(p)
       \/ RejectStored(p)
  \/ \E k \in Kinds, p \in Proposal : ReadRow(k, p)

Execute ==
  \/ \E k \in Runners, p \in Proposal :
       \/ Begin(k, p)
       \/ Skip(k, p)
       \/ \E succeeded \in BOOLEAN : Finish(k, p, succeeded)
       \/ RunStored(k, p)
  \/ \E p \in Proposal : RejectRecorded(p)
  \/ \E k \in Recorders, p \in Proposal : Learn(k, p)

Next == Propose \/ Decide \/ Manage \/ Execute \/ TuneThresholds \/ Restart

Spec == Init /\ [][Next]_vars

\* Goroutines that have started keep running, locks are handed on, SQL
\* statements and the executor return.  Nobody is obliged to propose or to
\* decide, and nothing has to crash.
FairSpec == Spec /\ WF_vars(Manage) /\ WF_vars(Execute)

-----------------------------------------------------------------------------
(* Properties *)

\* Every variable has its type.
TypeOK ==
  /\ status \in [Proposal -> Statuses]
  /\ rule \in [Proposal -> Rule]
  /\ needs \in [Proposal -> BOOLEAN]
  /\ approved \subseteq Proposal
  /\ mem \subseteq Proposal
  /\ mu \in {"free", "summary", "reject"}
  /\ pc \in [Kinds -> [Proposal -> PCs]]
  /\ arg \in [Kinds -> [Proposal -> Statuses]]
  /\ learnt \in [Kinds -> [Proposal -> Nat]]
  /\ row \in [Proposal -> Statuses]
  /\ stats \in [Rule -> [succ : Nat, fail : Nat]]
  /\ auto \subseteq Rule
  /\ incidents \subseteq Incident
  /\ learning \in [Rule -> Nat]
  /\ executor \in BOOLEAN
  /\ restarts \in Nat
  /\ runs \in [Proposal -> Nat]

\* An action that requires approval is never started before somebody approved
\* it, however its events, summaries, decisions and crashes interleave
\* (the RequiresApproval test before each go m.executeProposal).
ApprovalGate == \A p \in Proposal : needs[p] /\ runs[p] > 0 => p \in approved

\* An action that requires approval starts at most once, over every restart.
\* One that does not can start twice, never more: its own goroutine, and one
\* for an approval that slips in while it is still pending.
RunsBounded == \A p \in Proposal : runs[p] <= IF needs[p] THEN 1 ELSE 2

\* The proposals table never misleads its reader about a proposal that
\* requires approval: a row that says rejected means it never ran, one that
\* says completed or failed means it was approved and ran.
GatedRowTruth == \A p \in Proposal : needs[p] =>
  /\ row[p] = "rejected" => runs[p] = 0 /\ p \notin approved
  /\ row[p] \in {"completed", "failed"} => runs[p] = 1 /\ p \in approved

\* A proposal that no human touched ends with its row equal to its status, if
\* no statement fails: ProcessEvent's store comes before the goroutine that
\* executes it.
Settled(p) == \A k \in Kinds : pc[k][p] \in {"idle", "done"}
RowSettles == ~StoreFails => \A p \in mem :
  Settled(p) /\ At("approve", p, "idle") /\ At("reject", p, "idle")
    => row[p] = status[p]

\* Within one process every execution and every rejection counts once for its
\* rule, whatever the goroutines do (RecordOutcome and UpdateStats).
Counted(k, p) == p \in mem /\ \E i \in incidents : i.kind = k /\ i.proposal = p
OutcomesCounted == ~StoreFails => \A r \in Rule :
  Total(r) = Cardinality({t \in Recorders \X Proposal :
                            rule[t[2]] = r /\ Counted(t[1], t[2])})

\* If no statement fails, the learning table is never ahead of the incidents
\* it summarises, through concurrent updates and crashes between the two.
LearningBehind == ~StoreFails => \A r \in Rule :
  learning[r] <= Cardinality({i \in incidents : i.rule = r})

\* The lifecycle promised for proposals, for those that require approval.
GatedStatus == [p \in Proposal |-> IF needs[p] THEN status[p] ELSE "none"]
Gated == INSTANCE ProposalLifecycle WITH status <- GatedStatus
GatedLifecycle == Gated!Spec

\* An approved action is carried out: its proposal ends completed or failed,
\* unless there is no executor or the process dies first.
ApprovedRuns == \A p \in Proposal :
  (p \in mem /\ status[p] = "approved" /\ executor)
    ~> (status[p] \in {"completed", "failed", "gone"})

\* A proposal being executed always comes to an end.
ExecutionEnds == \A p \in Proposal :
  status[p] = "executing" ~> status[p] \in {"completed", "failed", "gone"}
=============================================================================
