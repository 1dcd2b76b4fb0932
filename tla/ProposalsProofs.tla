-------------------------- MODULE ProposalsProofs --------------------------
(* Theorems about Proposals, for any rules, proposals and thresholds. *)
EXTENDS Proposals, FiniteSetTheorems, TLAPS

-----------------------------------------------------------------------------
(* Type correctness *)

\* The counts that NewManager restores need a finite incident table.
TypeInv == TypeOK /\ IsFiniteSet(incidents)

LEMMA ReloadedCount ==
  ASSUME IsFiniteSet(incidents), NEW r, NEW b
  PROVE  LoadRuleStats(r, b) \in Nat
<1> DEFINE S == {i \in incidents : /\ i.description \in RulePrefixed
                                   /\ i.description = r
                                   /\ i.succeeded = b}
<1>1. IsFiniteSet(S)
  BY FS_Subset, S \subseteq incidents
<1> QED
  BY <1>1, FS_CardinalityType DEF LoadRuleStats

\* The two control steps: one thread moves, or one moves and starts another.
LEMMA GotoType ==
  ASSUME pc \in [Kinds -> [Proposal -> PCs]],
         NEW k \in Kinds, NEW p \in Proposal, NEW l \in PCs, Goto(k, p, l)
  PROVE  pc' \in [Kinds -> [Proposal -> PCs]]
BY DEF Goto

LEMMA ForkType ==
  ASSUME pc \in [Kinds -> [Proposal -> PCs]], NEW p \in Proposal,
         NEW k1 \in Kinds, NEW l1 \in PCs, NEW k2 \in Kinds, NEW l2 \in PCs
  PROVE  [pc EXCEPT ![k1][p] = l1, ![k2][p] = l2] \in [Kinds -> [Proposal -> PCs]]
OBVIOUS

\* Storing a row touches the row and the argument only.
LEMMA WriteType ==
  ASSUME TypeInv, NEW k \in Kinds, NEW p \in Proposal, WriteRow(k, p),
         pc' \in [Kinds -> [Proposal -> PCs]]
  PROVE  TypeInv'
<1>1. row' \in [Proposal -> Statuses]
  <2>1. row' = [row EXCEPT ![p] = arg[k][p]] \/ row' = row
    BY DEF WriteRow
  <2>2. arg[k][p] \in Statuses /\ row \in [Proposal -> Statuses]
    BY DEF TypeInv, TypeOK
  <2> QED
    BY <2>1, <2>2
<1>2. arg' \in [Kinds -> [Proposal -> Statuses]]
  BY DEF WriteRow, TypeInv, TypeOK, Statuses
<1> QED
  BY <1>1, <1>2 DEF WriteRow, TypeInv, TypeOK, proposal, rules, process

\* Counting an outcome keeps the counts natural.
LEMMA CountType ==
  ASSUME stats \in [Rule -> [succ : Nat, fail : Nat]], NEW r \in Rule,
         NEW b \in BOOLEAN, UpdateStats(r, b)
  PROVE  stats' \in [Rule -> [succ : Nat, fail : Nat]]
<1> DEFINE s == [stats[r] EXCEPT !.succ = @ + 1]
           f == [stats[r] EXCEPT !.fail = @ + 1]
<1>1. s \in [succ : Nat, fail : Nat]
  <2>1. stats[r] \in [succ : Nat, fail : Nat]
    OBVIOUS
  <2> QED
    BY <2>1
<1>2. f \in [succ : Nat, fail : Nat]
  <2>1. stats[r] \in [succ : Nat, fail : Nat]
    OBVIOUS
  <2> QED
    BY <2>1
<1>3. stats' = [stats EXCEPT ![r] = s] \/ stats' = [stats EXCEPT ![r] = f]
  BY DEF UpdateStats
<1> HIDE DEF s, f
<1> QED
  BY <1>1, <1>2, <1>3

LEMMA RecordType ==
  ASSUME TypeInv, NEW k \in Recorders, NEW p \in Proposal, NEW b \in BOOLEAN,
         Record(k, p, b), status' \in [Proposal -> Statuses]
  PROVE  TypeInv'
<1> USE DEF TypeInv, TypeOK
<1>1. k \in Kinds
  BY DEF Recorders, Runners, Kinds
<1>2. [kind |-> k, proposal |-> p, rule |-> rule[p],
       description |-> Reasoning[rule[p]], succeeded |-> b] \in Incident
  BY <1>1, RuleAssumption DEF Incident
<1>3. incidents' \subseteq Incident /\ IsFiniteSet(incidents')
  <2>1. PICK i \in Incident : incidents' \in {incidents \cup {i}, incidents}
    BY <1>2 DEF Record
  <2>2. IsFiniteSet(incidents \cup {i})
    BY FS_AddElement
  <2> QED
    BY <2>1, <2>2
<1>4. stats' \in [Rule -> [succ : Nat, fail : Nat]]
  BY CountType DEF Record
<1>5. pc' \in [Kinds -> [Proposal -> PCs]]
  BY <1>1, GotoType, "learn" \in PCs DEF Record, PCs
<1>6. learnt' \in [Kinds -> [Proposal -> Nat]]
  <2>1. PICK n \in Nat : learnt' = [learnt EXCEPT ![k][p] = n]
    <3>1. learning[rule[p]] \in Nat /\ 0 \in Nat
      OBVIOUS
    <3> QED
      BY <3>1 DEF Record
  <2> QED
    BY <1>1, <2>1
<1> QED
  BY <1>3, <1>4, <1>5, <1>6 DEF Record, process

\* Every variable keeps its type.
LEMMA TypeStep ==
  ASSUME TypeInv, [Next]_vars
  PROVE  TypeInv'
<1> USE DEF TypeInv, TypeOK
<1>a. {"propose", "approve", "reject", "auto", "run"} \subseteq Kinds
  BY DEF Kinds
<1>b. {"idle", "append", "batch", "read", "write", "start", "acting", "record",
       "learn", "done"} \subseteq PCs
  BY DEF PCs
<1>c. {"pending", "approved", "rejected", "executing", "completed", "failed",
       "gone", "none"} \subseteq Statuses
  BY DEF Statuses
<1>d. \A k \in Recorders : k \in Kinds
  BY DEF Recorders, Runners, Kinds
<1>e. \A k \in Runners : k \in Recorders
  BY DEF Recorders, Runners
<1>1. ASSUME NEW P \in SUBSET Proposal, NEW f \in [P -> Rule], NEW l \in PCs,
             Build(P, f, l)
      PROVE  TypeInv'
  <2>1. \A r : RequiresApproval(r) \in BOOLEAN
    BY DEF RequiresApproval
  <2>2. needs' \in [Proposal -> BOOLEAN]
    BY <1>1, <2>1 DEF Build
  <2>3. rule' \in [Proposal -> Rule]
    BY <1>1 DEF Build
  <2>4. status' \in [Proposal -> Statuses]
    BY <1>1, <1>c DEF Build
  <2>5. pc' \in [Kinds -> [Proposal -> PCs]]
    <3>1. [p \in Proposal |-> IF p \in P THEN l ELSE pc["propose"][p]]
            \in [Proposal -> PCs]
      BY <1>a
    <3> QED
      BY <1>1, <3>1 DEF Build
  <2> QED
    BY <1>1, <2>2, <2>3, <2>4, <2>5 DEF Build, db, rules, process
<1>2. CASE LockBatch
  BY <1>2 DEF LockBatch, thread, proposal, db, rules, process
<1>3. ASSUME NEW p \in Proposal, QueueFromBatch(p)
      PROVE  TypeInv'
  <2>1. row' \in [Proposal -> Statuses]
    BY <1>3 DEF QueueFromBatch
  <2>2. pc' \in [Kinds -> [Proposal -> PCs]]
    <3> DEFINE l == IF needs[p] THEN pc["auto"][p] ELSE "start"
    <3>1. l \in PCs
      BY <1>a, <1>b
    <3>2. pc' = [pc EXCEPT !["propose"][p] = "done", !["auto"][p] = l]
      BY <1>3 DEF QueueFromBatch
    <3> HIDE DEF l
    <3> QED
      BY <3>1, <3>2, <1>a, <1>b, ForkType
  <2> QED
    BY <1>3, <2>1, <2>2 DEF QueueFromBatch, proposal, rules, process
<1>4. ASSUME NEW p \in Proposal, Queue(p)
      PROVE  TypeInv'
  <2>1. pc' \in [Kinds -> [Proposal -> PCs]]
    BY <1>4, <1>a, <1>b, GotoType DEF Queue
  <2> QED
    BY <1>4, <2>1 DEF Queue, proposal, db, rules, process
<1>5. ASSUME NEW k \in Kinds, NEW p \in Proposal, ReadRow(k, p)
      PROVE  TypeInv'
  <2>1. pc' \in [Kinds -> [Proposal -> PCs]]
    BY <1>5, <1>b, GotoType DEF ReadRow
  <2>2. arg' \in [Kinds -> [Proposal -> Statuses]]
    BY <1>5 DEF ReadRow
  <2> QED
    BY <1>5, <2>1, <2>2 DEF ReadRow, proposal, db, rules, process
<1>6. ASSUME NEW p \in Proposal, ProposeStored(p)
      PROVE  TypeInv'
  <2>1. pc' \in [Kinds -> [Proposal -> PCs]]
    <3> DEFINE l == IF needs[p] THEN pc["auto"][p] ELSE "start"
    <3>1. l \in PCs
      BY <1>a, <1>b
    <3>2. pc' = [pc EXCEPT !["propose"][p] = "done", !["auto"][p] = l]
      BY <1>6 DEF ProposeStored
    <3> HIDE DEF l
    <3> QED
      BY <3>1, <3>2, <1>a, <1>b, ForkType
  <2> QED
    BY <1>6, <1>a, <2>1, WriteType DEF ProposeStored
<1>7. ASSUME NEW p \in Proposal, ApproveStored(p)
      PROVE  TypeInv'
  <2>1. pc' \in [Kinds -> [Proposal -> PCs]]
    BY <1>7, <1>a, <1>b, ForkType DEF ApproveStored
  <2> QED
    BY <1>7, <1>a, <2>1, WriteType DEF ApproveStored
<1>8. ASSUME NEW p \in Proposal, RejectStored(p)
      PROVE  TypeInv'
  BY <1>8, <1>a, <1>b, GotoType, WriteType DEF RejectStored
<1>9. ASSUME NEW k \in Runners, NEW p \in Proposal, RunStored(k, p)
      PROVE  TypeInv'
  BY <1>9, <1>b, <1>d, <1>e, GotoType, WriteType DEF RunStored
<1>10. ASSUME NEW p \in Proposal, Approve(p)
       PROVE  TypeInv'
  <2>1. pc' \in [Kinds -> [Proposal -> PCs]]
    BY <1>10, <1>a, <1>b, GotoType DEF Approve
  <2> QED
    BY <1>10, <2>1, <1>c DEF Approve, db, rules, process
<1>11. ASSUME NEW p \in Proposal, Reject(p)
       PROVE  TypeInv'
  <2>1. pc' \in [Kinds -> [Proposal -> PCs]]
    BY <1>11, <1>a, <1>b, GotoType DEF Reject
  <2> QED
    BY <1>11, <2>1, <1>c DEF Reject, db, rules, process
<1>12. ASSUME NEW k \in Runners, NEW p \in Proposal, Begin(k, p)
       PROVE  TypeInv'
  <2>1. pc' \in [Kinds -> [Proposal -> PCs]]
    BY <1>12, <1>b, <1>d, <1>e, GotoType DEF Begin
  <2> QED
    BY <1>12, <2>1, <1>c DEF Begin, db, rules, process
<1>13. ASSUME NEW k \in Runners, NEW p \in Proposal, Skip(k, p)
       PROVE  TypeInv'
  <2>1. pc' \in [Kinds -> [Proposal -> PCs]]
    BY <1>13, <1>b, <1>d, <1>e, GotoType DEF Skip
  <2> QED
    BY <1>13, <2>1 DEF Skip, proposal, db, rules, process
<1>14. ASSUME NEW k \in Runners, NEW p \in Proposal, NEW b \in BOOLEAN,
              Finish(k, p, b)
       PROVE  TypeInv'
  <2>1. status' \in [Proposal -> Statuses]
    BY <1>14, <1>c DEF Finish
  <2> QED
    BY <1>14, <1>e, <2>1, RecordType DEF Finish
<1>15. ASSUME NEW p \in Proposal, RejectRecorded(p)
       PROVE  TypeInv'
  BY <1>15, RecordType, "reject" \in Recorders, FALSE \in BOOLEAN
  DEF RejectRecorded, Recorders
<1>16. ASSUME NEW k \in Recorders, NEW p \in Proposal, Learn(k, p)
       PROVE  TypeInv'
  <2>1. pc' \in [Kinds -> [Proposal -> PCs]]
    BY <1>16, <1>b, <1>d, GotoType DEF Learn
  <2>2. learnt' \in [Kinds -> [Proposal -> Nat]] /\ learning' \in [Rule -> Nat]
    <3>1. k \in Kinds /\ learnt[k][p] + 1 \in Nat
      BY <1>d
    <3>2. \/ learning' = [learning EXCEPT ![rule[p]] = learnt[k][p] + 1]
          \/ learning' = learning
      BY <1>16 DEF Learn
    <3>3. learning' \in [Rule -> Nat]
      BY <3>1, <3>2
    <3>4. learnt' = [learnt EXCEPT ![k][p] = 0]
      BY <1>16 DEF Learn
    <3> QED
      BY <3>1, <3>3, <3>4
  <2> QED
    BY <1>16, <2>1, <2>2 DEF Learn, proposal, rules, process
<1>17. CASE TuneThresholds
  BY <1>17 DEF TuneThresholds, thread, proposal, db, process
<1>18. CASE Restart
  <2>1. stats' \in [Rule -> [succ : Nat, fail : Nat]]
    <3>1. CASE stats' = [r \in Rule |-> [succ |-> LoadRuleStats(r, TRUE),
                                        fail |-> LoadRuleStats(r, FALSE)]]
      BY <3>1, ReloadedCount
    <3>2. CASE stats' = [r \in Rule |-> [succ |-> 0, fail |-> 0]]
      BY <3>2
    <3> QED BY <1>18, <3>1, <3>2 DEF Restart
  <2>2. status' \in [Proposal -> Statuses] /\ arg' \in [Kinds -> [Proposal -> Statuses]]
    BY <1>18, <1>c DEF Restart
  <2>3. pc' \in [Kinds -> [Proposal -> PCs]]
    BY <1>18, <1>b DEF Restart
  <2>4. learnt' \in [Kinds -> [Proposal -> Nat]] /\ restarts' \in Nat
    BY <1>18 DEF Restart
  <2> QED
    BY <1>18, <2>1, <2>2, <2>3, <2>4, RuleAssumption DEF Restart, db
<1>19. CASE UNCHANGED vars
  BY <1>19 DEF vars, thread, proposal, db, rules, process
<1>20. ASSUME NEW p \in Proposal, NEW r \in Rule, Evaluate(p, r)
       PROVE  TypeInv'
  <2>1. {p} \in SUBSET Proposal /\ [q \in {p} |-> r] \in [{p} -> Rule]
    OBVIOUS
  <2> QED
    BY <1>20, <1>b, <2>1, <1>1 DEF Evaluate
<1>21. ASSUME NEW P \in SUBSET Proposal, NEW f \in [P -> Rule],
              EvaluateSummary(P, f)
       PROVE  TypeInv'
  BY <1>21, <1>b, <1>1 DEF EvaluateSummary
<1> HIDE DEF TypeInv
<1> QED
  BY <1>2, <1>3, <1>4, <1>5, <1>6, <1>7, <1>8, <1>9, <1>10, <1>11, <1>12, <1>13,
     <1>14, <1>15, <1>16, <1>17, <1>18, <1>19, <1>20, <1>21
  DEF Next, Propose, Decide, Manage, Execute

LEMMA TypeInvariant == Spec => []TypeInv
<1>1. Init => TypeInv
  BY RuleAssumption, FS_EmptySet
  DEF Init, TypeInv, TypeOK, Kinds, PCs, Statuses
<1> QED
  BY <1>1, TypeStep, PTL DEF Spec

\* Every variable has its type in every reachable state.
THEOREM TypeCorrect == Spec => []TypeOK
<1>1. TypeInv => TypeOK
  BY DEF TypeInv
<1> QED
  BY <1>1, TypeInvariant, PTL

-----------------------------------------------------------------------------
(* The approval gate.  Phase(p) relates the threads that work on a proposal *)
(* to what they have left behind; it is inductive, and GateInv says it of   *)
(* every proposal.                                                          *)

Busy(k, p) == ~At(k, p, "idle")

\* Executions of p that thread <<k, p>> accounts for.
Started(k, p) == IF pc[k][p] \in {"idle", "start"} THEN 0 ELSE 1

\* Nothing refers to a proposal that has not been built.
Unborn(p) == status[p] = "none" =>
  /\ p \notin mem
  /\ row[p] = "none"
  /\ \A k \in Kinds : At(k, p, "idle") /\ arg[k][p] = "none"

\* A goroutine starts when the thread that starts it is through, and runs once.
Forked(p) ==
  /\ pc["approve"][p] \in {"idle", "read", "write"} => At("run", p, "idle")
  /\ ~At("propose", p, "done") => At("auto", p, "idle")
  /\ runs[p] <= Started("auto", p) + Started("run", p)

\* Who has approved, and what that excludes.
Consent(p) ==
  /\ Busy("approve", p) \/ Busy("run", p) => p \in approved
  /\ Busy("auto", p) => ~needs[p]
  /\ p \in approved => status[p] \notin {"none", "pending"}
  /\ Busy("reject", p) => p \notin approved /\ status[p] # "pending"

\* A proposal that requires approval has the status its threads imply.
InStep(p) == needs[p] =>
  /\ status[p] = "approved" => p \in approved
  /\ status[p] = "rejected" => p \notin approved
  /\ status[p] \in {"executing", "completed", "failed"}
       => p \in approved /\ runs[p] = 1
  /\ pc["approve"][p] \in {"read", "write"} \/ At("run", p, "start")
       => status[p] = "approved"
  /\ At("run", p, "acting") => status[p] = "executing"
  /\ pc["run"][p] \in {"learn", "read", "write"}
       => status[p] \in {"completed", "failed"}

\* What is written about it, or about to be, is true and stays true.
Truthful(p, s) ==
  /\ s = "rejected" => p \notin approved /\ status[p] \notin {"none", "pending"}
  /\ s \in {"completed", "failed"} => p \in approved /\ runs[p] = 1
Written(p) == needs[p] =>
  /\ Truthful(p, row[p])
  /\ \A k \in Kinds : Truthful(p, arg[k][p])

Phase(p) == Unborn(p) /\ Forked(p) /\ Consent(p) /\ InStep(p) /\ Written(p)

GateInv == TypeInv /\ \A p \in Proposal : Phase(p)

\* Every step keeps the phase of every proposal.
LEMMA PhaseStep ==
  ASSUME TypeInv, TypeInv', Next, NEW q \in Proposal, Phase(q)
  PROVE  Phase(q)'
<1> USE DEF Phase, Unborn, Forked, Consent, InStep, Written, Truthful, Busy,
            Started, At, Goto
<1> USE DEF TypeInv, TypeOK, Kinds, PCs, Statuses
<1>1. CASE LockBatch
  BY <1>1 DEF LockBatch, thread, proposal, db, rules, process
<1>2. ASSUME NEW p \in Proposal, QueueFromBatch(p)
      PROVE  Phase(q)'
  <2>1. \A k \in Kinds : pc'[k][q] =
        IF q = p /\ k = "propose" THEN "done"
        ELSE IF q = p /\ k = "auto" /\ ~needs[p] THEN "start" ELSE pc[k][q]
    <3>1. pc' = [pc EXCEPT !["propose"][p] = "done",
                           !["auto"][p] = IF needs[p] THEN @ ELSE "start"]
      BY <1>2 DEF QueueFromBatch
    <3> QED
      BY <3>1
  <2>2. Unborn(q)'
    BY <1>2, <2>1, SMTT(30) DEF QueueFromBatch, proposal
  <2>3. Forked(q)'
    BY <1>2, <2>1, SMTT(30) DEF QueueFromBatch, proposal
  <2>4. Consent(q)'
    BY <1>2, <2>1, SMTT(30) DEF QueueFromBatch, proposal
  <2>5. InStep(q)'
    BY <1>2, <2>1, SMTT(30) DEF QueueFromBatch, proposal
  <2>6. Written(q)'
    BY <1>2, <2>1, SMTT(30) DEF QueueFromBatch, proposal
  <2> QED
    BY <2>2, <2>3, <2>4, <2>5, <2>6
<1>3. ASSUME NEW p \in Proposal, Queue(p)
      PROVE  Phase(q)'
  BY <1>3, SMTT(30) DEF Queue, Runners, Recorders, thread, proposal, db, rules, process
<1>4. ASSUME NEW k \in Kinds, NEW p \in Proposal, ReadRow(k, p)
      PROVE  Phase(q)'
  BY <1>4, SMTT(30) DEF ReadRow, Runners, Recorders, thread, proposal, db, rules, process
<1>5. ASSUME NEW p \in Proposal, ProposeStored(p)
      PROVE  Phase(q)'
  <2>1. \A k \in Kinds : pc'[k][q] =
        IF q = p /\ k = "propose" THEN "done"
        ELSE IF q = p /\ k = "auto" /\ ~needs[p] THEN "start" ELSE pc[k][q]
    BY <1>5 DEF ProposeStored, WriteRow
  <2>2. Unborn(q)'
    BY <1>5, <2>1, SMTT(30) DEF ProposeStored, WriteRow, proposal
  <2>3. Forked(q)'
    BY <1>5, <2>1, SMTT(30) DEF ProposeStored, WriteRow, proposal
  <2>4. Consent(q)'
    BY <1>5, <2>1, SMTT(30) DEF ProposeStored, WriteRow, proposal
  <2>5. InStep(q)'
    BY <1>5, <2>1, SMTT(30) DEF ProposeStored, WriteRow, proposal
  <2>6. Written(q)'
    BY <1>5, <2>1, SMTT(30) DEF ProposeStored, WriteRow, proposal
  <2> QED
    BY <2>2, <2>3, <2>4, <2>5, <2>6
<1>6. ASSUME NEW p \in Proposal, ApproveStored(p)
      PROVE  Phase(q)'
  <2>1. \A k \in Kinds : pc'[k][q] =
        IF q = p /\ k = "approve" THEN "done"
        ELSE IF q = p /\ k = "run" THEN "start" ELSE pc[k][q]
    BY <1>6 DEF ApproveStored, WriteRow
  <2>2. Unborn(q)'
    BY <1>6, <2>1, SMTT(30) DEF ApproveStored, WriteRow, proposal
  <2>3. Forked(q)'
    BY <1>6, <2>1, SMTT(30) DEF ApproveStored, WriteRow, proposal
  <2>4. Consent(q)'
    BY <1>6, <2>1, SMTT(30) DEF ApproveStored, WriteRow, proposal
  <2>5. InStep(q)'
    BY <1>6, <2>1, SMTT(30) DEF ApproveStored, WriteRow, proposal
  <2>6. Written(q)'
    BY <1>6, <2>1, SMTT(30) DEF ApproveStored, WriteRow, proposal
  <2> QED
    BY <2>2, <2>3, <2>4, <2>5, <2>6
<1>7. ASSUME NEW p \in Proposal, RejectStored(p)
      PROVE  Phase(q)'
  BY <1>7, SMTT(30) DEF RejectStored, WriteRow, Runners, Recorders, thread, proposal, db, rules, process
<1>8. ASSUME NEW k \in Runners, NEW p \in Proposal, RunStored(k, p)
      PROVE  Phase(q)'
  BY <1>8, SMTT(30) DEF RunStored, WriteRow, Runners, Recorders, thread, proposal, db, rules, process
<1>9. ASSUME NEW p \in Proposal, Approve(p)
       PROVE  Phase(q)'
  BY <1>9, SMTT(30) DEF Approve, Decidable, db, rules, process
<1>10. ASSUME NEW p \in Proposal, Reject(p)
       PROVE  Phase(q)'
  BY <1>10, SMTT(30) DEF Reject, Decidable, db, rules, process
<1>11. ASSUME NEW k \in Runners, NEW p \in Proposal, Begin(k, p)
      PROVE  Phase(q)'
  BY <1>11, SMTT(30) DEF Begin, Runners, Recorders, thread, proposal, db, rules, process
<1>12. ASSUME NEW k \in Runners, NEW p \in Proposal, Skip(k, p)
      PROVE  Phase(q)'
  BY <1>12, SMTT(30) DEF Skip, Runners, Recorders, thread, proposal, db, rules, process
<1>13. ASSUME NEW k \in Runners, NEW p \in Proposal, NEW b \in BOOLEAN, Finish(k, p, b)
      PROVE  Phase(q)'
  BY <1>13, SMTT(30) DEF Finish, Record, UpdateStats, Runners, Recorders, thread, proposal, db, rules, process
<1>14. ASSUME NEW p \in Proposal, RejectRecorded(p)
      PROVE  Phase(q)'
  BY <1>14, SMTT(30) DEF RejectRecorded, Record, UpdateStats, Runners, Recorders, thread, proposal, db, rules, process
<1>15. ASSUME NEW k \in Recorders, NEW p \in Proposal, Learn(k, p)
      PROVE  Phase(q)'
  BY <1>15, SMTT(30) DEF Learn, Runners, Recorders, thread, proposal, db, rules, process
<1>16. CASE TuneThresholds
  BY <1>16 DEF TuneThresholds, thread, proposal, db, rules, process
<1>17. CASE Restart
  BY <1>17 DEF Restart, thread, proposal, db, rules, process
<1>20. ASSUME NEW P \in SUBSET Proposal, NEW f \in [P -> Rule],
              NEW l \in {"append", "batch"}, Build(P, f, l)
       PROVE  Phase(q)'
  BY <1>20, SMTT(30) DEF Build, db, rules, process
<1>21. ASSUME NEW p \in Proposal, NEW r \in Rule, Evaluate(p, r)
       PROVE  Phase(q)'
  <2>1. {p} \in SUBSET Proposal /\ [o \in {p} |-> r] \in [{p} -> Rule]
    OBVIOUS
  <2> QED
    BY <1>21, <2>1, <1>20 DEF Evaluate
<1>22. ASSUME NEW P \in SUBSET Proposal, NEW f \in [P -> Rule],
              EvaluateSummary(P, f)
       PROVE  Phase(q)'
  BY <1>22, <1>20 DEF EvaluateSummary
<1> QED
  BY ONLY Next, <1>1, <1>2, <1>3, <1>4, <1>5, <1>6, <1>7, <1>8, <1>9, <1>10,
     <1>11, <1>12, <1>13, <1>14, <1>15, <1>16, <1>17, <1>21, <1>22
  DEF Next, Propose, Decide, Manage, Execute

LEMMA GateInvariant == Spec => []GateInv
<1>1. Init => GateInv
  <2>1. Init => TypeInv
    BY RuleAssumption, FS_EmptySet
    DEF Init, TypeInv, TypeOK, Kinds, PCs, Statuses
  <2>2. ASSUME Init, NEW p \in Proposal
        PROVE  Phase(p)
    BY <2>2 DEF Init, Phase, Unborn, Forked, Consent, InStep, Written, Truthful,
                Busy, Started, At, Kinds
  <2> QED
    BY <2>1, <2>2 DEF GateInv
<1>2. GateInv /\ [Next]_vars => GateInv'
  <2> SUFFICES ASSUME GateInv, [Next]_vars PROVE GateInv'
    OBVIOUS
  <2>1. TypeInv /\ TypeInv'
    BY TypeStep DEF GateInv
  <2>2. CASE Next
    <3>1. ASSUME NEW p \in Proposal PROVE Phase(p)'
      BY <2>1, <2>2, PhaseStep DEF GateInv
    <3> QED
      BY <2>1, <3>1 DEF GateInv
  <2>3. CASE UNCHANGED vars
    BY <2>1, <2>3 DEF GateInv, Phase, Unborn, Forked, Consent, InStep, Written,
       Truthful, Busy, Started, At, vars, thread, proposal, db, rules, process
  <2> QED
    BY <2>2, <2>3
<1> QED
  BY <1>1, <1>2, PTL DEF Spec

\* No action that requires approval starts before it is approved.
THEOREM ApprovalGateHolds == Spec => []ApprovalGate
<1>1. GateInv => ApprovalGate
  BY DEF GateInv, ApprovalGate, Phase, Forked, Consent, Busy, Started, At,
         TypeInv, TypeOK, Kinds
<1> QED
  BY <1>1, GateInvariant, PTL

\* An action that requires approval starts at most once, any other twice.
THEOREM RunsBoundedHolds == Spec => []RunsBounded
<1>1. ASSUME GateInv, NEW p \in Proposal
      PROVE  runs[p] <= IF needs[p] THEN 1 ELSE 2
  <2>1. /\ runs[p] \in Nat
        /\ runs[p] <= Started("auto", p) + Started("run", p)
    BY <1>1 DEF GateInv, TypeInv, TypeOK, Phase, Forked
  <2>2. needs[p] => Started("auto", p) = 0
    BY <1>1 DEF GateInv, Phase, Consent, Busy, Started, At
  <2>3. Started("auto", p) \in 0..1 /\ Started("run", p) \in 0..1
    BY DEF Started
  <2> QED
    BY <2>1, <2>2, <2>3
<1>2. GateInv => RunsBounded
  BY <1>1 DEF RunsBounded
<1> QED
  BY <1>2, GateInvariant, PTL

\* The stored status of a proposal that requires approval is the truth about
\* whether it ran and whether it was approved.
THEOREM GatedRowTruthHolds == Spec => []GatedRowTruth
<1>1. GateInv => GatedRowTruth
  BY DEF GateInv, GatedRowTruth, Phase, Forked, Consent, Written, Truthful, Busy,
         Started, At, TypeInv, TypeOK, Kinds
<1> QED
  BY <1>1, GateInvariant, PTL

-----------------------------------------------------------------------------
(* The lifecycle *)

\* Every step is a step of the promised lifecycle, or a stutter.
LEMMA LifecycleStep ==
  ASSUME GateInv, [Next]_vars
  PROVE  [Gated!Next]_GatedStatus
<1> USE DEF GateInv, TypeInv, TypeOK
<1>1. ASSUME UNCHANGED <<status, needs>>
      PROVE  UNCHANGED GatedStatus
  BY <1>1 DEF GatedStatus
<1>2. ASSUME NEW P \in SUBSET Proposal, NEW f \in [P -> Rule], NEW l \in PCs,
             Build(P, f, l)
      PROVE  Gated!Create
  <2> DEFINE G == {p \in P : RequiresApproval(f[p])}
  <2>1. \A p \in G : GatedStatus[p] = "none"
    BY <1>2 DEF Build, GatedStatus
  <2>2. GatedStatus' =
          [p \in Proposal |-> IF p \in G THEN "pending" ELSE GatedStatus[p]]
    BY <1>2 DEF Build, GatedStatus
  <2>3. G \in SUBSET Proposal
    OBVIOUS
  <2> HIDE DEF G
  <2> QED
    BY <2>1, <2>2, <2>3 DEF Gated!Create
<1>3. ASSUME NEW p \in Proposal, NEW s, status' = [status EXCEPT ![p] = s],
             UNCHANGED needs
      PROVE  IF needs[p] THEN /\ GatedStatus[p] = status[p]
                              /\ GatedStatus' = [GatedStatus EXCEPT ![p] = s]
                         ELSE UNCHANGED GatedStatus
  BY <1>3 DEF GatedStatus
<1>4. ASSUME NEW p \in Proposal, Approve(p)
      PROVE  Gated!Approve(p) \/ UNCHANGED GatedStatus
  BY <1>3, <1>4 DEF Approve, Decidable, Gated!Approve, Gated!Move
<1>5. ASSUME NEW p \in Proposal, Reject(p)
      PROVE  Gated!Reject(p) \/ UNCHANGED GatedStatus
  BY <1>3, <1>5 DEF Reject, Decidable, Gated!Reject, Gated!Move
<1>6. ASSUME NEW k \in Runners, NEW p \in Proposal, Begin(k, p)
      PROVE  Gated!Start(p) \/ UNCHANGED GatedStatus
  <2>1. needs[p] => status[p] = "approved"
    BY <1>6 DEF Begin, Runners, Phase, Consent, InStep, Busy, At
  <2> QED
    BY <1>3, <1>6, <2>1 DEF Begin, Gated!Start, Gated!Move
<1>7. ASSUME NEW k \in Runners, NEW p \in Proposal, NEW b \in BOOLEAN,
             Finish(k, p, b)
      PROVE  Gated!Finish(p) \/ UNCHANGED GatedStatus
  <2>1. needs[p] => status[p] = "executing"
    BY <1>7 DEF Finish, Runners, Phase, Consent, InStep, Busy, At
  <2> QED
    BY <1>3, <1>7, <2>1 DEF Finish, Record, Gated!Finish, Gated!Move
<1>8. CASE Restart
  <2>1. GatedStatus' = [p \in Proposal |->
                          IF GatedStatus[p] = "none" THEN "none" ELSE "gone"]
    BY <1>8 DEF Restart, GatedStatus
  <2> QED
    BY <2>1 DEF Gated!Next, Gated!Forget
<1>9. ASSUME NEW p \in Proposal,
             \/ QueueFromBatch(p) \/ Queue(p)
             \/ ProposeStored(p) \/ ApproveStored(p) \/ RejectStored(p)
             \/ RejectRecorded(p)
      PROVE  UNCHANGED GatedStatus
  BY <1>1, <1>9 DEF QueueFromBatch, Queue, ProposeStored, ApproveStored,
     RejectStored, RejectRecorded, WriteRow, Record, proposal
<1>10. ASSUME NEW k, NEW p \in Proposal,
              ReadRow(k, p) \/ RunStored(k, p) \/ Skip(k, p) \/ Learn(k, p)
       PROVE  UNCHANGED GatedStatus
  BY <1>1, <1>10 DEF ReadRow, RunStored, Skip, Learn, WriteRow, proposal
<1>11. ASSUME LockBatch \/ TuneThresholds \/ UNCHANGED vars
       PROVE  UNCHANGED GatedStatus
  BY <1>1, <1>11 DEF LockBatch, TuneThresholds, vars, proposal
<1>12. ASSUME Propose
       PROVE  Gated!Create
  <2>1. {"append", "batch"} \subseteq PCs
    BY DEF PCs
  <2>2. \A p \in Proposal, r \in Rule : Evaluate(p, r) => Gated!Create
    <3>1. \A p \in Proposal, r \in Rule :
            {p} \in SUBSET Proposal /\ [q \in {p} |-> r] \in [{p} -> Rule]
      OBVIOUS
    <3> QED
      BY <1>2, <2>1, <3>1 DEF Evaluate
  <2>3. \A P \in SUBSET Proposal : \A f \in [P -> Rule] :
          EvaluateSummary(P, f) => Gated!Create
    BY <1>2, <2>1 DEF EvaluateSummary
  <2> QED
    BY <1>12, <2>2, <2>3 DEF Propose
<1> QED
  BY ONLY [Next]_vars, <1>4, <1>5, <1>6, <1>7, <1>8, <1>9, <1>10, <1>11, <1>12
  DEF Next, Decide, Manage, Execute, Gated!Next

\* Proposals that require approval follow the documented lifecycle.
THEOREM LifecycleHolds == Spec => GatedLifecycle
<1>1. Init => Gated!Init
  BY DEF Init, Gated!Init, GatedStatus
<1>2. GateInv /\ [Next]_vars => [Gated!Next]_GatedStatus
  BY LifecycleStep
<1> QED
  BY <1>1, <1>2, GateInvariant, PTL DEF Spec, GatedLifecycle, Gated!Spec


-----------------------------------------------------------------------------
(* The ledger: what a proposal's threads have left in its row, in the      *)
(* incidents and in the learning table.                                    *)

Others == Kinds \ {"propose"}

\* Until a proposal is queued nobody else works on it; whoever works on one has
\* it from the queue.
Waiting(p) == pc["propose"][p] \in {"idle", "append", "batch"} =>
  p \notin mem /\ \A k \in Others : At(k, p, "idle")
Working(p) ==
  /\ pc["propose"][p] \in {"read", "write"} => p \in mem
  /\ \A k \in Others : pc[k][p] \notin {"idle", "done"} => p \in mem

\* A row that only "propose" and "auto" write holds the status whenever no one
\* is about to write it.
Untouched(p) == p \in mem /\ At("approve", p, "idle") /\ At("reject", p, "idle")
Settling(p) == ~StoreFails /\ Untouched(p) =>
  /\ At("propose", p, "write") => arg["propose"][p] = status[p]
  /\ At("auto", p, "write") => arg["auto"][p] = status[p]
  /\ At("propose", p, "done") /\ pc["auto"][p] \in {"idle", "start", "done"}
       => row[p] = status[p]

Ledger(p) == Waiting(p) /\ Working(p) /\ Settling(p)

\* A thread leaves its one incident when it comes to "learn".
Recorded(k, p) ==
  pc[k][p] \in IF k = "reject" THEN {"learn", "done"} ELSE {"learn", "read", "write", "done"}
Logged == \A i \in incidents : i.kind \in Recorders /\ Recorded(i.kind, i.proposal)

LedgerInv == GateInv /\ Logged /\ \A p \in Proposal : Ledger(p)

\* The incidents of each rule, which its next frequency is never ahead of.
Seen == [r \in Rule |-> Cardinality({i \in incidents : i.rule = r})]
LearnInv == ~StoreFails =>
  /\ \A r \in Rule : learning[r] <= Seen[r]
  /\ \A k \in Kinds, p \in Proposal : At(k, p, "learn") => learnt[k][p] + 1 <= Seen[rule[p]]

Outcomes(r) ==
  {t \in Recorders \X Proposal : rule[t[2]] = r /\ Counted(t[1], t[2])}

\* Every step keeps the ledger of every proposal.
LEMMA LedgerStep ==
  ASSUME TypeInv, TypeInv', Next, NEW q \in Proposal, Phase(q), Ledger(q)
  PROVE  Ledger(q)'
<1> USE DEF Ledger, Waiting, Working, Settling, Untouched, Others, Phase, Unborn, Forked,
            Consent, Busy, At, Goto, TypeInv, TypeOK, Kinds, PCs, Statuses
<1>1. CASE LockBatch
  BY <1>1 DEF LockBatch, thread, proposal, db
<1>2. ASSUME NEW p \in Proposal, QueueFromBatch(p) PROVE Ledger(q)'
  <2>1. \A k \in Kinds : pc'[k][q] =
        IF q = p /\ k = "propose" THEN "done"
        ELSE IF q = p /\ k = "auto" /\ ~needs[p] THEN "start" ELSE pc[k][q]
    <3>1. pc' = [pc EXCEPT !["propose"][p] = "done",
                           !["auto"][p] = IF needs[p] THEN @ ELSE "start"]
      BY <1>2 DEF QueueFromBatch
    <3> QED BY <3>1
  <2>2. Waiting(q)'
    BY <1>2, <2>1, SMTT(30) DEF QueueFromBatch, proposal
  <2>3. Working(q)'
    <3>1. (q = p => q \in mem') /\ mem \subseteq mem'
      BY <1>2 DEF QueueFromBatch
    <3>2. ASSUME NEW k \in Others, pc'[k][q] \notin {"idle", "done"}
          PROVE  q \in mem'
      BY <2>1, <3>1, <3>2
    <3>3. pc'["propose"][q] \in {"read", "write"} => q \in mem'
      BY <2>1, <3>1
    <3> QED BY <3>2, <3>3
  <2>4. Settling(q)'
    BY <1>2, <2>1, SMTT(30) DEF QueueFromBatch, proposal
  <2> QED BY <2>2, <2>3, <2>4
<1>3. ASSUME NEW p \in Proposal, ProposeStored(p) PROVE Ledger(q)'
  <2>1. \A k \in Kinds : pc'[k][q] =
        IF q = p /\ k = "propose" THEN "done"
        ELSE IF q = p /\ k = "auto" /\ ~needs[p] THEN "start" ELSE pc[k][q]
    BY <1>3 DEF ProposeStored, WriteRow
  <2>2. Waiting(q)'
    BY <1>3, <2>1, SMTT(30) DEF ProposeStored, WriteRow, proposal
  <2>3. Working(q)'
    <3>1. (q = p => q \in mem') /\ mem \subseteq mem'
      BY <1>3 DEF ProposeStored, WriteRow
    <3>2. ASSUME NEW k \in Others, pc'[k][q] \notin {"idle", "done"}
          PROVE  q \in mem'
      BY <2>1, <3>1, <3>2
    <3>3. pc'["propose"][q] \in {"read", "write"} => q \in mem'
      BY <2>1, <3>1
    <3> QED BY <3>2, <3>3
  <2>4. Settling(q)'
    BY <1>3, <2>1, SMTT(30) DEF ProposeStored, WriteRow, proposal
  <2> QED BY <2>2, <2>3, <2>4
<1>4. ASSUME NEW p \in Proposal, ApproveStored(p) PROVE Ledger(q)'
  <2>1. \A k \in Kinds : pc'[k][q] =
        IF q = p /\ k = "approve" THEN "done"
        ELSE IF q = p /\ k = "run" THEN "start" ELSE pc[k][q]
    BY <1>4 DEF ApproveStored, WriteRow
  <2>2. Waiting(q)'
    BY <1>4, <2>1, SMTT(30) DEF ApproveStored, WriteRow, proposal
  <2>3. Working(q)'
    <3>1. (q = p => q \in mem') /\ mem \subseteq mem'
      BY <1>4 DEF ApproveStored, WriteRow
    <3>2. ASSUME NEW k \in Others, pc'[k][q] \notin {"idle", "done"}
          PROVE  q \in mem'
      BY <2>1, <3>1, <3>2
    <3>3. pc'["propose"][q] \in {"read", "write"} => q \in mem'
      BY <2>1, <3>1
    <3> QED BY <3>2, <3>3
  <2>4. Settling(q)'
    BY <1>4, <2>1, SMTT(30) DEF ApproveStored, WriteRow, proposal
  <2> QED BY <2>2, <2>3, <2>4
<1>5. ASSUME NEW p \in Proposal, Queue(p)
      PROVE  Ledger(q)'
  BY <1>5, SMTT(30) DEF Queue, proposal, db
<1>6. ASSUME NEW k \in Kinds, NEW p \in Proposal, ReadRow(k, p)
      PROVE  Ledger(q)'
  BY <1>6, SMTT(30) DEF ReadRow, proposal, db
<1>7. ASSUME NEW p \in Proposal, RejectStored(p)
      PROVE  Ledger(q)'
  BY <1>7, SMTT(30) DEF RejectStored, WriteRow, proposal
<1>8. ASSUME NEW k \in Runners, NEW p \in Proposal, RunStored(k, p)
      PROVE  Ledger(q)'
  BY <1>8, SMTT(30) DEF RunStored, WriteRow, Runners, proposal
<1>9. ASSUME NEW p \in Proposal, Approve(p)
      PROVE  Ledger(q)'
  BY <1>9, SMTT(30) DEF Approve, Decidable, db
<1>10. ASSUME NEW p \in Proposal, Reject(p)
      PROVE  Ledger(q)'
  BY <1>10, SMTT(30) DEF Reject, Decidable, db
<1>11. ASSUME NEW k \in Runners, NEW p \in Proposal, Begin(k, p)
      PROVE  Ledger(q)'
  BY <1>11, SMTT(30) DEF Begin, Runners, db
<1>12. ASSUME NEW k \in Runners, NEW p \in Proposal, Skip(k, p)
      PROVE  Ledger(q)'
  BY <1>12, SMTT(30) DEF Skip, Runners, proposal, db
<1>13. ASSUME NEW k \in Runners, NEW p \in Proposal, NEW b \in BOOLEAN, Finish(k, p, b)
      PROVE  Ledger(q)'
  BY <1>13, SMTT(30) DEF Finish, Record, Runners
<1>14. ASSUME NEW p \in Proposal, RejectRecorded(p)
      PROVE  Ledger(q)'
  BY <1>14, SMTT(30) DEF RejectRecorded, Record
<1>15. ASSUME NEW k \in Recorders, NEW p \in Proposal, Learn(k, p)
      PROVE  Ledger(q)'
  BY <1>15, SMTT(30) DEF Learn, Recorders, Runners, proposal
<1>16. CASE TuneThresholds
  BY <1>16 DEF TuneThresholds, thread, proposal, db
<1>17. CASE Restart
  BY <1>17 DEF Restart, db
<1>18. ASSUME NEW P \in SUBSET Proposal, NEW f \in [P -> Rule],
              NEW l \in {"append", "batch"}, Build(P, f, l)
       PROVE  Ledger(q)'
  BY <1>18, SMTT(30) DEF Build, db
<1>19. ASSUME NEW p \in Proposal, NEW r \in Rule, Evaluate(p, r) PROVE Ledger(q)'
  <2>1. {p} \in SUBSET Proposal /\ [o \in {p} |-> r] \in [{p} -> Rule]
    OBVIOUS
  <2> QED BY <1>19, <2>1, <1>18 DEF Evaluate
<1>20. ASSUME NEW P \in SUBSET Proposal, NEW f \in [P -> Rule], EvaluateSummary(P, f)
       PROVE  Ledger(q)'
  BY <1>20, <1>18 DEF EvaluateSummary
<1> QED
  BY ONLY Next, <1>1, <1>2, <1>3, <1>4, <1>5, <1>6, <1>7, <1>8, <1>9, <1>10, <1>11, <1>12, <1>13, <1>14, <1>15, <1>16, <1>17, <1>19, <1>20
  DEF Next, Propose, Decide, Manage, Execute


\* An incident, once it is in the table, stays logged.
LEMMA LoggedStep ==
  ASSUME TypeInv, Next, Logged, \A p \in Proposal : Phase(p)
  PROVE  Logged'
<1> USE DEF TypeInv, TypeOK, At, Goto, Recorded
<1>1. ASSUME NEW k \in Recorders, NEW p \in Proposal, NEW b \in BOOLEAN, Record(k, p, b),
             At(k, p, "acting") \/ At(k, p, "record")
      PROVE  Logged'
  <2>1. k \in Kinds
    BY DEF Recorders, Runners, Kinds
  <2>2. pc' = [pc EXCEPT ![k][p] = "learn"]
    BY <1>1 DEF Record
  <2>3. \A i \in incidents : i.kind \in Kinds /\ i.proposal \in Proposal
    BY DEF Incident
  <2>4. \A i \in incidents : i.kind \in Recorders /\ Recorded(i.kind, i.proposal)'
    BY <2>1, <2>2, <2>3 DEF Logged
  <2>5. ASSUME NEW i \in incidents', i \notin incidents
        PROVE  i.kind = k /\ i.proposal = p
    BY <1>1, <2>5 DEF Record
  <2>6. Recorded(k, p)'
    BY <2>1, <2>2
  <2> HIDE DEF Recorded
  <2> QED
    BY <2>4, <2>5, <2>6 DEF Logged
<1>2. ASSUME UNCHANGED incidents,
             \A k \in Recorders, p \in Proposal : Recorded(k, p) => Recorded(k, p)'
      PROVE  Logged'
  <2>1. \A i \in incidents : i.proposal \in Proposal
    BY DEF Incident
  <2> HIDE DEF Recorded
  <2> QED
    BY <1>2, <2>1 DEF Logged
<1> DEFINE Stays == UNCHANGED incidents /\ \A k \in Recorders, p \in Proposal :
                      Recorded(k, p) => Recorded(k, p)'
<1> USE DEF Recorders, Runners, Kinds
<1>3. CASE LockBatch \/ TuneThresholds
  BY <1>2, <1>3 DEF LockBatch, TuneThresholds, thread, db
<1>4. CASE Restart
  <2>1. \A k \in Recorders, p \in Proposal : Recorded(k, p) => Recorded(k, p)'
    BY <1>4 DEF Restart
  <2> QED BY <1>2, <1>4, <2>1 DEF Restart, db
<1>5. ASSUME NEW p \in Proposal, QueueFromBatch(p) \/ ProposeStored(p) PROVE Stays
  <2>1. At("auto", p, "idle")
    BY <1>5 DEF QueueFromBatch, ProposeStored, WriteRow, Phase, Forked
  <2>2. pc' = [pc EXCEPT !["propose"][p] = "done",
                         !["auto"][p] = IF needs[p] THEN @ ELSE "start"]
    BY <1>5 DEF QueueFromBatch, ProposeStored
  <2>3. UNCHANGED incidents
    BY <1>5 DEF QueueFromBatch, ProposeStored, WriteRow
  <2> QED BY <2>1, <2>2, <2>3
<1>6. ASSUME NEW p \in Proposal, ApproveStored(p) PROVE Stays
  <2>1. At("run", p, "idle")
    BY <1>6 DEF ApproveStored, WriteRow, Phase, Forked
  <2> QED BY <1>6, <2>1 DEF ApproveStored, WriteRow
<1>7. ASSUME NEW p \in Proposal, Queue(p) \/ Approve(p) PROVE Stays
  BY <1>7 DEF Queue, Approve, db
<1>8. ASSUME NEW k \in Kinds, NEW p \in Proposal, ReadRow(k, p) PROVE Stays
  BY <1>8 DEF ReadRow, db
<1>9. ASSUME NEW p \in Proposal, RejectStored(p) PROVE Stays
  BY <1>9 DEF RejectStored, WriteRow
<1>10. ASSUME NEW k \in Runners, NEW p \in Proposal, RunStored(k, p) PROVE Stays
  BY <1>10 DEF RunStored, WriteRow
<1>11. ASSUME NEW p \in Proposal, Reject(p) PROVE Stays
  <2>1. At("reject", p, "idle")
    BY <1>11 DEF Reject, Decidable, Phase, Consent, Busy
  <2> QED BY <1>11, <2>1 DEF Reject, db
<1>12. ASSUME NEW k \in Runners, NEW p \in Proposal, Begin(k, p) \/ Skip(k, p) PROVE Stays
  <2>1. CASE Begin(k, p) BY <2>1 DEF Begin, db
  <2>2. CASE Skip(k, p) BY <2>2 DEF Skip, db
  <2> QED BY <1>12, <2>1, <2>2
<1>13. ASSUME NEW k \in Recorders, NEW p \in Proposal, Learn(k, p) PROVE Stays
  BY <1>13 DEF Learn
<1>14. ASSUME NEW k \in Runners, NEW p \in Proposal, NEW b \in BOOLEAN, Finish(k, p, b)
       PROVE  Logged'
  BY <1>1, <1>14 DEF Finish
<1>15. ASSUME NEW p \in Proposal, RejectRecorded(p) PROVE Logged'
  BY <1>1, <1>15 DEF RejectRecorded
<1>16. CASE Propose
  <2>1. ASSUME NEW P, NEW f, NEW l, Build(P, f, l) PROVE Stays
    <3>1. UNCHANGED incidents /\ \A k \in Recorders, p \in Proposal : pc'[k][p] = pc[k][p]
      BY <2>1 DEF Build, db
    <3> QED BY <3>1
  <2> QED BY <1>2, <1>16, <2>1 DEF Propose, Evaluate, EvaluateSummary
<1> HIDE DEF Stays
<1>17. Stays => Logged'
  BY <1>2 DEF Stays
<1> QED
  BY ONLY Next, <1>3, <1>4, <1>5, <1>6, <1>7, <1>8, <1>9, <1>10, <1>11, <1>12, <1>13,
     <1>14, <1>15, <1>16, <1>17
  DEF Next, Decide, Manage, Execute

LEMMA LedgerInvariant == Spec => []LedgerInv
<1>1. Init => Logged /\ \A p \in Proposal : Ledger(p)
  BY DEF Init, Logged, Ledger, Waiting, Working, Settling, Untouched, Others, At, Kinds
<1>2. GateInv /\ GateInv' /\ [Next]_vars /\ LedgerInv
        => (Logged /\ \A p \in Proposal : Ledger(p))'
  <2> SUFFICES ASSUME GateInv, GateInv', [Next]_vars, LedgerInv
               PROVE  (Logged /\ \A p \in Proposal : Ledger(p))'
    OBVIOUS
  <2>1. CASE Next
    <3>1. Logged'
      BY <2>1, LoggedStep DEF GateInv, LedgerInv
    <3>2. ASSUME NEW p \in Proposal PROVE Ledger(p)'
      BY <2>1, LedgerStep DEF GateInv, LedgerInv
    <3> QED BY <3>1, <3>2
  <2>2. CASE UNCHANGED vars
    BY <2>2 DEF LedgerInv, Logged, Recorded, Ledger, Waiting, Working, Settling, Untouched,
       Others, At, vars, thread, proposal, db, rules, process
  <2> QED BY <2>1, <2>2
<1> QED
  BY <1>1, <1>2, GateInvariant, PTL DEF Spec, LedgerInv

\* A proposal that no human touched ends with its row equal to its status.
THEOREM RowSettlesHolds == Spec => []RowSettles
<1>1. LedgerInv => RowSettles
  BY DEF LedgerInv, GateInv, TypeInv, TypeOK, RowSettles, Settled, Ledger, Waiting, Settling,
         Untouched, At, Kinds
<1> QED
  BY <1>1, LedgerInvariant, PTL


-----------------------------------------------------------------------------
(* What RecordOutcome adds, and who else touches the books *)

\* A thread records the outcome of the proposal it works on.
Recording(k, p, b) ==
  /\ k \in Recorders
  /\ p \in Proposal
  /\ b \in BOOLEAN
  /\ At(k, p, "acting") \/ At(k, p, "record")
  /\ Record(k, p, b)

\* A step that adds no outcome: proposals are queued from "append" or "batch",
\* and only one that is new gets its rule.
Quiet ==
  /\ UNCHANGED <<incidents, stats>>
  /\ mem \subseteq mem'
  /\ \A q \in Proposal :
       /\ q \in mem' \ mem => pc["propose"][q] \in {"append", "batch"}
       /\ rule'[q] # rule[q] => status[q] = "none"
       /\ \A k \in Kinds : At(k, q, "learn")' => At(k, q, "learn")

LEMMA Books ==
  ASSUME TypeInv, Next
  PROVE  \/ Restart
         \/ \E k, p, b : Recording(k, p, b)
         \/ Quiet /\ \E k \in Recorders, p \in Proposal : Learn(k, p)
         \/ Quiet /\ UNCHANGED <<learning, learnt>>
<1> USE DEF TypeInv, TypeOK, At, Goto, Recorders, Runners, Kinds
<1> DEFINE Still == Quiet /\ UNCHANGED <<learning, learnt>>
<1> USE DEF Quiet
<1>1. CASE LockBatch \/ TuneThresholds
  BY <1>1 DEF LockBatch, TuneThresholds, thread, proposal, db, rules
<1>2. ASSUME NEW p \in Proposal, QueueFromBatch(p) PROVE Still
  <2>1. \A k \in Kinds, q \in Proposal : pc'[k][q] = pc[k][q] \/ pc'[k][q] \in {"done", "start"}
    BY <1>2 DEF QueueFromBatch
  <2>2. \A q \in Proposal, k \in Kinds : At(k, q, "learn")' => At(k, q, "learn")
    BY <2>1
  <2>3. /\ UNCHANGED <<incidents, stats, rule, learning, learnt>>
        /\ mem \subseteq mem'
        /\ \A q \in mem' : q \in mem \/ pc["propose"][q] \in {"append", "batch"}
    BY <1>2 DEF QueueFromBatch, proposal, rules
  <2> QED BY <2>2, <2>3
<1>3. ASSUME NEW p \in Proposal, ProposeStored(p) PROVE Still
  <2>1. \A k \in Kinds, q \in Proposal : pc'[k][q] = pc[k][q] \/ pc'[k][q] \in {"done", "start"}
    BY <1>3 DEF ProposeStored
  <2>2. \A q \in Proposal, k \in Kinds : At(k, q, "learn")' => At(k, q, "learn")
    BY <2>1
  <2>3. /\ UNCHANGED <<incidents, stats, rule, learning, learnt>>
        /\ mem \subseteq mem'
        /\ \A q \in mem' : q \in mem \/ pc["propose"][q] \in {"append", "batch"}
    BY <1>3 DEF ProposeStored, WriteRow, proposal, rules
  <2> QED BY <2>2, <2>3
<1>4. ASSUME NEW p \in Proposal, ApproveStored(p) PROVE Still
  <2>1. \A k \in Kinds, q \in Proposal : pc'[k][q] = pc[k][q] \/ pc'[k][q] \in {"done", "start"}
    BY <1>4 DEF ApproveStored
  <2>2. \A q \in Proposal, k \in Kinds : At(k, q, "learn")' => At(k, q, "learn")
    BY <2>1
  <2>3. /\ UNCHANGED <<incidents, stats, rule, learning, learnt>>
        /\ mem \subseteq mem'
        /\ \A q \in mem' : q \in mem \/ pc["propose"][q] \in {"append", "batch"}
    BY <1>4 DEF ApproveStored, WriteRow, proposal, rules
  <2> QED BY <2>2, <2>3
<1>5. ASSUME NEW p \in Proposal, Queue(p) PROVE Still
  BY <1>5 DEF Queue, proposal, db, rules
<1>6. ASSUME NEW p \in Proposal, RejectStored(p) PROVE Still
  BY <1>6 DEF RejectStored, WriteRow, proposal, rules
<1>7. ASSUME NEW k \in Kinds, NEW p \in Proposal, ReadRow(k, p) PROVE Still
  BY <1>7 DEF ReadRow, proposal, db, rules
<1>8. ASSUME NEW p \in Proposal, Approve(p) PROVE Still
  BY <1>8 DEF Approve, db, rules
<1>9. ASSUME NEW p \in Proposal, Reject(p) PROVE Still
  BY <1>9 DEF Reject, db, rules
<1>10. ASSUME NEW k \in Runners, NEW p \in Proposal, Begin(k, p) PROVE Still
  BY <1>10 DEF Begin, db, rules
<1>11. ASSUME NEW k \in Runners, NEW p \in Proposal, Skip(k, p) PROVE Still
  BY <1>11 DEF Skip, proposal, db, rules
<1>12. ASSUME NEW k \in Runners, NEW p \in Proposal, RunStored(k, p) PROVE Still
  BY <1>12 DEF RunStored, WriteRow, proposal, rules
<1>13. ASSUME NEW k \in Recorders, NEW p \in Proposal, Learn(k, p) PROVE Quiet
  BY <1>13 DEF Learn, proposal, rules
<1>14. ASSUME NEW k \in Runners, NEW p \in Proposal, NEW b \in BOOLEAN, Finish(k, p, b)
       PROVE  Recording(k, p, b)
  BY <1>14 DEF Finish, Recording
<1>15. ASSUME NEW p \in Proposal, RejectRecorded(p) PROVE Recording("reject", p, FALSE)
  BY <1>15 DEF RejectRecorded, Recording
<1>16. CASE Propose
  <2>1. ASSUME NEW P \in SUBSET Proposal, NEW f, NEW l \in {"append", "batch"}, Build(P, f, l)
        PROVE  Still
    <3>1. \A k \in Kinds, q \in Proposal :
            pc'[k][q] = pc[k][q] \/ pc'[k][q] \in {"append", "batch"}
      BY <2>1 DEF Build
    <3>2. \A q \in Proposal : rule'[q] # rule[q] => status[q] = "none"
      BY <2>1 DEF Build
    <3> QED BY <2>1, <3>1, <3>2 DEF Build, db, rules
  <2>2. \A p \in Proposal, r \in Rule : Evaluate(p, r) => Still
    BY <2>1 DEF Evaluate
  <2>3. \A P \in SUBSET Proposal : \A f \in [P -> Rule] : EvaluateSummary(P, f) => Still
    BY <2>1 DEF EvaluateSummary
  <2> HIDE DEF Still
  <2>4. Still
    BY <1>16, <2>2, <2>3 DEF Propose
  <2> QED BY <2>4 DEF Still
<1> HIDE DEF Quiet
<1> QED
  BY ONLY Next, <1>1, <1>2, <1>3, <1>4, <1>5, <1>6, <1>7, <1>8, <1>9, <1>10, <1>11, <1>12,
     <1>13, <1>14, <1>15, <1>16
  DEF Next, Decide, Manage, Execute, Still


\* The incident a recording leaves is the first of its thread, and is its rule's.
LEMMA FreshIncident ==
  ASSUME LedgerInv, NEW k, NEW p, NEW b, Recording(k, p, b), ~StoreFails
  PROVE  /\ p \in mem
         /\ \A j \in incidents : ~(j.kind = k /\ j.proposal = p)
         /\ \E i \in Incident :
              /\ i.kind = k /\ i.proposal = p /\ i.rule = rule[p]
              /\ incidents' = incidents \cup {i}
<1> USE DEF LedgerInv, GateInv, TypeInv, TypeOK
<1>1. k \in Kinds /\ k \in Others /\ p \in Proposal
  BY DEF Recording, Recorders, Runners, Kinds, Others
<1>2. ~Recorded(k, p) /\ p \in mem
  BY <1>1 DEF Recording, Recorded, Ledger, Working, At
<1>3. [kind |-> k, proposal |-> p, rule |-> rule[p],
       description |-> Reasoning[rule[p]], succeeded |-> b] \in Incident
  BY <1>1, RuleAssumption DEF Incident, Recording
<1>4. \A j \in incidents : ~(j.kind = k /\ j.proposal = p)
  BY <1>2 DEF Logged
<1> QED
  BY <1>2, <1>3, <1>4 DEF Recording, Record

-----------------------------------------------------------------------------
(* The learning table *)

\* The incidents of a rule are finitely many, and one more is one more.
LEMMA SeenType ==
  ASSUME IsFiniteSet(incidents), NEW r \in Rule
  PROVE  IsFiniteSet({i \in incidents : i.rule = r}) /\ Seen[r] \in Nat
<1>1. IsFiniteSet({i \in incidents : i.rule = r})
  BY FS_Subset, {i \in incidents : i.rule = r} \subseteq incidents
<1> QED
  BY <1>1, FS_CardinalityType DEF Seen

LEMMA SeenGrows ==
  ASSUME IsFiniteSet(incidents), NEW i, i \notin incidents,
         incidents' = incidents \cup {i}, NEW r \in Rule
  PROVE  Seen'[r] = IF i.rule = r THEN Seen[r] + 1 ELSE Seen[r]
<1> DEFINE S == {j \in incidents : j.rule = r}
<1>1. S' = IF i.rule = r THEN S \cup {i} ELSE S
  OBVIOUS
<1>2. IsFiniteSet(S) /\ i \notin S
  BY SeenType
<1> HIDE DEF S
<1>3. Cardinality(S \cup {i}) = Cardinality(S) + 1
  BY <1>2, FS_AddElement
<1>4. Seen[r] = Cardinality(S) /\ Seen'[r] = Cardinality(S')
  BY DEF Seen, S
<1> QED
  BY <1>1, <1>3, <1>4

LEMMA LearnStep ==
  ASSUME LedgerInv, TypeInv', Next, LearnInv
  PROVE  LearnInv'
<1> SUFFICES ASSUME ~StoreFails
             PROVE  /\ \A r \in Rule : learning'[r] <= Seen'[r]
                    /\ \A k \in Kinds, p \in Proposal :
                         At(k, p, "learn")' => learnt'[k][p] + 1 <= Seen'[rule'[p]]
  BY DEF LearnInv
<1> USE DEF LedgerInv, GateInv, TypeInv, TypeOK
<1>1. \A r \in Rule : learning[r] <= Seen[r]
  BY DEF LearnInv
<1>2. \A k \in Kinds, p \in Proposal : At(k, p, "learn") => learnt[k][p] + 1 <= Seen[rule[p]]
  BY DEF LearnInv
<1>3. CASE Restart
  <2>1. \A k \in Kinds, p \in Proposal : ~At(k, p, "learn")'
    BY <1>3 DEF Restart, At
  <2>2. \A r \in Rule : Seen'[r] = Seen[r]
    BY <1>3 DEF Restart, db, Seen
  <2> QED BY <1>1, <1>3, <2>1, <2>2 DEF Restart, db
<1>4. ASSUME NEW k, NEW p, NEW b, Recording(k, p, b)
      PROVE  LearnInv'
  <2>1. PICK i \in Incident : /\ i.rule = rule[p]
                              /\ i \notin incidents
                              /\ incidents' = incidents \cup {i}
    BY <1>4, FreshIncident
  <2>2. /\ \A r \in Rule : Seen[r] \in Nat /\ Seen'[r] \in Nat /\ Seen[r] <= Seen'[r]
        /\ Seen'[rule[p]] = Seen[rule[p]] + 1
    <3>1. \A r \in Rule : Seen[r] \in Nat
      BY SeenType
    <3>2. \A r \in Rule : Seen'[r] = IF rule[p] = r THEN Seen[r] + 1 ELSE Seen[r]
      BY <2>1, SeenGrows
    <3>3. rule[p] \in Rule
      BY <1>4 DEF Recording
    <3> QED BY ONLY <3>1, <3>2, <3>3
  <2>3. k \in Kinds /\ p \in Proposal
    BY <1>4 DEF Recording, Recorders, Runners, Kinds
  <2>4. /\ UNCHANGED <<learning, rule>>
        /\ learnt' = [learnt EXCEPT ![k][p] = learning[rule[p]]]
        /\ pc' = [pc EXCEPT ![k][p] = "learn"]
    BY <1>4 DEF Recording, Record, Goto
  <2>5. ASSUME NEW h \in Kinds, NEW q \in Proposal, At(h, q, "learn")'
        PROVE  learnt'[h][q] + 1 <= Seen'[rule'[q]]
    <3>1. CASE h = k /\ q = p
      <4>1. learnt'[k][p] = learning[rule[p]]
        BY <2>3, <2>4
      <4>2. rule[p] \in Rule /\ learning[rule[p]] \in Nat
        BY <2>3
      <4>3. learning[rule[p]] <= Seen[rule[p]]
        BY <1>1, <4>2
      <4>4. learnt'[k][p] + 1 <= Seen'[rule[p]]
        BY ONLY <2>2, <4>1, <4>2, <4>3
      <4> QED BY <2>4, <3>1, <4>4
    <3>2. CASE ~(h = k /\ q = p)
      <4>1. learnt'[h][q] = learnt[h][q] /\ At(h, q, "learn")
        BY <2>3, <2>4, <2>5, <3>2 DEF At
      <4>2. rule[q] \in Rule /\ learnt[h][q] \in Nat
        OBVIOUS
      <4>3. learnt[h][q] + 1 <= Seen[rule[q]]
        BY <1>2, <4>1
      <4>4. learnt'[h][q] + 1 <= Seen'[rule[q]]
        BY ONLY <2>2, <4>1, <4>2, <4>3
      <4> QED BY <2>4, <4>4
    <3> QED BY <3>1, <3>2
  <2>6. \A r \in Rule : learning'[r] <= Seen'[r]
    <3>1. \A r \in Rule : learning[r] \in Nat
      OBVIOUS
    <3> QED BY ONLY <1>1, <2>2, <2>4, <3>1
  <2> QED BY <2>4, <2>5, <2>6 DEF LearnInv
<1>5. ASSUME Quiet
      PROVE  /\ \A r \in Rule : Seen[r] \in Nat /\ Seen'[r] = Seen[r]
             /\ \A k \in Kinds, q \in Proposal : At(k, q, "learn")' =>
                  At(k, q, "learn") /\ rule'[q] = rule[q]
  BY <1>5, SeenType DEF Quiet, Seen, Phase, Unborn, At
<1>6. CASE Quiet /\ UNCHANGED <<learning, learnt>>
  BY <1>1, <1>2, <1>5, <1>6
<1>7. ASSUME Quiet, NEW k \in Recorders, NEW p \in Proposal, Learn(k, p)
      PROVE  LearnInv'
  <2>1. k \in Kinds
    BY DEF Recorders, Runners, Kinds
  <2>2. /\ learning' = [learning EXCEPT ![rule[p]] = learnt[k][p] + 1]
        /\ learnt' = [learnt EXCEPT ![k][p] = 0]
        /\ pc' = [pc EXCEPT ![k][p] = IF k = "reject" THEN "done" ELSE "read"]
        /\ At(k, p, "learn")
    BY <1>7 DEF Learn, Goto
  <2>3. learnt[k][p] + 1 <= Seen[rule[p]]
    BY <1>2, <2>1, <2>2
  <2>4. \A r \in Rule : learning'[r] <= Seen'[r]
    BY <1>1, <1>5, <1>7, <2>2, <2>3
  <2>5. ASSUME NEW h \in Kinds, NEW q \in Proposal, At(h, q, "learn")'
        PROVE  learnt'[h][q] + 1 <= Seen'[rule'[q]]
    <3>1. ~(h = k /\ q = p)
      BY <2>1, <2>2, <2>5 DEF At
    <3>2. learnt'[h][q] = learnt[h][q]
      BY <2>1, <2>2, <3>1
    <3> QED BY <1>2, <1>5, <1>7, <2>5, <3>2
  <2> QED BY <2>4, <2>5 DEF LearnInv
<1>8. CASE LearnInv'
  BY <1>8 DEF LearnInv
<1> QED
  BY Books, <1>3, <1>4, <1>6, <1>7, <1>8

\* Without failing statements the learning table never gets ahead of the
\* incidents.
THEOREM LearningBehindHolds == Spec => []LearningBehind
<1>1. Init => LearnInv
  <2> SUFFICES ASSUME Init PROVE LearnInv
    OBVIOUS
  <2>1. \A r \in Rule : learning[r] = 0
    BY DEF Init
  <2>2. \A r \in Rule : Seen[r] \in Nat
    BY SeenType, FS_EmptySet DEF Init
  <2>3. \A k \in Kinds, p \in Proposal : ~At(k, p, "learn")
    BY DEF Init, At
  <2> QED BY <2>1, <2>2, <2>3 DEF LearnInv
<1>2. LedgerInv /\ LedgerInv' /\ [Next]_vars /\ LearnInv => LearnInv'
  <2>1. ASSUME LedgerInv, LearnInv, UNCHANGED vars PROVE LearnInv'
    BY <2>1 DEF LearnInv, Seen, At, vars, thread, proposal, db
  <2> QED BY <2>1, LearnStep DEF LedgerInv, GateInv
<1>3. LearnInv => LearningBehind
  BY DEF LearnInv, LearningBehind, Seen
<1> QED
  BY <1>1, <1>2, <1>3, LedgerInvariant, PTL DEF Spec


-----------------------------------------------------------------------------
(* The statistics *)

\* No rule's reasoning passes for the description LoadRuleStats looks for.
Unrestored == \A r, s \in Rule : Reasoning[r] \in RulePrefixed => Reasoning[r] # s

\* An incident is described by the reasoning of some rule.
Described == \A i \in incidents : \E r \in Rule : i.description = Reasoning[r]

LEMMA OutcomesFinite ==
  ASSUME IsFiniteSet(incidents), NEW r
  PROVE  IsFiniteSet(Outcomes(r)) /\ Cardinality(Outcomes(r)) \in Nat
<1> DEFINE S == {<<i.kind, i.proposal>> : i \in incidents}
<1>1. IsFiniteSet(S)
  <2> DEFINE f == [i \in incidents |-> <<i.kind, i.proposal>>]
  <2>1. f \in Surjection(incidents, S)
    BY DEF Surjection
  <2> QED BY <2>1, FS_Surjection
<1>2. Outcomes(r) \subseteq S
  BY DEF Outcomes, Counted
<1> QED
  BY <1>1, <1>2, FS_Subset, FS_CardinalityType

\* A proposal that waits to be queued has no outcome yet.
LEMMA WaitingUncounted ==
  ASSUME LedgerInv, NEW q \in Proposal, pc["propose"][q] \in {"idle", "append", "batch"},
         NEW i \in incidents
  PROVE  i.proposal # q
<1>1. i.kind \in Others /\ Recorded(i.kind, i.proposal)
  BY DEF LedgerInv, Logged, Others, Kinds, Recorders, Runners
<1>2. i.proposal = q => At(i.kind, q, "idle")
  BY <1>1 DEF LedgerInv, Ledger, Waiting
<1> QED
  BY <1>1, <1>2 DEF Recorded, At

\* A quiet step changes no rule's outcomes.
LEMMA QuietOutcomes ==
  ASSUME LedgerInv, Quiet, NEW r
  PROVE  Outcomes(r)' = Outcomes(r)
<1> USE DEF LedgerInv, GateInv
<1>1. ASSUME NEW k, NEW q \in Proposal
      PROVE  /\ Counted(k, q)' <=> Counted(k, q)
             /\ Counted(k, q) => rule'[q] = rule[q]
  <2>1. incidents' = incidents /\ mem \subseteq mem'
    BY DEF Quiet
  <2>2. CASE q \in mem' \ mem
    <3>1. pc["propose"][q] \in {"append", "batch"}
      BY <2>2 DEF Quiet
    <3>2. \A i \in incidents : i.proposal # q
      BY <3>1, WaitingUncounted
    <3> QED BY <2>1, <3>2 DEF Counted
  <2>3. CASE q \notin mem' \ mem
    <3>1. q \in mem => status[q] # "none"
      BY DEF Phase, Unborn
    <3> QED BY <2>1, <2>3, <3>1 DEF Counted, Quiet
  <2> QED BY <2>2, <2>3
<1> QED
  BY <1>1 DEF Outcomes

LEMMA CountStep ==
  ASSUME MaxRestarts = 0 \/ Unrestored, LedgerInv, TypeInv', Next, Described, OutcomesCounted
  PROVE  OutcomesCounted'
<1> SUFFICES ASSUME ~StoreFails, NEW r \in Rule
             PROVE  Total(r)' = Cardinality(Outcomes(r)')
  BY DEF OutcomesCounted, Outcomes
<1> USE DEF LedgerInv, GateInv, TypeInv, TypeOK
<1>1. Total(r) = Cardinality(Outcomes(r))
  BY DEF OutcomesCounted, Outcomes
<1>2. CASE Quiet
  BY <1>1, <1>2, QuietOutcomes DEF Quiet, Total
<1>3. CASE Restart
  <2>1. Unrestored
    BY <1>3, FaultAssumption DEF Restart
  <2>2. ASSUME NEW b PROVE LoadRuleStats(r, b) = 0
    <3>1. \A i \in incidents : ~(i.description \in RulePrefixed /\ i.description = r)
      BY <2>1 DEF Unrestored, Described
    <3>2. {i \in incidents : /\ i.description \in RulePrefixed
                             /\ i.description = r
                             /\ i.succeeded = b} = {}
      BY <3>1
    <3> QED BY <3>2, FS_EmptySet DEF LoadRuleStats
  <2>3. stats'[r] = [succ |-> 0, fail |-> 0]
    <3>1. stats' = [s \in Rule |-> [succ |-> LoadRuleStats(s, TRUE),
                                   fail |-> LoadRuleStats(s, FALSE)]]
      BY <1>3 DEF Restart
    <3> QED BY <2>2, <3>1
  <2>4. Total(r)' = 0
    BY <2>3 DEF Total
  <2>5. Outcomes(r)' = {}
    BY <1>3 DEF Restart, Outcomes, Counted
  <2> QED BY <2>4, <2>5, FS_EmptySet
<1>4. ASSUME NEW k, NEW p, NEW b, Recording(k, p, b)
      PROVE  Total(r)' = Cardinality(Outcomes(r)')
  <2>1. /\ p \in mem
        /\ \A j \in incidents : ~(j.kind = k /\ j.proposal = p)
        /\ \E i : /\ i.kind = k /\ i.proposal = p
                  /\ incidents' = incidents \cup {i}
    BY <1>4, FreshIncident
  <2>2. k \in Recorders /\ p \in Proposal /\ UNCHANGED <<rule, mem>> /\ UpdateStats(rule[p], b)
    BY <1>4 DEF Recording, Record
  <2>3. \A h \in Recorders, q \in Proposal :
          Counted(h, q)' <=> Counted(h, q) \/ (h = k /\ q = p)
    BY <2>1, <2>2 DEF Counted
  <2>4. ~Counted(k, p)
    BY <2>1 DEF Counted
  <2>5. CASE rule[p] = r
    <3>1. Outcomes(r)' = Outcomes(r) \cup {<<k, p>>} /\ <<k, p>> \notin Outcomes(r)
      BY <2>2, <2>3, <2>4, <2>5 DEF Outcomes
    <3>2. Cardinality(Outcomes(r)') = Cardinality(Outcomes(r)) + 1
      <4> DEFINE O == Outcomes(r)
                 N == Outcomes(r)'
      <4>1. IsFiniteSet(O) /\ N = O \cup {<<k, p>>} /\ <<k, p>> \notin O
        BY <3>1, OutcomesFinite
      <4> HIDE DEF O, N
      <4>2. Cardinality(N) = Cardinality(O) + 1
        BY <4>1, FS_AddElement
      <4> QED BY <4>2 DEF O, N
    <3>3. Total(r)' = Total(r) + 1
      <4>1. stats[r] \in [succ : Nat, fail : Nat]
        OBVIOUS
      <4>2. stats'[r] = [stats[r] EXCEPT !.succ = @ + 1] \/ stats'[r] = [stats[r] EXCEPT !.fail = @ + 1]
        BY <2>2, <2>5 DEF UpdateStats
      <4> QED BY ONLY <4>1, <4>2 DEF Total
    <3> QED BY <1>1, <3>2, <3>3
  <2>6. CASE rule[p] # r
    <3>1. Outcomes(r)' = Outcomes(r)
      BY <2>2, <2>3, <2>6 DEF Outcomes
    <3>2. stats'[r] = stats[r]
      BY <2>2, <2>6 DEF UpdateStats
    <3> QED BY <1>1, <3>1, <3>2 DEF Total
  <2> QED BY <2>5, <2>6
<1> QED
  BY Books, <1>2, <1>3, <1>4

\* Within one process every execution and every rejection counts once for its
\* rule, when no statement fails and no reasoning looks like a rule's record.
THEOREM OutcomesCountedHolds ==
  ASSUME MaxRestarts = 0 \/ Unrestored
  PROVE  Spec => []OutcomesCounted
<1>1. Init => Described /\ OutcomesCounted
  <2> SUFFICES ASSUME Init, NEW r \in Rule
               PROVE  Described /\ Total(r) = Cardinality(Outcomes(r))
    BY DEF OutcomesCounted, Outcomes, Described, Init
  <2>1. Outcomes(r) = {}
    BY DEF Init, Outcomes, Counted
  <2>2. Total(r) = 0
    BY DEF Init, Total
  <2> QED BY <2>1, <2>2, FS_EmptySet DEF Init, Described
<1>2. LedgerInv /\ [Next]_vars /\ Described => Described'
  <2> SUFFICES ASSUME LedgerInv, [Next]_vars, Described PROVE Described'
    OBVIOUS
  <2>1. ASSUME NEW k, NEW p, NEW b, Recording(k, p, b) PROVE Described'
    <3>1. rule[p] \in Rule
      BY <2>1 DEF LedgerInv, GateInv, TypeInv, TypeOK, Recording
    <3>2. \A i \in incidents' : i \in incidents \/ i.description = Reasoning[rule[p]]
      BY <2>1 DEF Recording, Record
    <3> QED BY <3>1, <3>2 DEF Described
  <2>2. ASSUME UNCHANGED incidents PROVE Described'
    BY <2>2 DEF Described
  <2> QED
    BY <2>1, <2>2, Books DEF LedgerInv, GateInv, Quiet, Restart, db, vars
<1>3. LedgerInv /\ LedgerInv' /\ [Next]_vars /\ Described /\ OutcomesCounted => OutcomesCounted'
  <2>1. ASSUME UNCHANGED vars, OutcomesCounted PROVE OutcomesCounted'
    BY <2>1 DEF OutcomesCounted, Counted, Total, vars, proposal, db, rules
  <2> QED BY <2>1, CountStep DEF LedgerInv, GateInv
<1> QED
  BY <1>1, <1>2, <1>3, LedgerInvariant, PTL DEF Spec
=============================================================================
