------------------------------ MODULE EventLog ------------------------------
(***************************************************************************)
(* The append-only event log (storage/eventlog.go).                        *)
(*                                                                         *)
(* An EventLog value remembers the checksum of the last row it knows of;   *)
(* Append chains the new row to it.  Nothing guards that field: Append     *)
(* reads it twice and assigns it after the INSERT, so the steps of two     *)
(* goroutines, or of two EventLog values on one database, interleave.  A   *)
(* process may die anywhere and NewEventLog then reads the table again.    *)
(*                                                                         *)
(* SHA-256 is taken to be injective: a checksum is the sequence of         *)
(* payloads hashed into it, and the empty checksum is the empty sequence.  *)
(***************************************************************************)
EXTENDS Integers, Sequences

CONSTANTS
  Thread,    \* goroutines that append
  Log,       \* EventLog values, each in a process of its own
  Payload,   \* marshalled payloads
  MaxRows,   \* bound on the rows before an Append may begin
  MaxOpens   \* bound on the calls of NewEventLog after the first ones

ASSUME PayloadAssumption == Payload # {}
ASSUME BoundsAssumption == MaxRows \in Nat /\ MaxOpens \in Nat

VARIABLES
  table,    \* the event_log table, in the order of seq
  last,     \* EventLog.lastChecksum
  pc,       \* where each goroutine is in Append
  payload,  \* its payloadJSON
  checksum, \* its checksum
  prev,     \* the prev_checksum bound to its INSERT
  uses,     \* the EventLog each goroutine appends to
  serial,   \* whether the callers let one Append run at a time
  blind,    \* history: some NewEventLog could not read the table
  opens     \* calls of NewEventLog

local  == <<payload, checksum, prev>>
caller == <<uses, serial>>
vars   == <<table, last, pc, local, caller, blind, opens>>

Checksum == Seq(Payload)
Row == [payload : Payload, checksum : Checksum, prev_checksum : Checksum]

Hash(before, data) == Append(before, data)

Goto(t, l) == pc' = [pc EXCEPT ![t] = l]

-----------------------------------------------------------------------------
\* What NewEventLog finds: the checksum of the row with the highest seq.
Newest == IF table = <<>> THEN <<>> ELSE table[Len(table)].checksum

Init ==
  /\ table = <<>>
  /\ last = [l \in Log |-> <<>>]
  /\ pc = [t \in Thread |-> "idle"]
  /\ payload = [t \in Thread |-> CHOOSE data \in Payload : TRUE]
  /\ checksum = [t \in Thread |-> <<>>]
  /\ prev = [t \in Thread |-> <<>>]
  /\ uses \in [Thread -> Log]
  /\ serial \in BOOLEAN
  /\ blind = FALSE
  /\ opens = 0

-----------------------------------------------------------------------------
(* Append *)

\* The payload is marshalled and hashed after lastChecksum.
Begin(t, data) ==
  /\ pc[t] = "idle"
  /\ Len(table) < MaxRows
  /\ serial => \A u \in Thread : pc[u] = "idle"
  /\ payload' = [payload EXCEPT ![t] = data]
  /\ checksum' = [checksum EXCEPT ![t] = Hash(last[uses[t]], data)]
  /\ Goto(t, "args")
  /\ UNCHANGED <<table, last, prev, caller, blind, opens>>

\* The arguments of the INSERT: lastChecksum is read a second time.
ReadArgs(t) ==
  /\ pc[t] = "args"
  /\ prev' = [prev EXCEPT ![t] = last[uses[t]]]
  /\ Goto(t, "insert")
  /\ UNCHANGED <<table, last, payload, checksum, caller, blind, opens>>

\* Mutant: the new checksum is bound to both columns.
InsertAfterItself(t) ==
  /\ pc[t] = "insert"
  /\ table' = Append(table, [payload |-> payload[t], checksum |-> checksum[t],
                             prev_checksum |-> checksum[t]])
  /\ Goto(t, "assign")
  /\ UNCHANGED <<last, local, caller, blind, opens>>

Insert(t) ==
  /\ pc[t] = "insert"
  /\ table' = Append(table, [payload |-> payload[t], checksum |-> checksum[t],
                             prev_checksum |-> prev[t]])
  /\ Goto(t, "assign")
  /\ UNCHANGED <<last, local, caller, blind, opens>>

\* Append returns the error and leaves lastChecksum alone.
InsertFails(t) ==
  /\ pc[t] = "insert"
  /\ Goto(t, "idle")
  /\ UNCHANGED <<table, last, local, caller, blind, opens>>

Assign(t) ==
  /\ pc[t] = "assign"
  /\ last' = [last EXCEPT ![uses[t]] = checksum[t]]
  /\ Goto(t, "idle")
  /\ UNCHANGED <<table, local, caller, blind, opens>>

-----------------------------------------------------------------------------
\* Mutant: a new EventLog starts a new chain.
ReopenFromScratch(l) ==
  /\ opens < MaxOpens
  /\ opens' = opens + 1
  /\ pc' = [t \in Thread |-> IF uses[t] = l THEN "idle" ELSE pc[t]]
  /\ last' = [last EXCEPT ![l] = <<>>]
  /\ UNCHANGED <<table, local, caller, blind>>

\* The process of an EventLog dies with its goroutines, and NewEventLog makes
\* another.  It does not look at the error of its query: when the query
\* fails, the new EventLog starts from the empty checksum.
Reopen(l) ==
  /\ opens < MaxOpens
  /\ opens' = opens + 1
  /\ pc' = [t \in Thread |-> IF uses[t] = l THEN "idle" ELSE pc[t]]
  /\ \/ /\ last' = [last EXCEPT ![l] = Newest]
        /\ UNCHANGED blind
     \/ /\ last' = [last EXCEPT ![l] = <<>>]
        /\ blind' = TRUE
  /\ UNCHANGED <<table, local, caller>>

Next ==
  \/ \E t \in Thread :
       \/ \E data \in Payload : Begin(t, data)
       \/ ReadArgs(t)
       \/ Insert(t)
       \/ InsertFails(t)
       \/ Assign(t)
  \/ \E l \in Log : Reopen(l)

Spec == Init /\ [][Next]_vars

-----------------------------------------------------------------------------
(* VerifyIntegrity *)

\* The rows whose prev_checksum is not the checksum of the row before.
Unlinked == {i \in DOMAIN table :
  table[i].prev_checksum # IF i = 1 THEN <<>> ELSE table[i - 1].checksum}

\* The rows whose checksum is not the hash of what they hold.
Mismatched == {i \in DOMAIN table :
  table[i].checksum # Hash(table[i].prev_checksum, table[i].payload)}

Violations == Unlinked \cup Mismatched

-----------------------------------------------------------------------------
(* Properties *)

\* Every variable has its type.
TypeOK ==
  /\ table \in Seq(Row)
  /\ last \in [Log -> Checksum]
  /\ pc \in [Thread -> {"idle", "args", "insert", "assign"}]
  /\ payload \in [Thread -> Payload]
  /\ checksum \in [Thread -> Checksum]
  /\ prev \in [Thread -> Checksum]
  /\ uses \in [Thread -> Log]
  /\ serial \in BOOLEAN
  /\ blind \in BOOLEAN
  /\ opens \in Nat

OneWriter == serial /\ \A t, u \in Thread : uses[t] = uses[u]

\* VerifyIntegrity finds nothing in a log that one EventLog wrote, one Append
\* at a time, through failed INSERTs and crashes at any point of Append.
ChainIntact == OneWriter /\ ~blind => Violations = {}

\* Without that discipline the log may fork, but every row still continues a
\* row that is before it in the log: nothing in it comes from nowhere.
EarlierChecksums(i) == {<<>>} \cup {table[j].checksum : j \in 1 .. i - 1}
RowsRooted == \A i \in DOMAIN table :
  /\ table[i].prev_checksum \in EarlierChecksums(i)
  /\ \E before \in EarlierChecksums(i) :
       table[i].checksum = Hash(before, table[i].payload)

\* "Every action is logged with a SHA-256 checksum chained to the previous
\* entry" (PRODUCT.md), whoever appends.
ChainedToPrevious == Unlinked = {}
=============================================================================
