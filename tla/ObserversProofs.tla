--------------------------- MODULE ObserversProofs ---------------------------
(***************************************************************************)
(* Theorems about the parts of the program that watch and record: the      *)
(* event log, and the two components of Observers.  Each is about its own  *)
(* Spec, whatever the others do.                                           *)
(***************************************************************************)
EXTENDS EventLog, Observers, FiniteSetTheorems, WellFoundedInduction, TLAPS

-----------------------------------------------------------------------------
(* Type correctness *)

\* What NewEventLog reads is a checksum.
LEMMA NewestType ==
  ASSUME TypeOK
  PROVE  Newest \in Checksum
<1>1. CASE table = <<>>
  BY <1>1 DEF Newest, Checksum
<1>2. CASE table # <<>>
  <2>1. table[Len(table)] \in Row
    BY <1>2 DEF TypeOK
  <2> QED
    BY <1>2, <2>1 DEF Newest, Row
<1> QED
  BY <1>1, <1>2

LEMMA TypeStep ==
  ASSUME TypeOK, [Next]_vars
  PROVE  TypeOK'
<1> USE DEF TypeOK
<1>1. ASSUME NEW t \in Thread, NEW data \in Payload, Begin(t, data)
      PROVE  TypeOK'
  <2>1. Hash(last[uses[t]], data) \in Checksum
    BY DEF Hash, Checksum
  <2> QED
    BY <1>1, <2>1 DEF Begin, Goto, caller
<1>2. ASSUME NEW t \in Thread, ReadArgs(t)
      PROVE  TypeOK'
  BY <1>2 DEF ReadArgs, Goto, caller
<1>3. ASSUME NEW t \in Thread, Insert(t)
      PROVE  TypeOK'
  <2>1. [payload |-> payload[t], checksum |-> checksum[t],
         prev_checksum |-> prev[t]] \in Row
    BY DEF Row
  <2>2. table' \in Seq(Row)
    BY <1>3, <2>1 DEF Insert
  <2> QED
    BY <1>3, <2>2 DEF Insert, Goto, local, caller
<1>4. ASSUME NEW t \in Thread, InsertFails(t)
      PROVE  TypeOK'
  BY <1>4 DEF InsertFails, Goto, local, caller
<1>5. ASSUME NEW t \in Thread, Assign(t)
      PROVE  TypeOK'
  BY <1>5 DEF Assign, Goto, local, caller
<1>6. ASSUME NEW l \in Log, Reopen(l)
      PROVE  TypeOK'
  <2>1. Newest \in Checksum /\ <<>> \in Checksum
    BY NewestType DEF Checksum
  <2>2. last' \in [Log -> Checksum] /\ blind' \in BOOLEAN
    BY <1>6, <2>1 DEF Reopen
  <2>3. pc' \in [Thread -> {"idle", "args", "insert", "assign"}]
    BY <1>6 DEF Reopen
  <2> QED
    BY <1>6, <2>2, <2>3 DEF Reopen, local, caller
<1>7. CASE UNCHANGED vars
  BY <1>7 DEF vars, local, caller
<1> HIDE DEF TypeOK
<1> QED
  BY <1>1, <1>2, <1>3, <1>4, <1>5, <1>6, <1>7 DEF Next

\* Every variable has its type in every reachable state.
THEOREM TypeCorrect == Spec => []TypeOK
<1>1. Init => TypeOK
  <2>1. (CHOOSE data \in Payload : TRUE) \in Payload
    BY PayloadAssumption
  <2>2. <<>> \in Checksum /\ <<>> \in Seq(Row)
    BY DEF Checksum
  <2>3. Init => payload \in [Thread -> Payload]
    BY <2>1, Zenon DEF Init
  <2>4. Init => /\ table \in Seq(Row) /\ last \in [Log -> Checksum]
                /\ checksum \in [Thread -> Checksum]
                /\ prev \in [Thread -> Checksum]
    BY <2>2 DEF Init
  <2>5. Init => /\ pc \in [Thread -> {"idle", "args", "insert", "assign"}]
                /\ opens \in Nat
    BY DEF Init
  <2>6. Init => uses \in [Thread -> Log] /\ serial \in BOOLEAN /\ blind \in BOOLEAN
    BY Zenon DEF Init
  <2> QED
    BY <2>3, <2>4, <2>5, <2>6 DEF TypeOK
<1> QED
  BY <1>1, TypeStep, PTL DEF Spec

-----------------------------------------------------------------------------
(* One writer: the chain is intact.  Between the INSERT and the assignment  *)
(* lastChecksum is behind the table, so the invariant follows the Append    *)
(* that is running.                                                         *)

Chained(i) ==
  /\ table[i].prev_checksum = IF i = 1 THEN <<>> ELSE table[i - 1].checksum
  /\ table[i].checksum = Hash(table[i].prev_checksum, table[i].payload)

\* lastChecksum is the newest checksum unless its assignment is due, and
\* what a running Append has read from it is the newest too.
Abreast(t) ==
  /\ (\A u \in Thread : pc[u] # "assign") => last[uses[t]] = Newest
  /\ pc[t] \in {"args", "insert"} => checksum[t] = Hash(Newest, payload[t])
  /\ pc[t] = "insert" => prev[t] = Newest
  /\ pc[t] = "assign" => checksum[t] = Newest

Alone == \A t, u \in Thread : pc[t] # "idle" /\ pc[u] # "idle" => t = u

Abiding == /\ \A i \in DOMAIN table : Chained(i)
           /\ Alone
           /\ \A t \in Thread : Abreast(t)

ChainInv == OneWriter /\ ~blind => Abiding

LEMMA ChainStep ==
  ASSUME TypeOK, ChainInv, Next
  PROVE  ChainInv'
<1> SUFFICES ASSUME OneWriter', ~blind' PROVE Abiding'
  BY DEF ChainInv
<1> USE DEF TypeOK, Abreast, Alone
<1>1. ASSUME NEW t \in Thread, NEW data \in Payload, Begin(t, data)
      PROVE  Abiding'
  <2>1. Abiding /\ serial
    BY <1>1 DEF Begin, caller, ChainInv, OneWriter
  <2> QED
    BY <1>1, <2>1 DEF Begin, Goto, caller, Abiding, Chained, Newest
<1>2. ASSUME NEW t \in Thread, ReadArgs(t)
      PROVE  Abiding'
  <2>1. Abiding
    BY <1>2 DEF ReadArgs, caller, ChainInv, OneWriter
  <2> QED
    BY <1>2, <2>1 DEF ReadArgs, Goto, caller, Abiding, Chained, Newest
<1>3. ASSUME NEW t \in Thread, Insert(t)
      PROVE  Abiding'
  <2>1. Abiding
    BY <1>3 DEF Insert, caller, ChainInv, OneWriter
  <2>2. PICK n \in Nat : n = Len(table)
    OBVIOUS
  <2>3. /\ DOMAIN table = 1 .. n /\ DOMAIN table' = 1 .. n + 1
        /\ \A i \in 1 .. n : table'[i] = table[i]
        /\ table'[n + 1] = [payload |-> payload[t], checksum |-> checksum[t],
                            prev_checksum |-> prev[t]]
        /\ Len(table') = n + 1
    BY <1>3, <2>2 DEF Insert
  <2>4. Newest = IF n = 0 THEN <<>> ELSE table[n].checksum
    BY <2>2 DEF Newest
  <2>5. /\ prev[t] = Newest
        /\ checksum[t] = Hash(prev[t], payload[t])
    BY <1>3, <2>1 DEF Insert, Abiding
  <2>6. ASSUME NEW i \in 1 .. n
        PROVE  Chained(i)'
    <3>1. Chained(i)
      BY <2>1, <2>3 DEF Abiding
    <3> QED
      BY <2>3, <3>1 DEF Chained
  <2>7. Chained(n + 1)'
    <3>1. table'[n + 1].prev_checksum = IF n = 0 THEN <<>> ELSE table'[n].checksum
      BY <2>3, <2>4, <2>5
    <3>2. table'[n + 1].checksum = Hash(table'[n + 1].prev_checksum,
                                        table'[n + 1].payload)
      BY <2>3, <2>5
    <3> QED
      BY <3>1, <3>2 DEF Chained
  <2>8. \A i \in DOMAIN table' : Chained(i)'
    BY <2>3, <2>6, <2>7
  <2>9. Alone'
    BY <1>3, <2>1 DEF Insert, Goto, Abiding
  <2>10. ASSUME NEW u \in Thread
         PROVE  Abreast(u)'
    <3>1. Newest' = checksum[t]
      BY <2>3 DEF Newest
    <3> QED
      BY <1>3, <2>1, <3>1 DEF Insert, Goto, caller, local, Abiding
  <2> QED
    BY <2>8, <2>9, <2>10 DEF Abiding
<1>4. ASSUME NEW t \in Thread, InsertFails(t)
      PROVE  Abiding'
  <2>1. Abiding
    BY <1>4 DEF InsertFails, caller, ChainInv, OneWriter
  <2> QED
    BY <1>4, <2>1 DEF InsertFails, Goto, caller, local, Abiding, Chained, Newest
<1>5. ASSUME NEW t \in Thread, Assign(t)
      PROVE  Abiding'
  <2>1. Abiding /\ \A u \in Thread : uses[u] = uses[t]
    BY <1>5 DEF Assign, caller, ChainInv, OneWriter
  <2> QED
    BY <1>5, <2>1 DEF Assign, Goto, caller, local, Abiding, Chained, Newest
<1>6. ASSUME NEW l \in Log, Reopen(l)
      PROVE  Abiding'
  <2>1. /\ Abiding
        /\ \A t, u \in Thread : uses[t] = uses[u]
        /\ last' = [last EXCEPT ![l] = Newest]
    BY <1>6 DEF Reopen, caller, ChainInv, OneWriter
  <2> QED
    BY <1>6, <2>1 DEF Reopen, caller, local, Abiding, Chained, Newest
<1> QED
  BY <1>1, <1>2, <1>3, <1>4, <1>5, <1>6 DEF Next

\* A log that one EventLog wrote, one Append at a time, always verifies.
THEOREM ChainIntactHolds == Spec => []ChainIntact
<1>1. Init => ChainInv
  BY DEF Init, ChainInv, Abiding, Alone, Abreast, Newest, OneWriter
<1>2. TypeOK /\ ChainInv /\ [Next]_vars => ChainInv'
  <2>1. ASSUME ChainInv, UNCHANGED vars
        PROVE  ChainInv'
    BY <2>1 DEF ChainInv, OneWriter, Abiding, Chained, Alone, Abreast, Newest,
       vars, local, caller
  <2> QED
    BY <2>1, ChainStep
<1>3. ChainInv => ChainIntact
  BY DEF ChainInv, ChainIntact, Abiding, Chained, Violations, Unlinked, Mismatched
<1> QED
  BY <1>1, <1>2, <1>3, TypeCorrect, PTL DEF Spec

-----------------------------------------------------------------------------
(* Any writers: the log is a tree of rows.                                 *)

Known == {<<>>} \cup {table[j].checksum : j \in DOMAIN table}

\* What an Append holds comes from rows that are already there.
Grounded(t) ==
  /\ pc[t] # "idle" => \E before \in Known : checksum[t] = Hash(before, payload[t])
  /\ pc[t] = "insert" => prev[t] \in Known
  /\ pc[t] = "assign" => checksum[t] \in Known

RootInv == /\ RowsRooted
           /\ \A l \in Log : last[l] \in Known
           /\ \A t \in Thread : Grounded(t)

LEMMA RootStep ==
  ASSUME TypeOK, RootInv, [Next]_vars
  PROVE  RootInv'
<1> USE DEF TypeOK, RootInv, Grounded
<1>1. UNCHANGED table => (RowsRooted <=> RowsRooted') /\ Known' = Known
  BY DEF RowsRooted, EarlierChecksums, Known
<1>2. ASSUME NEW t \in Thread, NEW data \in Payload, Begin(t, data)
      PROVE  RootInv'
  BY <1>1, <1>2 DEF Begin, Goto, caller
<1>3. ASSUME NEW t \in Thread, ReadArgs(t)
      PROVE  RootInv'
  BY <1>1, <1>3 DEF ReadArgs, Goto, caller
<1>4. ASSUME NEW t \in Thread, Insert(t)
      PROVE  RootInv'
  <2>1. PICK n \in Nat : n = Len(table)
    OBVIOUS
  <2>2. /\ DOMAIN table = 1 .. n /\ DOMAIN table' = 1 .. n + 1
        /\ \A i \in 1 .. n : table'[i] = table[i]
        /\ table'[n + 1] = [payload |-> payload[t], checksum |-> checksum[t],
                            prev_checksum |-> prev[t]]
    BY <1>4, <2>1 DEF Insert
  <2>3. Known \subseteq Known' /\ checksum[t] \in Known'
    <3>1. \A j \in DOMAIN table :
            j \in DOMAIN table' /\ table'[j].checksum = table[j].checksum
      BY <2>2
    <3>2. n + 1 \in DOMAIN table' /\ table'[n + 1].checksum = checksum[t]
      BY <2>2
    <3>3. \A j \in DOMAIN table' : table'[j].checksum \in Known'
      BY Zenon DEF Known
    <3>4. \A j \in DOMAIN table : table[j].checksum \in Known'
      BY <3>1, <3>3, Zenon
    <3> QED
      BY <3>2, <3>3, <3>4, Zenon DEF Known
  <2>4. ASSUME NEW i \in 1 .. n + 1
        PROVE  EarlierChecksums(i)' = EarlierChecksums(i)
    BY <2>2 DEF EarlierChecksums
  <2>5. Known = EarlierChecksums(n + 1)
    BY <2>2 DEF Known, EarlierChecksums
  <2>6. ASSUME NEW i \in 1 .. n
        PROVE  /\ table'[i].prev_checksum \in EarlierChecksums(i)
               /\ \E before \in EarlierChecksums(i) :
                    table'[i].checksum = Hash(before, table'[i].payload)
    BY <2>2 DEF RowsRooted
  <2>7. /\ table'[n + 1].prev_checksum \in EarlierChecksums(n + 1)
        /\ \E before \in EarlierChecksums(n + 1) :
             table'[n + 1].checksum = Hash(before, table'[n + 1].payload)
    BY <1>4, <2>2, <2>5 DEF Insert
  <2>8. RowsRooted'
    BY <2>2, <2>4, <2>6, <2>7 DEF RowsRooted
  <2> QED
    BY <1>4, <2>3, <2>8 DEF Insert, Goto, local, caller
<1>5. ASSUME NEW t \in Thread, InsertFails(t)
      PROVE  RootInv'
  BY <1>1, <1>5 DEF InsertFails, Goto, local, caller
<1>6. ASSUME NEW t \in Thread, Assign(t)
      PROVE  RootInv'
  BY <1>1, <1>6 DEF Assign, Goto, local, caller
<1>7. ASSUME NEW l \in Log, Reopen(l)
      PROVE  RootInv'
  <2>1. Newest \in Known
    BY DEF Newest, Known
  <2> QED
    BY <1>1, <1>7, <2>1 DEF Reopen, local, caller, Known
<1>8. CASE UNCHANGED vars
  BY <1>1, <1>8 DEF vars, local, caller
<1> HIDE DEF RootInv
<1> QED
  BY <1>2, <1>3, <1>4, <1>5, <1>6, <1>7, <1>8 DEF Next

\* Whoever writes the log, every row continues one that is before it.
THEOREM RowsRootedHolds == Spec => []RowsRooted
<1>1. Init => RootInv
  BY DEF Init, RootInv, RowsRooted, Grounded, Known
<1>2. RootInv => RowsRooted
  BY DEF RootInv
<1> QED
  BY <1>1, <1>2, RootStep, TypeCorrect, PTL DEF Spec

-----------------------------------------------------------------------------
(* Coordinators: what a node goes by is the lowest ID of the peers it has. *)

NodesTyped ==
  /\ started \subseteq Node /\ ended \subseteq started
  /\ known \in [Node -> SUBSET Node] /\ found \in [Node -> SUBSET Node]
  /\ peers \in [Node -> SUBSET Node]
  /\ coordinatorID \in [Node -> {0} \cup Node]
  /\ isCoordinator \in [Node -> BOOLEAN]
  /\ changes \in 0..Changes
  /\ dropped \subseteq Node \X Node

\* A node is not its own peer, and hears of no one before it has noted him.
ApartFromItself == \A n \in Node : n \notin known[n] \cup peers[n] /\ found[n] \subseteq known[n]

\* Every node goes by the peers it has now, once it has had any.
Elected == \A n \in Node :
  \/ peers[n] = {} /\ coordinatorID[n] = 0 /\ ~isCoordinator[n]
  \/ /\ coordinatorID[n] = Coordinators!Min(peers[n] \cup {n})
     /\ isCoordinator[n] = (coordinatorID[n] = n)

\* A set of numbers has a least one.
LEMMA LeastOf ==
  ASSUME NEW S \in SUBSET Nat, S # {}
  PROVE  \E x \in S : \A y \in S : x <= y
<1> DEFINE Lower == {p \in Nat \X Nat : p[1] < p[2]}
<1>1. IsWellFoundedOn(Lower, Nat)
  BY NatLessThanWellFounded DEF OpToRel
<1> HIDE DEF Lower
<1>2. PICK x \in S : \A y \in S : <<y, x>> \notin Lower
  BY <1>1, WFMin
<1>3. \A y \in S : x <= y
  <2> TAKE y \in S
  <2>1. ~(y < x)
    BY <1>2 DEF Lower
  <2> QED BY <2>1
<1> QED BY <1>3

NodesInv == NodesTyped /\ ApartFromItself /\ Elected

LEMMA LowestID ==
  ASSUME NEW S \in SUBSET Node, S # {}
  PROVE  Coordinators!Min(S) \in S
<1>1. S \in SUBSET Nat
  BY CoordinatorsAssumption
<1>2. PICK x \in S : \A y \in S : x <= y
  BY <1>1, LeastOf
<1> QED BY <1>2 DEF Coordinators!Min

LEMMA NodesBegin == ASSUME Coordinators!Init PROVE NodesInv
  BY CoordinatorsAssumption DEF Coordinators!Init, NodesInv, NodesTyped, ApartFromItself, Elected

\* An election leaves the node with the lowest ID of those it lists.
LEMMA ElectKeeps ==
  ASSUME NodesInv, NEW n \in Node, NEW list \in SUBSET (Node \ {n}), Coordinators!Elect(n, list)
  PROVE  /\ peers' \in [Node -> SUBSET Node]
         /\ coordinatorID' \in [Node -> {0} \cup Node]
         /\ isCoordinator' \in [Node -> BOOLEAN]
         /\ \A m \in Node : m \notin peers'[m]
         /\ Elected'
<1> DEFINE first == Coordinators!Min(list \cup {n})
<1>1. first \in Node
  BY LowestID
<1>2. /\ peers' = [peers EXCEPT ![n] = list]
      /\ coordinatorID' = [coordinatorID EXCEPT ![n] = first]
      /\ isCoordinator' = [isCoordinator EXCEPT ![n] = (first = n)]
  BY DEF Coordinators!Elect
<1> HIDE DEF first
<1>3. /\ peers' \in [Node -> SUBSET Node]
      /\ coordinatorID' \in [Node -> {0} \cup Node]
  BY <1>1, <1>2 DEF NodesInv, NodesTyped
<1>4. isCoordinator' \in [Node -> BOOLEAN]
  BY <1>2 DEF NodesInv, NodesTyped
<1>5. \A m \in Node : m \notin peers'[m]
  BY <1>2 DEF NodesInv, NodesTyped, ApartFromItself
<1>6. Elected'
  <2> SUFFICES ASSUME NEW m \in Node
               PROVE  \/ peers'[m] = {} /\ coordinatorID'[m] = 0 /\ ~isCoordinator'[m]
                      \/ /\ coordinatorID'[m] = Coordinators!Min(peers'[m] \cup {m})
                         /\ isCoordinator'[m] = (coordinatorID'[m] = m)
    BY DEF Elected
  <2>1. CASE m = n
    <3>1. peers'[n] = list /\ coordinatorID'[n] = first
      BY <1>2 DEF NodesInv, NodesTyped
    <3>2. isCoordinator'[n] = (first = n)
      BY <1>2 DEF NodesInv, NodesTyped
    <3> QED BY <2>1, <3>1, <3>2 DEF first
  <2>2. CASE m # n
    <3>1. peers'[m] = peers[m] /\ coordinatorID'[m] = coordinatorID[m]
      BY <1>2, <2>2 DEF NodesInv, NodesTyped
    <3>2. isCoordinator'[m] = isCoordinator[m]
      BY <1>2, <2>2 DEF NodesInv, NodesTyped
    <3> QED BY <3>1, <3>2 DEF NodesInv, Elected
  <2> QED BY <2>1, <2>2
<1> QED BY <1>3, <1>4, <1>5, <1>6

-----------------------------------------------------------------------------
LEMMA NodesStep == ASSUME NodesInv, [Coordinators!Next]_(Coordinators!vars) PROVE NodesInv'
<1>1. ASSUME NEW n \in Node, Coordinators!Start(n) PROVE NodesInv'
  BY <1>1 DEF Coordinators!Start, Coordinators!choice, NodesInv, NodesTyped, ApartFromItself, Elected
<1>2. ASSUME NEW n \in Node, Coordinators!Stop(n) PROVE NodesInv'
  BY <1>2 DEF Coordinators!Stop, Coordinators!Running, Coordinators!choice, NodesInv, NodesTyped, ApartFromItself, Elected
<1>3. ASSUME NEW m \in Node, NEW n \in Node \ {m}, Coordinators!Receive(n, m) PROVE NodesInv'
  BY <1>3 DEF Coordinators!Receive, Coordinators!Beacons, Coordinators!choice, NodesInv, NodesTyped, ApartFromItself, Elected
<1>4. ASSUME NEW n \in Node, Coordinators!AddPeer(n) PROVE NodesInv'
  <2> DEFINE list == peers[n] \cup found[n]
  <2>1. /\ found' = [found EXCEPT ![n] = {}]
        /\ UNCHANGED <<started, ended, known, changes, dropped>>
    BY <1>4 DEF Coordinators!AddPeer
  <2>2. found' \in [Node -> SUBSET Node] /\ \A m \in Node : found'[m] \subseteq known[m]
    BY <2>1 DEF NodesInv, NodesTyped, ApartFromItself
  <2>3. CASE UNCHANGED Coordinators!choice
    BY <2>1, <2>2, <2>3 DEF Coordinators!choice, NodesInv, NodesTyped, ApartFromItself, Elected
  <2>4. CASE Coordinators!Elect(n, list)
    <3>1. list \in SUBSET (Node \ {n})
      BY DEF NodesInv, NodesTyped, ApartFromItself
    <3> HIDE DEF list
    <3> QED BY <2>1, <2>2, <2>4, <3>1, ElectKeeps DEF NodesInv, NodesTyped, ApartFromItself
  <2> QED BY <1>4, <2>3, <2>4 DEF Coordinators!AddPeer
<1>5. ASSUME NEW n \in Node, NEW m \in Node \ {n}, Coordinators!RemovePeer(n, m) PROVE NodesInv'
  <2> DEFINE list == peers[n] \ {m}
  <2>1. /\ changes > 0 /\ changes' = changes - 1 /\ Coordinators!Elect(n, list)
        /\ dropped' = dropped \cup {<<n, m>>}
        /\ UNCHANGED <<started, ended, known, found>>
    BY <1>5 DEF Coordinators!RemovePeer, Coordinators!discovery
  <2>2. list \in SUBSET (Node \ {n})
    BY DEF NodesInv, NodesTyped, ApartFromItself
  <2>3. changes' \in 0..Changes
    BY <2>1, CoordinatorsAssumption DEF NodesInv, NodesTyped
  <2> HIDE DEF list
  <2> QED BY <2>1, <2>2, <2>3, ElectKeeps DEF NodesInv, NodesTyped, ApartFromItself
<1>6. ASSUME NEW n \in Node, NEW list \in SUBSET (Node \ {n}), Coordinators!UpdatePeers(n, list) PROVE NodesInv'
  <2>1. /\ changes > 0 /\ changes' = changes - 1 /\ Coordinators!Elect(n, list)
        /\ dropped' = dropped \cup {<<n, m>> : m \in peers[n] \ list}
        /\ UNCHANGED <<started, ended, known, found>>
    BY <1>6 DEF Coordinators!UpdatePeers, Coordinators!discovery
  <2>2. changes' \in 0..Changes
    BY <2>1, CoordinatorsAssumption DEF NodesInv, NodesTyped
  <2>3. dropped' \subseteq Node \X Node
    BY <2>1 DEF NodesInv, NodesTyped
  <2> QED BY <2>1, <2>2, <2>3, ElectKeeps DEF NodesInv, NodesTyped, ApartFromItself
<1>7. CASE UNCHANGED Coordinators!vars
  BY <1>7 DEF Coordinators!vars, Coordinators!discovery, Coordinators!choice, NodesInv, NodesTyped, ApartFromItself, Elected
<1> QED BY <1>1, <1>2, <1>3, <1>4, <1>5, <1>6, <1>7 DEF Coordinators!Next, Coordinators!Listen

-----------------------------------------------------------------------------
LEMMA NodesInvariant == Coordinators!Spec => []NodesInv
<1>1. Coordinators!Init => NodesInv
  BY NodesBegin
<1>2. NodesInv /\ [Coordinators!Next]_(Coordinators!vars) => NodesInv'
  BY NodesStep
<1> QED BY <1>1, <1>2, PTL DEF Coordinators!Spec

\* Every variable has its type: no node lists itself, and what listenLoop is
\* about to report has been noted as known (the code: MeshDiscovery, MeshCoordinator).
THEOREM CoordinatorsTyped == Coordinators!Spec => []Coordinators!TypeOK
<1>1. NodesInv => Coordinators!TypeOK
  BY DEF NodesInv, NodesTyped, ApartFromItself, Coordinators!TypeOK
<1> QED BY <1>1, NodesInvariant, PTL

\* Nodes that list one another and nobody else agree on one coordinator, for
\* any number of nodes, beacons and changes of the lists (MeshCoordinator.elect,
\* Coordinators!ShouldConnectTo).
THEOREM CoordinatorsAgree == Coordinators!Spec => []Coordinators!Agreed
<1>1. NodesInv => Coordinators!Agreed
  <2> SUFFICES ASSUME NodesInv, NEW group \in SUBSET Node, Coordinators!Cardinality(group) > 1,
                      \A n \in group : peers[n] = group \ {n}
               PROVE  \E c \in group : \A n \in group :
                        /\ coordinatorID[n] = c
                        /\ isCoordinator[n] <=> n = c
                        /\ Coordinators!ShouldConnectTo(n) = IF n = c THEN group \ {c} ELSE {c}
    BY DEF Coordinators!Agreed
  <2> DEFINE c == Coordinators!Min(group)
  <2>1. group # {} /\ \A n \in group : group # {n}
    <3>1. Coordinators!Cardinality({}) = 0 /\ \A n \in group : Coordinators!Cardinality({n}) = 1
      BY FS_EmptySet, FS_Singleton DEF Coordinators!Cardinality, Cardinality
    <3> QED BY <3>1
  <2>2. c \in group
    BY <2>1, LowestID
  <2>3. \A n \in group : peers[n] # {} /\ peers[n] \cup {n} = group
    BY <2>1
  <2>4. \A n \in group : coordinatorID[n] = c
    BY <2>3 DEF NodesInv, Elected
  <2>5. \A n \in group : isCoordinator[n] = (n = c)
    BY <2>3, <2>4 DEF NodesInv, Elected
  <2> HIDE DEF c
  <2>6. \A n \in group : Coordinators!ShouldConnectTo(n) = IF n = c THEN group \ {c} ELSE {c}
    <3> SUFFICES ASSUME NEW n \in group
                 PROVE  Coordinators!ShouldConnectTo(n) = IF n = c THEN group \ {c} ELSE {c}
      OBVIOUS
    <3>1. CASE n = c
      BY <2>3, <2>5, <3>1 DEF Coordinators!ShouldConnectTo
    <3>2. CASE n # c
      <4>1. ~isCoordinator[n] /\ coordinatorID[n] = c /\ c # 0 /\ c # n
        BY <2>2, <2>4, <2>5, <3>2, CoordinatorsAssumption
      <4> QED BY <3>2, <4>1 DEF Coordinators!ShouldConnectTo
    <3> QED BY <3>1, <3>2
  <2> QED BY <2>2, <2>4, <2>5, <2>6
<1> QED BY <1>1, NodesInvariant, PTL

-----------------------------------------------------------------------------
(* Telemetry: a buffer holds the last of what was accepted; what was taken *)
(* from it is stored, or refused, in that order.  A subscriber is sent     *)
(* some of what was taken, and the event that is held not yet.             *)

\* a was accepted, b is in the buffer, t is stored, f was refused.
Once(a)     == \A j, k \in 1..Len(a) : a[j] = a[k] => j = k
Ends(a, b)  == Len(b) <= Len(a) /\ \A n \in 1..Len(b) : b[n] = a[Len(a) - Len(b) + n]
Of(t, a, l) == \A n \in 1..Len(t) : \E k \in 1..l : t[n] = a[k]
Follows(t, a) ==
  \A m, n \in 1..Len(t), j, k \in 1..Len(a) : m < n /\ t[m] = a[j] /\ t[n] = a[k] => j < k
Split(a, l, t, f) == \A k \in 1..Len(a) :
  a[k] \notin f <=> (k > l \/ \E n \in 1..Len(t) : t[n] = a[k])

Pipe(a, b, t, f) ==
  /\ Once(a) /\ Ends(a, b) /\ Of(t, a, Len(a) - Len(b)) /\ Follows(t, a)
  /\ Split(a, Len(a) - Len(b), t, f)

LEMMA PipeAccepts ==
  ASSUME NEW S, NEW a \in Seq(S), NEW b \in Seq(S), NEW t \in Seq(S), NEW f, Pipe(a, b, t, f),
         NEW i \in S, i \notin f, \A k \in 1..Len(a) : a[k] # i
  PROVE  Pipe(Append(a, i), Append(b, i), t, f)
<1> DEFINE a2 == Append(a, i)
           b2 == Append(b, i)
<1>1. /\ Len(a2) = Len(a) + 1 /\ a2[Len(a) + 1] = i
      /\ \A k \in 1..Len(a) : a2[k] = a[k]
  OBVIOUS
<1>2. /\ Len(b2) = Len(b) + 1 /\ b2[Len(b) + 1] = i
      /\ \A k \in 1..Len(b) : b2[k] = b[k]
  OBVIOUS
<1>3. Len(a) \in Nat /\ Len(b) \in Nat /\ Len(t) \in Nat
  OBVIOUS
<1> HIDE DEF a2, b2
<1>4. Once(a2)
  <2>1. \A k \in 1..Len(a2) : k \in 1..Len(a) \/ k = Len(a) + 1
    BY <1>1, <1>3
  <2>2. Once(a)
    BY DEF Pipe
  <2>3. \A k \in 1..Len(a) : a2[k] = a[k] /\ a2[k] # i
    BY <1>1
  <2> QED BY <1>1, <2>1, <2>2, <2>3 DEF Once
<1>5. PICK l \in 0..Len(a) : l = Len(a) - Len(b) /\ Len(a2) - Len(b2) = l
  BY <1>1, <1>2, <1>3 DEF Pipe, Ends
<1>6. Ends(a2, b2)
  <2>1. ASSUME NEW n \in 1..Len(b2) PROVE b2[n] = a2[l + n]
    <3>1. CASE n = Len(b) + 1
      BY <1>1, <1>2, <1>3, <1>5, <3>1
    <3>2. CASE n \in 1..Len(b)
      <4>1. l + n \in 1..Len(a) /\ b[n] = a[l + n]
        BY <1>3, <1>5, <3>2 DEF Pipe, Ends
      <4> QED BY <1>1, <1>2, <3>2, <4>1
    <3> QED BY <1>2, <1>3, <3>1, <3>2
  <2> QED BY <1>1, <1>2, <1>3, <1>5, <2>1 DEF Ends
<1>7. Of(t, a, l) /\ Follows(t, a) /\ Split(a, l, t, f)
  BY <1>5 DEF Pipe
<1>8. \A n \in 1..Len(t) : \E k \in 1..l : t[n] = a[k] /\ k \in 1..Len(a) /\ t[n] # i
  BY <1>3, <1>5, <1>7 DEF Of
<1>9. Of(t, a2, l)
  BY <1>1, <1>8 DEF Of
<1>10. Follows(t, a2)
  <2>1. \A n \in 1..Len(t), k \in 1..Len(a2) : t[n] = a2[k] => k \in 1..Len(a) /\ a2[k] = a[k]
    BY <1>1, <1>3, <1>8
  <2> QED BY <1>7, <2>1 DEF Follows
<1>11. Split(a2, l, t, f)
  <2>1. ASSUME NEW k \in 1..Len(a) PROVE a2[k] \notin f <=> (k > l \/ \E n \in 1..Len(t) : t[n] = a2[k])
    BY <1>1, <1>7, <2>1 DEF Split
  <2>2. a2[Len(a) + 1] \notin f /\ Len(a) + 1 > l
    BY <1>1, <1>3, <1>5
  <2> QED BY <1>1, <1>3, <2>1, <2>2 DEF Split
<1> QED BY <1>4, <1>5, <1>6, <1>9, <1>10, <1>11 DEF Pipe, a2, b2

\* What the buffer begins with is the next of what was accepted.
LEMMA Beginning ==
  ASSUME NEW S, NEW a \in Seq(S), NEW b \in Seq(S), NEW t \in Seq(S), NEW f, Pipe(a, b, t, f),
         b # <<>>
  PROVE  /\ Len(b) \in Nat \ {0} /\ Len(a) \in Nat /\ Len(a) - Len(b) + 1 \in 1..Len(a)
         /\ Head(b) \in S /\ Head(b) = a[Len(a) - Len(b) + 1]
         /\ Tail(b) \in Seq(S) /\ Len(Tail(b)) = Len(b) - 1
         /\ \A n \in 1..(Len(b) - 1) : Tail(b)[n] = b[n + 1]
<1>1. /\ Len(b) \in Nat \ {0} /\ Len(a) \in Nat /\ Head(b) \in S /\ Head(b) = b[1]
      /\ Tail(b) \in Seq(S) /\ Len(Tail(b)) = Len(b) - 1
      /\ \A n \in 1..(Len(b) - 1) : Tail(b)[n] = b[n + 1]
  OBVIOUS
<1> QED BY <1>1 DEF Pipe, Ends

LEMMA PipeStores ==
  ASSUME NEW S, NEW a \in Seq(S), NEW b \in Seq(S), NEW t \in Seq(S), NEW f, Pipe(a, b, t, f),
         b # <<>>
  PROVE  Pipe(a, Tail(b), Append(t, Head(b)), f)
<1> DEFINE next == Len(a) - Len(b) + 1
           c == Tail(b)
           t2 == Append(t, Head(b))
<1>1. /\ next \in 1..Len(a) /\ Len(c) = Len(b) - 1 /\ Len(b) \in Nat \ {0} /\ Len(a) \in Nat
      /\ \A n \in 1..Len(c) : c[n] = b[n + 1]
  BY Beginning
<1>2. /\ Len(t) \in Nat /\ Len(t2) = Len(t) + 1 /\ t2[Len(t) + 1] = a[next]
      /\ \A n \in 1..Len(t) : t2[n] = t[n]
  BY Beginning
<1> HIDE DEF c, t2
<1>0. \A n \in 1..Len(t2) : n <= Len(t) \/ n = Len(t) + 1
  BY <1>2
<1>3. Ends(a, c)
  BY <1>1 DEF Pipe, Ends
<1>4. Of(t2, a, Len(a) - Len(c))
  <2>1. Len(a) - Len(c) = next
    BY <1>1
  <2>2. ASSUME NEW n \in 1..Len(t) PROVE \E k \in 1..next : t[n] = a[k]
    <3>1. PICK k \in 1..(Len(a) - Len(b)) : t[n] = a[k]
      BY DEF Pipe, Of
    <3> QED BY <1>1, <3>1
  <2>3. \A n \in 1..Len(t2) : \E k \in 1..next : t2[n] = a[k]
    <3> TAKE n \in 1..Len(t2)
    <3>1. CASE n \in 1..Len(t)
      BY <1>2, <2>2, <3>1
    <3>2. CASE n = Len(t) + 1
      BY <1>1, <1>2, <3>2
    <3> QED BY <1>2, <3>1, <3>2
  <2> QED BY <2>1, <2>3 DEF Of
<1>5. Follows(t2, a)
  <2> SUFFICES ASSUME NEW m \in 1..Len(t2), NEW n \in 1..Len(t2), NEW j \in 1..Len(a),
                      NEW k \in 1..Len(a), m < n, t2[m] = a[j], t2[n] = a[k]
               PROVE  j < k
    BY DEF Follows
  <2>1. CASE n <= Len(t)
    BY <1>2, <2>1 DEF Pipe, Follows
  <2>2. CASE n = Len(t) + 1
    <3>1. k = next
      BY <1>1, <1>2, <2>2 DEF Pipe, Once
    <3>2. PICK l \in 1..(Len(a) - Len(b)) : t[m] = a[l]
      <4>1. m \in 1..Len(t)
        BY <1>2, <2>2
      <4> QED BY <4>1 DEF Pipe, Of
    <3>3. j = l
      <4>1. l \in 1..Len(a) /\ a[l] = a[j]
        <5>1. l \in 1..Len(a)
          BY <1>1, <3>2
        <5>2. m \in 1..Len(t)
          BY <1>2, <2>2
        <5> QED BY <1>2, <3>2, <5>1, <5>2
      <4> QED BY <4>1 DEF Pipe, Once
    <3>4. l < next
      BY <1>1
    <3> QED BY <3>1, <3>3, <3>4
  <2>3. n <= Len(t) \/ n = Len(t) + 1
    BY <1>0
  <2> QED BY <2>1, <2>2, <2>3
<1>6. Split(a, Len(a) - Len(c), t2, f)
  <2> SUFFICES ASSUME NEW k \in 1..Len(a)
               PROVE  a[k] \notin f <=> (k > Len(a) - Len(c) \/ \E n \in 1..Len(t2) : t2[n] = a[k])
    BY DEF Split
  <2>1. CASE k = next
    <3>1. a[k] \notin f
      BY <1>1, <2>1 DEF Pipe, Split
    <3> QED BY <1>1, <1>2, <2>1, <3>1
  <2>2. CASE k # next
    <3>1. a[k] # a[next]
      BY <1>1, <2>2 DEF Pipe, Once
    <3>2. (\E n \in 1..Len(t2) : t2[n] = a[k]) <=> (\E n \in 1..Len(t) : t[n] = a[k])
      BY <1>2, <3>1
    <3>3. k > Len(a) - Len(c) <=> k > Len(a) - Len(b)
      BY <1>1, <2>2
    <3> QED BY <3>2, <3>3 DEF Pipe, Split
  <2> QED BY <2>1, <2>2
<1> QED BY <1>3, <1>4, <1>5, <1>6 DEF Pipe, c, t2

LEMMA PipeRefuses ==
  ASSUME NEW S, NEW a \in Seq(S), NEW b \in Seq(S), NEW t \in Seq(S), NEW f, Pipe(a, b, t, f),
         b # <<>>
  PROVE  Pipe(a, Tail(b), t, f \cup {Head(b)})
<1> DEFINE next == Len(a) - Len(b) + 1
           c == Tail(b)
<1>1. /\ next \in 1..Len(a) /\ Len(c) = Len(b) - 1 /\ Len(b) \in Nat \ {0} /\ Len(a) \in Nat
      /\ \A n \in 1..Len(c) : c[n] = b[n + 1]
      /\ Head(b) = a[next] /\ Len(t) \in Nat
  BY Beginning
<1> HIDE DEF c
<1>2. Ends(a, c)
  BY <1>1 DEF Pipe, Ends
<1>3. Of(t, a, Len(a) - Len(c))
  BY <1>1 DEF Pipe, Of
<1>4. Split(a, Len(a) - Len(c), t, f \cup {Head(b)})
  <2> SUFFICES ASSUME NEW k \in 1..Len(a)
               PROVE  a[k] \notin f \cup {Head(b)}
                        <=> (k > Len(a) - Len(c) \/ \E n \in 1..Len(t) : t[n] = a[k])
    BY DEF Split
  <2>1. CASE k = next
    <3>1. ASSUME NEW n \in 1..Len(t) PROVE t[n] # a[k]
      <4>1. PICK l \in 1..(Len(a) - Len(b)) : t[n] = a[l]
        BY DEF Pipe, Of
      <4>2. l # k /\ l \in 1..Len(a)
        BY <1>1, <2>1
      <4> QED BY <4>1, <4>2 DEF Pipe, Once
    <3> QED BY <1>1, <2>1, <3>1
  <2>2. CASE k # next
    <3>1. a[k] # Head(b)
      BY <1>1, <2>2 DEF Pipe, Once
    <3>2. k > Len(a) - Len(c) <=> k > Len(a) - Len(b)
      BY <1>1, <2>2
    <3> QED BY <3>1, <3>2 DEF Pipe, Split
  <2> QED BY <2>1, <2>2
<1> QED BY <1>2, <1>3, <1>4 DEF Pipe, c

\* What is refused elsewhere was not accepted here.
LEMMA PipeElsewhere ==
  ASSUME NEW a, NEW b, NEW t, NEW f, NEW x, Pipe(a, b, t, f), \A k \in 1..Len(a) : a[k] # x
  PROVE  Pipe(a, b, t, f \cup {x})
  BY DEF Pipe, Split

LEMMA PipeKeepsAll ==
  ASSUME NEW S, NEW a \in Seq(S), NEW b \in Seq(S), NEW t \in Seq(S), NEW f, Pipe(a, b, t, f)
  PROVE  /\ Telemetry!InOrder(t \o b, a)
         /\ Telemetry!Range(t \o b) = Telemetry!Range(a) \ f
<1> DEFINE kept == t \o b
<1>1. /\ Len(a) \in Nat /\ Len(b) \in Nat /\ Len(t) \in Nat /\ Len(kept) = Len(t) + Len(b)
      /\ \A n \in 1..Len(t) : kept[n] = t[n]
      /\ \A n \in 1..Len(b) : kept[Len(t) + n] = b[n]
      /\ DOMAIN kept = 1..Len(kept) /\ DOMAIN a = 1..Len(a)
  OBVIOUS
<1> HIDE DEF kept
<1>2. \A n \in 1..Len(b) : kept[Len(t) + n] = a[Len(a) - Len(b) + n]
  BY <1>1 DEF Pipe, Ends
<1>3. \A n \in 1..Len(kept) : n > Len(t) =>
        /\ Len(a) - Len(b) + (n - Len(t)) \in 1..Len(a)
        /\ kept[n] = a[Len(a) - Len(b) + (n - Len(t))]
  <2> TAKE n \in 1..Len(kept)
  <2> HAVE n > Len(t)
  <2>1. n - Len(t) \in 1..Len(b) /\ n = Len(t) + (n - Len(t))
    BY <1>1
  <2>2. Len(a) - Len(b) \in Nat
    BY <1>1 DEF Pipe, Ends
  <2>3. kept[Len(t) + (n - Len(t))] = a[Len(a) - Len(b) + (n - Len(t))]
    BY <1>2, <2>1
  <2>4. Len(t) + (n - Len(t)) = n /\ Len(a) - Len(b) + (n - Len(t)) \in 1..Len(a)
    BY <1>1, <2>1, <2>2
  <2> QED BY <2>3, <2>4
<1>4. \A n \in 1..Len(kept), k \in 1..Len(a) : kept[n] = a[k] =>
        IF n <= Len(t) THEN k <= Len(a) - Len(b) ELSE k = Len(a) - Len(b) + (n - Len(t))
  <2> TAKE n \in 1..Len(kept), k \in 1..Len(a)
  <2> HAVE kept[n] = a[k]
  <2>1. CASE n <= Len(t)
    <3>1. PICK l \in 1..(Len(a) - Len(b)) : t[n] = a[l]
      <4>1. n \in 1..Len(t)
        BY <1>1, <2>1
      <4> QED BY <4>1 DEF Pipe, Of
    <3>2. l = k
      <4>1. l \in 1..Len(a) /\ a[l] = a[k]
        BY <1>1, <2>1, <3>1
      <4> QED BY <4>1 DEF Pipe, Once
    <3> QED BY <1>1, <2>1, <3>1, <3>2
  <2>2. CASE n > Len(t)
    <3> DEFINE l == Len(a) - Len(b) + (n - Len(t))
    <3>1. l \in 1..Len(a) /\ a[l] = a[k]
      BY <1>3, <2>2
    <3>2. l = k
      BY <3>1 DEF Pipe, Once
    <3> QED BY <1>1, <2>2, <3>2
  <2> QED BY <1>1, <2>1, <2>2
<1>5. \A m, n \in 1..Len(kept), j, k \in 1..Len(a) : m < n /\ kept[m] = a[j] /\ kept[n] = a[k] => j < k
  <2> SUFFICES ASSUME NEW m \in 1..Len(kept), NEW n \in 1..Len(kept), NEW j \in 1..Len(a),
                      NEW k \in 1..Len(a), m < n, kept[m] = a[j], kept[n] = a[k]
               PROVE  j < k
    OBVIOUS
  <2>1. CASE n <= Len(t)
    BY <1>1, <2>1 DEF Pipe, Follows
  <2>2. CASE n > Len(t)
    BY <1>1, <1>4, <2>2
  <2> QED BY <1>1, <2>1, <2>2
<1>6. \A n \in 1..Len(kept) : \E k \in 1..Len(a) : kept[n] = a[k] /\ a[k] \notin f
  <2> TAKE n \in 1..Len(kept)
  <2>1. CASE n <= Len(t)
    <3>0. n \in 1..Len(t) /\ Of(t, a, Len(a) - Len(b))
      <4>1. n \in 1..Len(t)
        BY <1>1, <2>1
      <4>2. Of(t, a, Len(a) - Len(b))
        BY DEF Pipe
      <4> QED BY ONLY <4>1, <4>2
    <3>1. PICK k \in 1..(Len(a) - Len(b)) : t[n] = a[k]
      BY ONLY <3>0 DEF Of
    <3>2. k \in 1..Len(a) /\ a[k] \notin f
      BY <1>1, <2>1, <3>1 DEF Pipe, Split
    <3>3. kept[n] = t[n]
      BY <1>1, <2>1
    <3>4. kept[n] = a[k] /\ a[k] \notin f
      BY ONLY <3>1, <3>2, <3>3
    <3> QED BY <3>2, <3>4
  <2>2. CASE n > Len(t)
    <3> DEFINE k == Len(a) - Len(b) + (n - Len(t))
    <3>1. k \in 1..Len(a) /\ kept[n] = a[k] /\ k > Len(a) - Len(b)
      BY <1>1, <1>3, <2>2
    <3> QED BY <3>1 DEF Pipe, Split
  <2> QED BY <1>1, <2>1, <2>2
<1>7. \A k \in 1..Len(a) : a[k] \notin f => \E n \in 1..Len(kept) : kept[n] = a[k]
  <2> TAKE k \in 1..Len(a)
  <2> HAVE a[k] \notin f
  <2>1. CASE k > Len(a) - Len(b)
    <3> DEFINE n == k - (Len(a) - Len(b))
    <3>1. n \in 1..Len(b) /\ Len(a) - Len(b) + n = k /\ Len(t) + n \in 1..Len(kept)
      BY <1>1, <2>1 DEF Pipe, Ends
    <3> QED BY <1>2, <3>1
  <2>2. CASE \E n \in 1..Len(t) : t[n] = a[k]
    BY <1>1, <2>2
  <2> QED BY <2>1, <2>2 DEF Pipe, Split
<1>8. Telemetry!Range(kept) = Telemetry!Range(a) \ f
  <2>1. Telemetry!Range(kept) = {kept[n] : n \in 1..Len(kept)}
    BY <1>1 DEF Telemetry!Range
  <2>2. Telemetry!Range(a) = {a[k] : k \in 1..Len(a)}
    BY <1>1 DEF Telemetry!Range
  <2> QED BY <1>6, <1>7, <2>1, <2>2
<1> QED BY <1>1, <1>5, <1>8 DEF Telemetry!InOrder, Telemetry!Range, kept


-----------------------------------------------------------------------------
TelemetryTyped ==
  /\ clock \in Nat
  /\ item \in [Item -> [stream : Telemetry!Stream \cup {"none"}, entity : Source \cup {None},
                        time : Nat, end : Nat]]
  /\ step \in [Item -> {"none", "stamped", "accepted", "dropped"}]
  /\ buffer \in [Telemetry!Stream -> Seq(Item)]
  /\ stored \in [Telemetry!Stream -> Seq(Item)]
  /\ accepted \in [Telemetry!Stream -> Seq(Item)]
  /\ received \in [Channel -> Seq(Item)]
  /\ holding \in Item \cup {None}

\* An item is of the stream it was stamped for, and only what was accepted is refused.
Stamped ==
  /\ \A i \in Item : step[i] # "none" =>
       item[i].stream \in Telemetry!Stream /\ item[i].entity \in Source
  /\ \A s \in Telemetry!Stream : \A k \in 1..Len(accepted[s]) :
       step[accepted[s][k]] = "accepted" /\ item[accepted[s][k]].stream = s
  /\ failed \subseteq {i \in Item : step[i] = "accepted"}

Piped(s) == Pipe(accepted[s], buffer[s], stored[s], failed)

\* How many events were taken from the buffer, and offered.
TakenEvents   == Len(accepted["events"]) - Len(buffer["events"])
OfferedEvents == IF holding = None THEN TakenEvents ELSE TakenEvents - 1

Held == holding # None =>
  TakenEvents \in 1..Len(accepted["events"]) /\ holding = accepted["events"][TakenEvents]

Sent(c) ==
  /\ Of(received[c], accepted["events"], OfferedEvents)
  /\ Follows(received[c], accepted["events"])

TelemetryInv ==
  /\ TelemetryTyped /\ Stamped /\ Held
  /\ \A s \in Telemetry!Stream : Piped(s)
  /\ \A c \in Channel : Sent(c)

\* A channel has one key, and none once it is closed.
Hub ==
  /\ subs \in [Telemetry!Key -> SUBSET Channel]
  /\ \A k \in Telemetry!Key : subs[k] \cap closed = {}
  /\ \A k, l \in Telemetry!Key : k # l => subs[k] \cap subs[l] = {}

\* What the actions that leave the items alone do to them.
LEMMA TelemetryFrame ==
  ASSUME TelemetryInv, clock' \in Nat,
         UNCHANGED <<item, step, buffer, stored, accepted, received, holding, failed>>
  PROVE  TelemetryInv'
  BY DEF TelemetryInv, TelemetryTyped, Stamped, Held, Piped, Sent, TakenEvents, OfferedEvents

LEMMA StampKeeps ==
  ASSUME TelemetryInv, NEW i \in Item, NEW s \in Telemetry!Stream, NEW e \in Source,
         Telemetry!Stamp(i, s, e)
  PROVE  TelemetryInv'
<1>1. /\ step[i] = "none" /\ step' = [step EXCEPT ![i] = "stamped"]
      /\ item' = [item EXCEPT ![i] = [stream |-> s, entity |-> e, time |-> clock, end |-> clock]]
      /\ UNCHANGED <<clock, buffer, stored, accepted, received, holding, failed>>
  BY DEF Telemetry!Stamp, Telemetry!pipe, Telemetry!hub
<1>2. TelemetryTyped'
  BY <1>1 DEF TelemetryInv, TelemetryTyped
<1>3. ASSUME NEW r \in Telemetry!Stream, NEW k \in 1..Len(accepted[r])
      PROVE  accepted[r][k] \in Item \ {i}
  <2>1. accepted[r] \in Seq(Item)
    BY DEF TelemetryInv, TelemetryTyped
  <2> QED BY <1>1, <2>1 DEF TelemetryInv, Stamped
<1>4. Stamped'
  <2>1. \A j \in Item \ {i} : step'[j] = step[j] /\ item'[j] = item[j]
    BY <1>1 DEF TelemetryInv, TelemetryTyped
  <2>2. step'[i] = "stamped" /\ item'[i].stream = s /\ item'[i].entity = e
    BY <1>1 DEF TelemetryInv, TelemetryTyped
  <2>3. i \notin failed
    BY <1>1 DEF TelemetryInv, Stamped
  <2>4. \A r \in Telemetry!Stream : \A k \in 1..Len(accepted[r]) :
          step'[accepted[r][k]] = "accepted" /\ item'[accepted[r][k]].stream = r
    BY <1>3, <2>1 DEF TelemetryInv, Stamped
  <2> QED BY <1>1, <2>1, <2>2, <2>3, <2>4 DEF TelemetryInv, Stamped
<1>5. Held' /\ \A c \in Channel : Sent(c)'
  BY <1>1 DEF TelemetryInv, Held, Sent, TakenEvents, OfferedEvents
<1>6. \A r \in Telemetry!Stream : Piped(r)'
  BY <1>1 DEF TelemetryInv, Piped
<1> QED BY <1>2, <1>4, <1>5, <1>6 DEF TelemetryInv

LEMMA Within ==
  ASSUME NEW x \in Nat, NEW y \in Nat, y <= x PROVE x - y \in 0..x /\ x - y \in Int
  OBVIOUS

LEMMA EventsTaken ==
  ASSUME TelemetryInv
  PROVE  /\ "events" \in Telemetry!Stream
         /\ Len(accepted["events"]) \in Nat /\ Len(buffer["events"]) \in Nat
         /\ TakenEvents \in 0..Len(accepted["events"])
         /\ OfferedEvents \in Int /\ OfferedEvents <= TakenEvents
<1>1. "events" \in Telemetry!Stream
  BY DEF Telemetry!Stream
<1>2. accepted["events"] \in Seq(Item) /\ buffer["events"] \in Seq(Item)
  BY <1>1 DEF TelemetryInv, TelemetryTyped
<1>3. Len(accepted["events"]) \in Nat /\ Len(buffer["events"]) \in Nat
  BY <1>2
<1>4. Len(buffer["events"]) <= Len(accepted["events"])
  BY <1>1 DEF TelemetryInv, Piped, Pipe, Ends
<1>5. TakenEvents \in 0..Len(accepted["events"]) /\ TakenEvents \in Int
  BY <1>3, <1>4, Within DEF TakenEvents
<1>6. OfferedEvents \in Int /\ OfferedEvents <= TakenEvents
  BY <1>5 DEF OfferedEvents
<1> QED BY <1>1, <1>3, <1>5, <1>6

\* Collect, Log, Publish and Finish.
LEMMA SendKeeps ==
  ASSUME TelemetryInv, NEW i \in Item, NEW s \in Telemetry!Stream, Telemetry!Send(i, s),
         item' \in [Item -> [stream : Telemetry!Stream \cup {"none"}, entity : Source \cup {None},
                             time : Nat, end : Nat]],
         \A j \in Item : item'[j].stream = item[j].stream /\ item'[j].entity = item[j].entity,
         UNCHANGED <<clock, stored, received, holding, failed>>
  PROVE  TelemetryInv'
<1>1. /\ step[i] = "stamped" /\ s = item[i].stream
      /\ \A r \in Telemetry!Stream : accepted[r] \in Seq(Item) /\ buffer[r] \in Seq(Item)
                                     /\ stored[r] \in Seq(Item)
  BY DEF TelemetryInv, TelemetryTyped, Telemetry!Send
<1>2. CASE /\ step' = [step EXCEPT ![i] = "dropped"]
           /\ UNCHANGED <<buffer, accepted>>
  <2>1. TelemetryTyped'
    BY <1>2 DEF TelemetryInv, TelemetryTyped
  <2>2. ASSUME NEW r \in Telemetry!Stream, NEW k \in 1..Len(accepted[r])
        PROVE  accepted[r][k] \in Item \ {i}
    BY <1>1 DEF TelemetryInv, Stamped
  <2>3. Stamped'
    <3>1. \A j \in Item \ {i} : step'[j] = step[j]
      BY <1>2 DEF TelemetryInv, TelemetryTyped
    <3>2. ASSUME NEW r \in Telemetry!Stream, NEW k \in 1..Len(accepted[r])
          PROVE  step'[accepted[r][k]] = "accepted" /\ item'[accepted[r][k]].stream = r
      <4> DEFINE j == accepted[r][k]
      <4>1. j \in Item \ {i}
        BY <2>2
      <4>2. step[j] = "accepted" /\ item[j].stream = r
        BY DEF TelemetryInv, Stamped
      <4> HIDE DEF j
      <4>3. step'[j] = "accepted" /\ item'[j].stream = r
        BY <3>1, <4>1, <4>2
      <4> QED BY <4>3 DEF j
    <3>3. failed \subseteq {j \in Item : step'[j] = "accepted"}
      BY <1>1, <3>1 DEF TelemetryInv, Stamped
    <3>4. \A j \in Item : step'[j] # "none" => step[j] # "none"
      BY <1>1, <3>1
    <3> QED BY <1>2, <3>2, <3>3, <3>4 DEF TelemetryInv, Stamped
  <2>4. Held' /\ \A c \in Channel : Sent(c)'
    BY <1>2 DEF TelemetryInv, Held, Sent, TakenEvents, OfferedEvents
  <2>5. \A r \in Telemetry!Stream : Piped(r)'
    BY <1>2 DEF TelemetryInv, Piped
  <2> QED BY <2>1, <2>3, <2>4, <2>5 DEF TelemetryInv
<1>3. CASE /\ step' = [step EXCEPT ![i] = "accepted"]
           /\ accepted' = [accepted EXCEPT ![s] = Append(@, i)]
           /\ buffer' = [buffer EXCEPT ![s] = Append(@, i)]
  <2>1. TelemetryTyped'
    <3>1. accepted \in [Telemetry!Stream -> Seq(Item)] /\ buffer \in [Telemetry!Stream -> Seq(Item)]
      BY DEF TelemetryInv, TelemetryTyped
    <3>2. Append(accepted[s], i) \in Seq(Item) /\ Append(buffer[s], i) \in Seq(Item)
      BY ONLY <3>1, i \in Item, s \in Telemetry!Stream
    <3>3. accepted' \in [Telemetry!Stream -> Seq(Item)] /\ buffer' \in [Telemetry!Stream -> Seq(Item)]
      BY ONLY <1>3, <3>1, <3>2
    <3>4. step' \in [Item -> {"none", "stamped", "accepted", "dropped"}]
      BY <1>3 DEF TelemetryInv, TelemetryTyped
    <3> QED BY <3>3, <3>4 DEF TelemetryInv, TelemetryTyped
  <2>2. /\ accepted'[s] = Append(accepted[s], i) /\ buffer'[s] = Append(buffer[s], i)
        /\ \A r \in Telemetry!Stream \ {s} : accepted'[r] = accepted[r] /\ buffer'[r] = buffer[r]
        /\ step'[i] = "accepted" /\ \A j \in Item \ {i} : step'[j] = step[j]
    BY <1>3 DEF TelemetryInv, TelemetryTyped
  <2>3. ASSUME NEW r \in Telemetry!Stream, NEW k \in 1..Len(accepted[r])
        PROVE  accepted[r][k] \in Item \ {i}
    BY <1>1 DEF TelemetryInv, Stamped
  <2>0. /\ Len(accepted[s]) \in Nat /\ Len(accepted'[s]) = Len(accepted[s]) + 1
        /\ accepted'[s][Len(accepted[s]) + 1] = i
        /\ \A k \in 1..Len(accepted[s]) : accepted'[s][k] = accepted[s][k]
        /\ Len(buffer[s]) \in Nat /\ Len(buffer'[s]) = Len(buffer[s]) + 1
    <3> DEFINE a == accepted[s]
               b == buffer[s]
    <3>1. a \in Seq(Item) /\ b \in Seq(Item) /\ accepted'[s] = Append(a, i) /\ buffer'[s] = Append(b, i)
      BY <1>1, <2>2
    <3> HIDE DEF a, b
    <3>2. /\ Len(a) \in Nat /\ Len(Append(a, i)) = Len(a) + 1 /\ Append(a, i)[Len(a) + 1] = i
          /\ \A k \in 1..Len(a) : Append(a, i)[k] = a[k]
          /\ Len(b) \in Nat /\ Len(Append(b, i)) = Len(b) + 1
      BY <3>1
    <3> QED BY <3>1, <3>2 DEF a, b
  <2>4. i \notin failed
    BY <1>1 DEF TelemetryInv, Stamped
  <2>5. ASSUME NEW r \in Telemetry!Stream PROVE Piped(r)'
    <3>1. CASE r = s
      <4>1. Pipe(accepted[s], buffer[s], stored[s], failed) /\ \A k \in 1..Len(accepted[s]) : accepted[s][k] # i
        BY <2>3 DEF TelemetryInv, Piped
      <4>2. Pipe(Append(accepted[s], i), Append(buffer[s], i), stored[s], failed)
        BY <1>1, <2>4, <4>1, PipeAccepts
      <4> QED BY <2>2, <3>1, <4>2 DEF Piped
    <3>2. CASE r # s
      BY <2>2, <3>2 DEF TelemetryInv, Piped
    <3> QED BY <3>1, <3>2
  <2>6. Stamped'
    <3>1. ASSUME NEW r \in Telemetry!Stream, NEW k \in 1..Len(accepted'[r])
          PROVE  step'[accepted'[r][k]] = "accepted" /\ item'[accepted'[r][k]].stream = r
      <4>1. CASE k \in 1..Len(accepted[r])
        <5>1. accepted'[r][k] = accepted[r][k]
          BY <2>0, <2>2, <4>1
        <5>2. accepted[r][k] \in Item \ {i}
          BY <2>3, <4>1
        <5>3. step[accepted[r][k]] = "accepted" /\ item[accepted[r][k]].stream = r
          BY <4>1 DEF TelemetryInv, Stamped
        <5> QED BY <2>2, <5>1, <5>2, <5>3
      <4>2. CASE k \notin 1..Len(accepted[r])
        <5>1. r = s
          BY <2>2, <4>2
        <5>2. k = Len(accepted[s]) + 1 /\ accepted'[s][k] = i
          BY <2>0, <4>2, <5>1
        <5> QED BY <1>1, <2>2, <5>1, <5>2
      <4> QED BY <4>1, <4>2
    <3>2. failed \subseteq {j \in Item : step'[j] = "accepted"}
      BY <2>2 DEF TelemetryInv, Stamped
    <3>3. \A j \in Item : step'[j] # "none" => step[j] # "none"
      BY <1>1, <2>2
    <3> QED BY <3>1, <3>2, <3>3 DEF TelemetryInv, Stamped
  <2>7. /\ \A k \in 1..Len(accepted["events"]) : accepted'["events"][k] = accepted["events"][k]
        /\ Len(accepted["events"]) \in Nat /\ Len(buffer["events"]) \in Nat
        /\ Len(accepted'["events"]) \in Nat /\ Len(accepted["events"]) <= Len(accepted'["events"])
        /\ TakenEvents' = TakenEvents /\ OfferedEvents' = OfferedEvents
        /\ TakenEvents \in 0..Len(accepted["events"]) /\ OfferedEvents <= TakenEvents
        /\ OfferedEvents \in Int
    <3>1. "events" \in Telemetry!Stream
      BY DEF Telemetry!Stream
    <3>3. Len(accepted["events"]) \in Nat /\ Len(buffer["events"]) \in Nat
      BY EventsTaken
    <3>4. /\ TakenEvents \in 0..Len(accepted["events"]) /\ OfferedEvents <= TakenEvents
          /\ OfferedEvents \in Int
      BY EventsTaken
    <3>5. CASE s = "events"
      <4>1. Len(accepted'["events"]) = Len(accepted["events"]) + 1
            /\ Len(buffer'["events"]) = Len(buffer["events"]) + 1
        BY <2>0, <3>5
      <4>2. TakenEvents' = TakenEvents
        BY <3>3, <4>1 DEF TakenEvents
      <4>3. OfferedEvents' = OfferedEvents
        BY <4>2 DEF OfferedEvents
      <4> QED BY <2>0, <3>3, <3>4, <3>5, <4>1, <4>2, <4>3
    <3>6. CASE s # "events"
      <4>1. accepted'["events"] = accepted["events"] /\ buffer'["events"] = buffer["events"]
        BY <2>2, <3>1, <3>6
      <4>2. TakenEvents' = TakenEvents /\ OfferedEvents' = OfferedEvents
        BY <4>1 DEF TakenEvents, OfferedEvents
      <4> QED BY <3>3, <3>4, <4>1, <4>2
    <3> QED BY <3>5, <3>6
  <2>8. Held'
    BY <2>7 DEF TelemetryInv, Held
  <2>9. ASSUME NEW c \in Channel PROVE Sent(c)'
    <3>1. Of(received[c], accepted["events"], OfferedEvents) /\ Follows(received[c], accepted["events"])
      BY DEF TelemetryInv, Sent
    <3>2. Of(received[c], accepted'["events"], OfferedEvents)
      BY <2>7, <3>1 DEF Of
    <3>3. "events" \in Telemetry!Stream
      BY DEF Telemetry!Stream
    <3>4. Once(accepted'["events"])
      BY <2>5, <3>3 DEF Piped, Pipe
    <3>5. \A n \in 1..Len(received[c]), k \in 1..Len(accepted'["events"]) :
            received[c][n] = accepted'["events"][k] =>
              k \in 1..Len(accepted["events"]) /\ received[c][n] = accepted["events"][k]
      <4> TAKE n \in 1..Len(received[c]), k \in 1..Len(accepted'["events"])
      <4> HAVE received[c][n] = accepted'["events"][k]
      <4>1. PICK l \in 1..OfferedEvents : received[c][n] = accepted'["events"][l]
        BY <3>2 DEF Of
      <4>2. l \in 1..Len(accepted["events"]) /\ l \in 1..Len(accepted'["events"])
        BY <2>7
      <4>3. l = k
        BY <3>4, <4>1, <4>2 DEF Once
      <4> QED BY <2>7, <4>1, <4>2, <4>3
    <3>6. Follows(received[c], accepted'["events"])
      BY <3>1, <3>5 DEF Follows
    <3> QED BY <2>7, <3>2, <3>6 DEF Sent
  <2> QED BY <2>1, <2>5, <2>6, <2>8, <2>9 DEF TelemetryInv
<1> QED BY <1>2, <1>3 DEF Telemetry!Send


\* A goroutine takes an item, which is stored or refused.
LEMMA TakeKeeps ==
  ASSUME TelemetryInv, NEW s \in Telemetry!Stream, NEW i \in Item, Telemetry!Take(s, i),
         Telemetry!Stores(s, i) \/ Telemetry!Refuses(i),
         UNCHANGED <<clock, item, step, accepted, received>>,
         IF s = "events" THEN holding = None /\ holding' = i ELSE UNCHANGED holding
  PROVE  TelemetryInv'
<1> DEFINE a == accepted[s]
           b == buffer[s]
           t == stored[s]
<1>1. /\ b # <<>> /\ i = Head(b) /\ buffer' = [buffer EXCEPT ![s] = Tail(b)]
      /\ a \in Seq(Item) /\ b \in Seq(Item) /\ t \in Seq(Item) /\ Pipe(a, b, t, failed)
  BY DEF Telemetry!Take, TelemetryInv, TelemetryTyped, Piped
<1>2. /\ Len(b) \in Nat \ {0} /\ Len(a) \in Nat /\ Len(a) - Len(b) + 1 \in 1..Len(a)
      /\ i = a[Len(a) - Len(b) + 1]
      /\ Tail(b) \in Seq(Item) /\ Len(Tail(b)) = Len(b) - 1
  <2> HIDE DEF a, b, t
  <2> QED BY <1>1, Beginning
<1>3. step[i] = "accepted" /\ item[i].stream = s
  BY <1>2 DEF TelemetryInv, Stamped
<1>4. /\ buffer'[s] = Tail(b) /\ accepted' = accepted
      /\ \A r \in Telemetry!Stream \ {s} : buffer'[r] = buffer[r]
  BY <1>1 DEF TelemetryInv, TelemetryTyped
<1>5. \A r \in Telemetry!Stream \ {s} : \A k \in 1..Len(accepted[r]) : accepted[r][k] # i
  BY <1>3 DEF TelemetryInv, Stamped
<1>6. /\ TelemetryTyped'
      /\ failed' \subseteq {j \in Item : step[j] = "accepted"}
      /\ \A r \in Telemetry!Stream : Piped(r)'
  <2>1. CASE Telemetry!Stores(s, i)
    <3>1. stored' = [stored EXCEPT ![s] = Append(t, i)] /\ failed' = failed
      BY <2>1 DEF Telemetry!Stores
    <3>2. stored'[s] = Append(t, i) /\ \A r \in Telemetry!Stream \ {s} : stored'[r] = stored[r]
      BY <3>1 DEF TelemetryInv, TelemetryTyped
    <3>3. Append(t, i) \in Seq(Item)
      BY <1>1
    <3>4. TelemetryTyped'
      BY <1>1, <1>2, <3>1, <3>3 DEF TelemetryInv, TelemetryTyped
    <3>5. Pipe(a, Tail(b), Append(t, i), failed)
      <4> HIDE DEF a, b, t
      <4> QED BY <1>1, PipeStores
    <3>6. Piped(s)'
      BY <1>4, <3>1, <3>2, <3>5 DEF Piped
    <3>7. \A r \in Telemetry!Stream \ {s} : Piped(r)'
      BY <1>4, <3>1, <3>2 DEF TelemetryInv, Piped
    <3>8. failed' \subseteq {j \in Item : step[j] = "accepted"}
      BY <3>1 DEF TelemetryInv, Stamped
    <3> QED BY <3>4, <3>6, <3>7, <3>8
  <2>2. CASE Telemetry!Refuses(i)
    <3>1. stored' = stored /\ failed' = failed \cup {i}
      BY <2>2 DEF Telemetry!Refuses
    <3>2. TelemetryTyped'
      BY <1>1, <1>2, <3>1 DEF TelemetryInv, TelemetryTyped
    <3>3. Pipe(a, Tail(b), t, failed \cup {i})
      <4> HIDE DEF a, b, t
      <4> QED BY <1>1, PipeRefuses
    <3>4. Piped(s)'
      BY <1>4, <3>1, <3>3 DEF Piped
    <3>5. ASSUME NEW r \in Telemetry!Stream \ {s} PROVE Piped(r)'
      <4>1. Pipe(accepted[r], buffer[r], stored[r], failed)
        BY DEF TelemetryInv, Piped
      <4>2. Pipe(accepted[r], buffer[r], stored[r], failed \cup {i})
        BY <1>5, <4>1, PipeElsewhere
      <4> QED BY <1>4, <3>1, <4>2 DEF Piped
    <3>6. failed' \subseteq {j \in Item : step[j] = "accepted"}
      BY <1>3, <3>1 DEF TelemetryInv, Stamped
    <3> QED BY <3>2, <3>4, <3>5, <3>6
  <2> QED BY <2>1, <2>2
<1>7. Stamped'
  BY <1>4, <1>6 DEF TelemetryInv, Stamped
<1>8. Held' /\ \A c \in Channel : Sent(c)'
  <2>1. CASE s = "events"
    <3>1. /\ TakenEvents = Len(a) - Len(b) /\ OfferedEvents = TakenEvents
          /\ holding' = i /\ i # None
      BY <2>1, TelemetryAssumption DEF TakenEvents, OfferedEvents
    <3>2. TakenEvents' = TakenEvents + 1
      <4>1. TakenEvents' = Len(a) - Len(Tail(b))
        BY <1>4, <2>1 DEF TakenEvents
      <4>2. Len(a) - Len(Tail(b)) = Len(a) - Len(b) + 1
        <5> HIDE DEF a, b
        <5> QED BY <1>2
      <4> QED BY <3>1, <4>1, <4>2
    <3>3. OfferedEvents' = TakenEvents
      BY <1>2, <3>1, <3>2 DEF OfferedEvents
    <3>4. Held'
      BY <1>2, <1>4, <2>1, <3>1, <3>2 DEF Held
    <3> QED BY <1>4, <3>1, <3>3, <3>4 DEF TelemetryInv, Sent
  <2>2. CASE s # "events"
    <3>1. buffer'["events"] = buffer["events"] /\ holding' = holding
      BY <1>4, <2>2, EventsTaken
    <3> QED BY <1>4, <3>1 DEF TelemetryInv, Held, Sent, TakenEvents, OfferedEvents
  <2> QED BY <2>1, <2>2
<1> QED BY <1>6, <1>7, <1>8 DEF TelemetryInv

\* The event that is held comes after those that were sent.
LEMMA SentNext ==
  ASSUME NEW S, NEW r \in Seq(S), NEW a \in Seq(S), NEW p \in 1..Len(a),
         Once(a), Of(r, a, p - 1), Follows(r, a)
  PROVE  Of(Append(r, a[p]), a, p) /\ Follows(Append(r, a[p]), a)
<1> DEFINE r2 == Append(r, a[p])
<1>1. /\ Len(r) \in Nat /\ Len(a) \in Nat /\ p \in Nat /\ Len(r2) = Len(r) + 1
      /\ r2[Len(r) + 1] = a[p] /\ \A n \in 1..Len(r) : r2[n] = r[n]
  OBVIOUS
<1> HIDE DEF r2
<1>2. \A n \in 1..Len(r2) : n \in 1..Len(r) \/ n = Len(r) + 1
  BY <1>1
<1>3. \A n \in 1..Len(r) : \E k \in 1..Len(a) : r2[n] = a[k] /\ k < p
  <2> TAKE n \in 1..Len(r)
  <2>1. PICK k \in 1..(p - 1) : r[n] = a[k]
    BY DEF Of
  <2> QED BY <1>1, <2>1
<1>4. Of(r2, a, p)
  <2>1. \A n \in 1..Len(r) : \E k \in 1..p : r2[n] = a[k]
    BY <1>1, <1>3
  <2>2. \E k \in 1..p : r2[Len(r) + 1] = a[k]
    BY <1>1
  <2> QED BY <1>2, <2>1, <2>2 DEF Of
<1>5. Follows(r2, a)
  <2> SUFFICES ASSUME NEW m \in 1..Len(r2), NEW n \in 1..Len(r2), NEW j \in 1..Len(a),
                      NEW k \in 1..Len(a), m < n, r2[m] = a[j], r2[n] = a[k]
               PROVE  j < k
    BY DEF Follows
  <2>1. CASE n \in 1..Len(r)
    <3>1. m \in 1..Len(r)
      BY <1>1, <2>1
    <3> QED BY <1>1, <2>1, <3>1 DEF Follows
  <2>2. CASE n = Len(r) + 1
    <3>1. k = p
      BY <1>1, <2>2 DEF Once
    <3>2. m \in 1..Len(r)
      BY <1>1, <2>2
    <3>3. PICK l \in 1..Len(a) : r2[m] = a[l] /\ l < p
      BY <1>3, <3>2
    <3>4. l = j
      BY <3>3 DEF Once
    <3> QED BY <3>1, <3>3, <3>4
  <2> QED BY <1>2, <2>1, <2>2
<1> QED BY <1>4, <1>5 DEF r2

LEMMA NotifyKeeps ==
  ASSUME TelemetryInv, Telemetry!Notify
  PROVE  TelemetryInv'
<1>1. /\ holding # None /\ holding' = None
      /\ UNCHANGED <<clock, item, step, buffer, stored, failed, accepted>>
  BY DEF Telemetry!Notify, Telemetry!Offer, Telemetry!call
<1>2. ASSUME NEW c \in Channel
      PROVE  received'[c] = received[c] \/ received'[c] = Append(received[c], holding)
  BY DEF Telemetry!Notify, Telemetry!Offer, Telemetry!Give
<1>3. holding \in Item /\ \A c \in Channel : received[c] \in Seq(Item)
  BY <1>1 DEF TelemetryInv, TelemetryTyped
<1>4. received' \in [Channel -> Seq(Item)]
  <2>1. \A c \in Channel : received'[c] \in Seq(Item)
    BY <1>2, <1>3
  <2>2. received' = [c \in Channel |-> received'[c]]
    BY DEF Telemetry!Notify, Telemetry!Offer, Telemetry!Give
  <2> QED BY <2>1, <2>2
<1>5. TelemetryTyped'
  BY <1>1, <1>4 DEF TelemetryInv, TelemetryTyped
<1>6. Stamped' /\ Held' /\ \A s \in Telemetry!Stream : Piped(s)'
  BY <1>1 DEF TelemetryInv, Stamped, Held, Piped
<1>7. /\ TakenEvents \in 1..Len(accepted["events"]) /\ holding = accepted["events"][TakenEvents]
      /\ OfferedEvents = TakenEvents - 1 /\ OfferedEvents' = TakenEvents
  BY <1>1 DEF TelemetryInv, Held, OfferedEvents, TakenEvents
<1>8. ASSUME NEW c \in Channel PROVE Sent(c)'
  <2> DEFINE r == received[c]
             a == accepted["events"]
             p == TakenEvents
  <2>1. /\ a \in Seq(Item) /\ r \in Seq(Item) /\ p \in 1..Len(a) /\ Once(a)
        /\ Of(r, a, p - 1) /\ Follows(r, a)
    BY <1>3, <1>7, EventsTaken DEF TelemetryInv, TelemetryTyped, Piped, Pipe, Sent
  <2> HIDE DEF r, a, p
  <2>2. Of(r, a, p)
    BY <2>1 DEF Of
  <2>3. Of(Append(r, a[p]), a, p) /\ Follows(Append(r, a[p]), a)
    BY <2>1, SentNext
  <2> USE DEF r, a, p
  <2> QED BY <1>1, <1>2, <1>7, <2>1, <2>2, <2>3 DEF Sent
<1> QED BY <1>5, <1>6, <1>8 DEF TelemetryInv

LEMMA TelemetryStep == TelemetryInv /\ [Telemetry!Next]_(Telemetry!vars) => TelemetryInv'
<1> SUFFICES ASSUME TelemetryInv, [Telemetry!Next]_(Telemetry!vars) PROVE TelemetryInv'
  OBVIOUS
<1> USE DEF Telemetry!call, Telemetry!pipe, Telemetry!hub
<1>0. clock \in Nat
  BY DEF TelemetryInv, TelemetryTyped
<1>1. CASE Telemetry!Tick
  BY <1>0, <1>1, TelemetryFrame DEF Telemetry!Tick
<1>2. CASE Telemetry!Cancel
  BY <1>0, <1>2, TelemetryFrame DEF Telemetry!Cancel
<1>3. ASSUME NEW s \in Telemetry!Stream, Telemetry!Stop(s) PROVE TelemetryInv'
  BY <1>0, <1>3, TelemetryFrame DEF Telemetry!Stop
<1>4. CASE Telemetry!Subscriber
  BY <1>0, <1>4, TelemetryFrame
     DEF Telemetry!Subscriber, Telemetry!Receive, Telemetry!Subscribe, Telemetry!Unsubscribe
<1>5. ASSUME NEW i \in Item, NEW s \in Telemetry!Stream, NEW e \in Source, Telemetry!Stamp(i, s, e)
      PROVE  TelemetryInv'
  BY <1>5, StampKeeps
<1>6. ASSUME NEW i \in Item, NEW s \in Telemetry!Stream, Telemetry!Collects(i, s)
      PROVE  TelemetryInv'
  <2>1. Telemetry!Send(i, s) /\ UNCHANGED <<clock, item, stored, received, holding, failed>>
    BY <1>6 DEF Telemetry!Collects
  <2> QED BY <2>1, SendKeeps DEF TelemetryInv, TelemetryTyped
<1>7. ASSUME NEW i \in Item, Telemetry!Finish(i) PROVE TelemetryInv'
  <2>1. /\ Telemetry!Send(i, "traces") /\ "traces" \in Telemetry!Stream
        /\ item' = [item EXCEPT ![i].end = clock]
        /\ UNCHANGED <<clock, stored, received, holding, failed>>
    BY <1>7 DEF Telemetry!Finish, Telemetry!Stream
  <2>2. item' \in [Item -> [stream : Telemetry!Stream \cup {"none"}, entity : Source \cup {None},
                            time : Nat, end : Nat]]
    BY <1>0, <2>1 DEF TelemetryInv, TelemetryTyped
  <2>3. \A j \in Item : item'[j].stream = item[j].stream /\ item'[j].entity = item[j].entity
    BY <2>1 DEF TelemetryInv, TelemetryTyped
  <2> QED BY <2>1, <2>2, <2>3, SendKeeps
<1>8. CASE Telemetry!Caller
  BY <1>5, <1>6, <1>7, <1>8
     DEF Telemetry!Caller, Telemetry!Collect, Telemetry!Log, Telemetry!Publish, Telemetry!Stream
<1>9. ASSUME NEW s \in {"metrics", "logs"}, Telemetry!StoreItem(s) PROVE TelemetryInv'
  BY <1>9, TakeKeeps DEF Telemetry!StoreItem, Telemetry!Stream
<1>10. CASE Telemetry!StoreSpan
  BY <1>10, TakeKeeps DEF Telemetry!StoreSpan, Telemetry!Stream
<1>11. CASE Telemetry!StoreSpanRow
  BY <1>11, TakeKeeps DEF Telemetry!StoreSpanRow, Telemetry!Stream
<1>12. CASE Telemetry!StoreEvent
  BY <1>12, TakeKeeps DEF Telemetry!StoreEvent, Telemetry!Stream
<1>13. CASE UNCHANGED Telemetry!vars
  BY <1>0, <1>13, TelemetryFrame DEF Telemetry!vars
<1> QED
  BY <1>1, <1>2, <1>3, <1>4, <1>8, <1>9, <1>10, <1>11, <1>12, <1>13, NotifyKeeps
     DEF Telemetry!Next, Telemetry!Process, Telemetry!StoreMetric, Telemetry!StoreLog

LEMMA TelemetryBegins == Telemetry!Init => TelemetryInv
<1> SUFFICES ASSUME Telemetry!Init PROVE TelemetryInv
  OBVIOUS
<1>1. /\ <<>> \in Seq(Item) /\ Len(<<>>) = 0
      /\ \A s \in Telemetry!Stream : accepted[s] = <<>> /\ buffer[s] = <<>> /\ stored[s] = <<>>
      /\ \A c \in Channel : received[c] = <<>>
      /\ failed = {} /\ holding = None /\ \A i \in Item : step[i] = "none"
  BY DEF Telemetry!Init
<1>2. TelemetryTyped
  BY <1>1 DEF Telemetry!Init, Telemetry!NoItem, TelemetryTyped
<1>3. Stamped /\ Held
  BY <1>1 DEF Stamped, Held
<1>4. \A s \in Telemetry!Stream : Piped(s)
  <2>1. Pipe(<<>>, <<>>, <<>>, {})
    BY <1>1 DEF Pipe, Once, Ends, Of, Follows, Split
  <2> QED BY <1>1, <2>1 DEF Piped
<1>5. \A c \in Channel : Sent(c)
  BY <1>1 DEF Sent, Of, Follows
<1> QED BY <1>2, <1>3, <1>4, <1>5 DEF TelemetryInv

LEMMA TelemetryInvariant == Telemetry!Spec => []TelemetryInv
  BY TelemetryBegins, TelemetryStep, PTL DEF Telemetry!Spec


\* What a collector has taken is stored, refused or still in the buffer, once
\* and in order, whatever the items, the buffers and the failures of the
\* database (Collect, Log, Publish, RecordSpan and the goroutines processBuffer).
THEOREM TelemetryNothingLost == Telemetry!Spec => []NothingLost
<1>1. TelemetryInv => NothingLost
  <2> SUFFICES ASSUME TelemetryInv, NEW s \in Telemetry!Stream
               PROVE  /\ Telemetry!InOrder(stored[s] \o buffer[s], accepted[s])
                      /\ Telemetry!Range(stored[s] \o buffer[s])
                           = Telemetry!Range(accepted[s]) \ failed
    BY DEF NothingLost, Telemetry!NothingLost
  <2>1. /\ accepted[s] \in Seq(Item) /\ buffer[s] \in Seq(Item) /\ stored[s] \in Seq(Item)
        /\ Pipe(accepted[s], buffer[s], stored[s], failed)
    BY DEF TelemetryInv, TelemetryTyped, Piped
  <2> QED BY <2>1, PipeKeepsAll
<1> QED BY <1>1, TelemetryInvariant, PTL

\* Notify sends to no channel that is closed.
HubInv == TelemetryInv /\ Hub /\ ~crashed

LEMMA HeldEntity == ASSUME TelemetryInv, holding # None PROVE item[holding].entity \in Source
<1>1. /\ accepted["events"] \in Seq(Item) /\ TakenEvents \in 1..Len(accepted["events"])
      /\ holding = accepted["events"][TakenEvents] /\ "events" \in Telemetry!Stream
  BY EventsTaken DEF TelemetryInv, TelemetryTyped, Held
<1>2. holding \in Item /\ step[holding] = "accepted"
  BY <1>1 DEF TelemetryInv, Stamped
<1> QED BY <1>2 DEF TelemetryInv, Stamped

LEMMA HubStep == HubInv /\ [Telemetry!Next]_(Telemetry!vars) => HubInv'
<1> SUFFICES ASSUME HubInv, [Telemetry!Next]_(Telemetry!vars) PROVE Hub' /\ ~crashed'
  BY TelemetryStep DEF HubInv
<1> USE DEF Telemetry!call, Telemetry!pipe, Telemetry!hub
<1>1. CASE UNCHANGED <<subs, closed, crashed>>
  BY <1>1 DEF HubInv, Hub
<1>2. CASE Telemetry!Notify
  <2>1. /\ holding # None /\ UNCHANGED <<subs, closed>>
        /\ crashed' = ({c \in Telemetry!Listeners : Len(pending[c]) < Pending} \cap closed # {})
    BY <1>2 DEF Telemetry!Notify, Telemetry!Offer
  <2>2. item[holding].entity \in Telemetry!Key /\ All \in Telemetry!Key
    BY <2>1, HeldEntity DEF HubInv, Telemetry!Key
  <2>3. Telemetry!Listeners \cap closed = {}
    BY <2>2 DEF HubInv, Hub, Telemetry!Listeners
  <2>4. ~crashed'
    BY <2>1, <2>3
  <2> QED BY <2>1, <2>4 DEF HubInv, Hub
<1>3. ASSUME NEW c \in Channel, NEW k \in Telemetry!Key, Telemetry!Subscribe(k, c)
      PROVE  Hub' /\ ~crashed'
  <2>1. /\ c \notin closed /\ \A l \in Telemetry!Key : c \notin subs[l]
        /\ subs' = [subs EXCEPT ![k] = @ \cup {c}] /\ UNCHANGED <<closed, crashed>>
    BY <1>3 DEF Telemetry!Subscribe
  <2>2. ~crashed'
    BY <2>1 DEF HubInv
  <2>3. /\ subs' \in [Telemetry!Key -> SUBSET Channel] /\ subs'[k] = subs[k] \cup {c}
        /\ \A l \in Telemetry!Key \ {k} : subs'[l] = subs[l]
    BY <2>1 DEF HubInv, Hub
  <2> QED BY <2>1, <2>2, <2>3 DEF HubInv, Hub
<1>4. ASSUME NEW c \in Channel, NEW k \in Telemetry!Key, Telemetry!Unsubscribe(k, c)
      PROVE  Hub' /\ ~crashed'
  <2>1. /\ c \in subs[k] /\ closed' = closed \cup {c}
        /\ subs' = [subs EXCEPT ![k] = @ \ {c}] /\ UNCHANGED crashed
    BY <1>4 DEF Telemetry!Unsubscribe
  <2>2. ~crashed'
    BY <2>1 DEF HubInv
  <2>3. /\ subs' \in [Telemetry!Key -> SUBSET Channel] /\ subs'[k] = subs[k] \ {c}
        /\ \A l \in Telemetry!Key \ {k} : subs'[l] = subs[l]
    BY <2>1 DEF HubInv, Hub
  <2> QED BY <2>1, <2>2, <2>3 DEF HubInv, Hub
<1>5. ASSUME NEW s \in Telemetry!Stream, Telemetry!Process(s) PROVE Hub' /\ ~crashed'
  BY <1>1, <1>2, <1>5
     DEF Telemetry!Process, Telemetry!StoreMetric, Telemetry!StoreLog, Telemetry!StoreItem,
         Telemetry!StoreSpan, Telemetry!StoreSpanRow, Telemetry!StoreEvent
<1>6. CASE Telemetry!Caller
  BY <1>1, <1>6
     DEF Telemetry!Caller, Telemetry!Collect, Telemetry!Log, Telemetry!Publish, Telemetry!Collects,
         Telemetry!Finish, Telemetry!Stamp
<1>7. CASE Telemetry!Subscriber
  BY <1>1, <1>3, <1>4, <1>7 DEF Telemetry!Subscriber, Telemetry!Receive
<1>8. CASE Telemetry!Tick \/ Telemetry!Cancel \/ \E s \in Telemetry!Stream : Telemetry!Stop(s)
  BY <1>1, <1>8 DEF Telemetry!Tick, Telemetry!Cancel, Telemetry!Stop
<1>9. CASE UNCHANGED Telemetry!vars
  BY <1>1, <1>9 DEF Telemetry!vars
<1> QED BY <1>5, <1>6, <1>7, <1>8, <1>9 DEF Telemetry!Next

LEMMA HubInvariant == Telemetry!Spec => []HubInv
<1>1. Telemetry!Init => Hub /\ ~crashed
  BY DEF Telemetry!Init, Hub
<1>2. Telemetry!Init => HubInv
  BY <1>1, TelemetryBegins DEF HubInv
<1> QED BY <1>2, HubStep, PTL DEF Telemetry!Spec

\* A subscriber is sent events once, in the order of Publish, none before it is
\* stored or refused, and nothing is sent to a closed channel: for any number of
\* events, channels and subscribers of whatever entity (notifySubscribers,
\* Subscribe, Unsubscribe).
THEOREM TelemetrySubscribersServed == Telemetry!Spec => []SubscribersServed
<1>1. HubInv => SubscribersServed
  <2> SUFFICES ASSUME HubInv
               PROVE  /\ ~crashed
                      /\ \A c \in Channel :
                           /\ Telemetry!InOrder(received[c], accepted["events"])
                           /\ Telemetry!Range(received[c])
                                \subseteq Telemetry!Range(stored["events"]) \cup failed
    BY DEF SubscribersServed, Telemetry!SubscribersServed
  <2>1. ASSUME NEW c \in Channel
        PROVE  /\ Telemetry!InOrder(received[c], accepted["events"])
               /\ Telemetry!Range(received[c])
                    \subseteq Telemetry!Range(stored["events"]) \cup failed
    <3> DEFINE r == received[c]
               a == accepted["events"]
               t == stored["events"]
    <3>1. /\ r \in Seq(Item) /\ a \in Seq(Item) /\ t \in Seq(Item)
          /\ Of(r, a, OfferedEvents) /\ Follows(r, a) /\ Split(a, TakenEvents, t, failed)
      BY EventsTaken DEF HubInv, TelemetryInv, TelemetryTyped, Sent, Piped, Pipe, TakenEvents
    <3>2. TakenEvents \in 0..Len(a) /\ OfferedEvents \in Int /\ OfferedEvents <= TakenEvents
      BY EventsTaken DEF HubInv
    <3> HIDE DEF r, a, t
    <3>3. DOMAIN r = 1..Len(r) /\ DOMAIN a = 1..Len(a) /\ DOMAIN t = 1..Len(t) /\ Len(a) \in Nat
      BY <3>1
    <3>4. \A n \in DOMAIN r : \E k \in DOMAIN a : r[n] = a[k] /\ k <= TakenEvents
      <4> TAKE n \in DOMAIN r
      <4>1. PICK k \in 1..OfferedEvents : r[n] = a[k]
        BY <3>1, <3>3 DEF Of
      <4> QED BY <3>2, <3>3, <4>1
    <3>5. Telemetry!InOrder(r, a)
      BY <3>1, <3>3, <3>4 DEF Follows, Telemetry!InOrder, Telemetry!Range
    <3>6. \A n \in DOMAIN r : r[n] \in failed \/ \E m \in DOMAIN t : t[m] = r[n]
      <4> TAKE n \in DOMAIN r
      <4>1. PICK k \in DOMAIN a : r[n] = a[k] /\ k <= TakenEvents
        BY <3>4
      <4>2. ~(k > TakenEvents)
        BY <3>2, <3>3, <4>1
      <4> QED BY <3>1, <3>3, <4>1, <4>2 DEF Split
    <3>7. Telemetry!Range(r) \subseteq Telemetry!Range(t) \cup failed
      BY <3>6 DEF Telemetry!Range
    <3> QED BY <3>5, <3>7 DEF r, a, t
  <2>2. ~crashed
    BY DEF HubInv
  <2> QED BY <2>1, <2>2
<1> QED BY <1>1, HubInvariant, PTL

-----------------------------------------------------------------------------
(* Queries: sets that pair off, lists that are chosen from, sorted and     *)
(* counted.                                                                *)

Pairs(g, A, B) ==
  /\ g \in [A -> B]
  /\ \A a, b \in A : g[a] = g[b] => a = b
  /\ \A b \in B : \E a \in A : g[a] = b

LEMMA EquallyMany ==
  ASSUME NEW A, NEW B, NEW g, Pairs(g, A, B), IsFiniteSet(A)
  PROVE  IsFiniteSet(B) /\ Cardinality(A) = Cardinality(B)
<1>1. g \in Bijection(A, B)
  BY DEF Pairs, Bijection, Injection, Surjection, IsInjective
<1> QED BY <1>1, FS_Bijection DEF ExistsBijection

LEMMA EquallyManyOf ==
  ASSUME NEW A, NEW B, NEW g, Pairs(g, A, B), IsFiniteSet(A), NEW U \in SUBSET B
  PROVE  Cardinality({a \in A : g[a] \in U}) = Cardinality(U)
<1> DEFINE C == {a \in A : g[a] \in U}
           h == [a \in C |-> g[a]]
<1>1. IsFiniteSet(C)
  BY FS_Subset
<1>2. Pairs(h, C, U)
  BY DEF Pairs
<1> HIDE DEF C, h
<1>3. Cardinality(C) = Cardinality(U)
  BY <1>1, <1>2, EquallyMany
<1> QED BY <1>3 DEF C

\* A sequence that starts somewhere and goes on by a function.
Steps(F, Y, N) == F \in [Y \X (1..N) -> Y]
Course(g, F, Y, y, N) ==
  g \in [0..N -> Y] /\ g[0] = y /\ \A n \in 1..N : g[n] = F[<<g[n - 1], n>>]

LEMMA Recurrence ==
  ASSUME NEW N \in Nat, NEW Y, NEW y \in Y, NEW F, Steps(F, Y, N)
  PROVE  \E g : Course(g, F, Y, y, N)
<1> DEFINE Goes(g, n) == /\ g \in [0..n -> Y] /\ g[0] = y
                         /\ \A m \in 1..n : g[m] = F[<<g[m - 1], m>>]
           bad == {n \in 0..N : ~\E g : Goes(g, n)}
<1>1. \E g : Goes(g, 0)
  <2>1. Goes([n \in {0} |-> y], 0)
    BY 0..0 = {0}, 1..0 = {}
  <2> HIDE DEF Goes
  <2> QED BY <2>1
<1>2. ASSUME NEW n \in 1..N, NEW g, Goes(g, n - 1) PROVE \E h : Goes(h, n)
  <2> DEFINE h == [m \in 0..n |-> IF m = n THEN F[<<g[n - 1], n>>] ELSE g[m]]
  <2>1. n - 1 \in Nat /\ n \in Nat /\ n # 0
        /\ 0..n = (0..(n - 1)) \cup {n} /\ 1..n = (1..(n - 1)) \cup {n} /\ n - 1 # n
    OBVIOUS
  <2>2. g \in [0..(n - 1) -> Y] /\ g[n - 1] \in Y /\ F[<<g[n - 1], n>>] \in Y
    BY <1>2, <2>1 DEF Steps
  <2>3. h \in [0..n -> Y] /\ h[0] = y
    BY <1>2, <2>1, <2>2
  <2>4. ASSUME NEW m \in 1..n PROVE h[m] = F[<<h[m - 1], m>>]
    <3>1. m - 1 \in 0..(n - 1) /\ m - 1 # n /\ h[m - 1] = g[m - 1] /\ m \in 0..n
      BY <2>1
    <3>2. CASE m = n
      BY <3>1, <3>2
    <3>3. CASE m # n
      <4>1. m \in 1..(n - 1) /\ h[m] = g[m]
        BY <3>1, <3>3
      <4> HIDE DEF h
      <4> QED BY <1>2, <3>1, <4>1
    <3> QED BY <3>2, <3>3
  <2>5. Goes(h, n)
    <3> HIDE DEF h
    <3> QED BY <2>3, <2>4
  <2> HIDE DEF Goes
  <2> QED BY <2>5
<1>3. bad = {}
  <2> SUFFICES ASSUME bad # {} PROVE FALSE
    OBVIOUS
  <2> HIDE DEF Goes
  <2>1. bad \in SUBSET Nat
    OBVIOUS
  <2>2. PICK n \in bad : \A m \in bad : n <= m
    <3> HIDE DEF bad
    <3> QED BY <2>1, LeastOf
  <2>3. n \in 0..N /\ n # 0
    BY <1>1, <2>2
  <2>4. n - 1 \in 0..N /\ n - 1 \notin bad /\ n \in 1..N
    BY <2>2, <2>3
  <2> QED BY <1>2, <2>2, <2>4
<1>4. PICK g : Goes(g, N)
  <2> HIDE DEF Goes
  <2>1. N \in 0..N
    OBVIOUS
  <2> QED BY <1>3, <2>1
<1> QED BY <1>4 DEF Course

LEMMA Bounds ==
  ASSUME NEW M \in Nat, NEW S \in SUBSET (0..M), S # {}
  PROVE  /\ \E x \in S : \A z \in S : x <= z
         /\ \E x \in S : \A z \in S : z <= x
<1>1. \E x \in S : \A z \in S : x <= z
  BY LeastOf
<1> DEFINE B == {b \in Nat : \A z \in S : z <= b}
<1>2. PICK b \in B : \A c \in B : b <= c
  <2>1. M \in B /\ B \in SUBSET Nat
    OBVIOUS
  <2> HIDE DEF B
  <2> QED BY <2>1, LeastOf
<1>3. b \in S
  <2> SUFFICES ASSUME b \notin S PROVE FALSE
    OBVIOUS
  <2>1. PICK z \in S : TRUE
    OBVIOUS
  <2>2. b \in Nat /\ z \in Nat /\ z < b
    BY <1>2
  <2>3. b - 1 \in B
    BY <1>2, <2>2
  <2> QED BY <1>2, <2>2, <2>3
<1> QED BY <1>1, <1>2, <1>3

\* A list of bounded numbers can be sorted.
LEMMA Sorting ==
  ASSUME NEW M \in Nat, NEW N \in Nat, NEW f \in [1..N -> 0..M]
  PROVE  \E p : Pairs(p, 1..N, 1..N) /\ \A m, n \in 1..N : m < n => f[p[m]] <= f[p[n]]
<1> DEFINE Sorts(p, h, n) == /\ Pairs(p, 1..n, 1..n)
                             /\ \A k, m \in 1..n : k < m => h[p[k]] <= h[p[m]]
           bad == {n \in Nat : \E h \in [1..n -> 0..M] : ~\E p : Sorts(p, h, n)}
<1>1. \A h : Sorts(<<>>, h, 0)
  BY 1..0 = {} DEF Pairs
<1>2. ASSUME NEW n \in Nat \ {0}, NEW h \in [1..n -> 0..M],
             \A g \in [1..(n - 1) -> 0..M] : \E q : Sorts(q, g, n - 1)
      PROVE  \E p : Sorts(p, h, n)
  <2>1. n - 1 \in Nat /\ n \in 1..n /\ n \notin 1..(n - 1) /\ 1..n = (1..(n - 1)) \cup {n}
        /\ \A k \in 1..(n - 1) : k \in 1..n /\ k < n
    OBVIOUS
  <2>2. PICK k \in 1..n : \A m \in 1..n : h[m] <= h[k]
    <3> DEFINE S == {h[m] : m \in 1..n}
    <3>1. S \in SUBSET (0..M) /\ S # {}
      BY <2>1
    <3>2. PICK x \in S : \A z \in S : z <= x
      <4> HIDE DEF S
      <4> QED BY <3>1, Bounds
    <3> QED BY <3>2
  <2> DEFINE g == [m \in 1..(n - 1) |-> IF m = k THEN h[n] ELSE h[m]]
  <2>3. g \in [1..(n - 1) -> 0..M]
    BY <2>1
  <2>4. PICK q : Sorts(q, g, n - 1)
    <3> HIDE DEF g, Sorts
    <3> QED BY <1>2, <2>3
  <2> DEFINE p == [m \in 1..n |-> IF m = n THEN k ELSE IF q[m] = k THEN n ELSE q[m]]
  <2>5. \A m \in 1..(n - 1) : q[m] \in 1..(n - 1) /\ q[m] # n
    <3>1. q \in [1..(n - 1) -> 1..(n - 1)]
      BY <2>4 DEF Pairs
    <3> QED BY <2>1, <3>1
  <2>6. Pairs(p, 1..n, 1..n)
    <3>1. p \in [1..n -> 1..n]
      BY <2>1, <2>5
    <3>2. ASSUME NEW a \in 1..n, NEW b \in 1..n, p[a] = p[b] PROVE a = b
      <4>1. \A m \in 1..(n - 1) : p[m] # k \/ (q[m] = k /\ n = k)
        BY <2>1, <2>5
      <4>2. \A m \in 1..(n - 1) : p[m] # k
        BY <2>5, <4>1
      <4>3. CASE a = n \/ b = n
        BY <2>1, <3>2, <4>2, <4>3
      <4>4. CASE a \in 1..(n - 1) /\ b \in 1..(n - 1)
        <5>1. q[a] = q[b]
          BY <2>1, <2>5, <3>2, <4>4
        <5> QED BY <2>4, <4>4, <5>1 DEF Pairs
      <4> QED BY <2>1, <4>3, <4>4
    <3>3. ASSUME NEW b \in 1..n PROVE \E a \in 1..n : p[a] = b
      <4>1. CASE b = k
        BY <2>1, <4>1
      <4>2. CASE b # k /\ b # n
        <5>1. PICK m \in 1..(n - 1) : q[m] = b
          BY <2>1, <2>4, <4>2 DEF Pairs
        <5> QED BY <2>1, <4>2, <5>1
      <4>3. CASE b # k /\ b = n
        <5>1. k \in 1..(n - 1)
          BY <2>1, <4>3
        <5>2. PICK m \in 1..(n - 1) : q[m] = k
          BY <2>4, <5>1 DEF Pairs
        <5> QED BY <2>1, <4>3, <5>2
      <4> QED BY <4>1, <4>2, <4>3
    <3> HIDE DEF p
    <3> QED BY <3>1, <3>2, <3>3 DEF Pairs
  <2>7. \A m \in 1..(n - 1) : h[p[m]] = g[q[m]] /\ p[m] \in 1..n
    BY <2>1, <2>5
  <2>8. ASSUME NEW a \in 1..n, NEW b \in 1..n, a < b PROVE h[p[a]] <= h[p[b]]
    <3>1. a \in 1..(n - 1)
      BY <2>1, <2>8
    <3>2. CASE b = n
      <4>1. p[b] = k
        BY <3>2
      <4>2. p[a] \in 1..n
        BY <2>7, <3>1
      <4> HIDE DEF p
      <4> QED BY <2>2, <4>1, <4>2
    <3>3. CASE b # n
      <4>1. b \in 1..(n - 1)
        BY <2>1, <3>3
      <4>2. g[q[a]] <= g[q[b]]
        BY <2>4, <2>8, <3>1, <4>1
      <4> HIDE DEF p, g
      <4> QED BY <2>7, <3>1, <4>1, <4>2
    <3> QED BY <3>2, <3>3
  <2>9. Sorts(p, h, n)
    <3> HIDE DEF p
    <3> QED BY <2>6, <2>8
  <2> HIDE DEF Sorts
  <2> QED BY <2>9
<1>3. bad = {}
  <2> SUFFICES ASSUME bad # {} PROVE FALSE
    OBVIOUS
  <2> HIDE DEF Sorts
  <2>1. bad \in SUBSET Nat
    OBVIOUS
  <2>2. PICK n \in bad : \A m \in bad : n <= m
    <3> HIDE DEF bad
    <3> QED BY <2>1, LeastOf
  <2>3. n \in Nat \ {0}
    BY <1>1, <2>2
  <2>4. n - 1 \in Nat /\ n - 1 \notin bad
    <3>1. n - 1 \in Nat /\ ~(n <= n - 1)
      BY <2>3
    <3> HIDE DEF bad
    <3> QED BY <2>2, <3>1
  <2> QED BY <1>2, <2>2, <2>3, <2>4
<1> HIDE DEF Sorts
<1>4. \E p : Sorts(p, f, N)
  BY <1>3
<1> QED BY <1>4 DEF Sorts

LEMMA SameNumber == \A S : Telemetry!Cardinality(S) = Cardinality(S)
  BY DEF Telemetry!Cardinality, Cardinality

\* How often x is on a list.
Occurs(list, x) == Cardinality({n \in DOMAIN list : list[n] = x})

\* Two lists, of one of which only some places count, have the same things as often.
CountsAs(rows, list, places) ==
  \A U : Cardinality({n \in DOMAIN rows : rows[n] \in U})
           = Cardinality({n \in places : list[n] \in U})

LEMMA FinitelyMany ==
  ASSUME NEW S, NEW list \in Seq(S)
  PROVE  /\ DOMAIN list = 1..Len(list) /\ Len(list) \in Nat /\ IsFiniteSet(DOMAIN list)
         /\ \A U \in SUBSET DOMAIN list : IsFiniteSet(U) /\ Cardinality(U) \in Nat
<1>1. DOMAIN list = 1..Len(list) /\ Len(list) \in Nat
  OBVIOUS
<1>2. IsFiniteSet(DOMAIN list)
  BY <1>1, FS_Interval
<1> QED BY <1>1, <1>2, FS_Subset, FS_CardinalityType

LEMMA OccursJoined ==
  ASSUME NEW S, NEW a \in Seq(S), NEW b \in Seq(S), NEW x
  PROVE  Occurs(a \o b, x) = Occurs(a, x) + Occurs(b, x)
<1> DEFINE c == a \o b
           A == {n \in DOMAIN a : a[n] = x}
           B == {n \in DOMAIN b : b[n] = x}
           C == {n \in DOMAIN c : c[n] = x}
           g == [n \in B |-> n + Len(a)]
           D == C \ A
<1>1. /\ c \in Seq(S) /\ Len(c) = Len(a) + Len(b) /\ Len(a) \in Nat /\ Len(b) \in Nat
      /\ DOMAIN a = 1..Len(a) /\ DOMAIN b = 1..Len(b) /\ DOMAIN c = 1..Len(c)
      /\ \A n \in 1..Len(a) : c[n] = a[n]
      /\ \A n \in 1..Len(b) : c[n + Len(a)] = b[n]
  OBVIOUS
<1> HIDE DEF c
<1>2. A \subseteq C /\ C = A \cup D /\ A \cap D = {}
  BY <1>1
<1>3. Pairs(g, B, D)
  <2>1. ASSUME NEW n \in B PROVE n + Len(a) \in D
    <3>1. n \in 1..Len(b) /\ c[n + Len(a)] = x
      BY <1>1
    <3>2. n + Len(a) \in 1..Len(c) /\ n + Len(a) \notin 1..Len(a)
      BY <1>1, <3>1
    <3> QED BY <1>1, <3>1, <3>2
  <2>2. ASSUME NEW m \in D PROVE \E n \in B : g[n] = m
    <3>1. m \in 1..Len(c) /\ m \notin 1..Len(a) /\ c[m] = x
      <4>1. m \in DOMAIN c /\ c[m] = x /\ m \notin A
        OBVIOUS
      <4>2. m \in 1..Len(a) => a[m] = x
        BY <1>1, <4>1
      <4> QED BY <1>1, <4>1, <4>2
    <3>2. m - Len(a) \in 1..Len(b) /\ (m - Len(a)) + Len(a) = m
      BY <1>1, <3>1
    <3>3. b[m - Len(a)] = x
      BY <1>1, <3>1, <3>2
    <3>4. m - Len(a) \in B
      BY <1>1, <3>2, <3>3
    <3> QED BY <3>2, <3>4
  <2>3. \A m, n \in B : g[m] = g[n] => m = n
    BY <1>1
  <2>4. g \in [B -> D]
    BY <2>1
  <2> HIDE DEF g, B, D
  <2> QED BY <2>2, <2>3, <2>4 DEF Pairs
<1>4. /\ IsFiniteSet(A) /\ IsFiniteSet(B) /\ IsFiniteSet(D)
      /\ Cardinality(A) \in Nat /\ Cardinality(D) \in Nat
  BY <1>1, FinitelyMany
<1>5. Cardinality(D) = Cardinality(B)
  <2> HIDE DEF g, B, D
  <2> QED BY <1>3, <1>4, EquallyMany
<1>6. Cardinality(C) = Cardinality(A) + Cardinality(D)
  <2> HIDE DEF A, C, D
  <2>1. Cardinality(A \cap D) = 0
    BY <1>2, FS_EmptySet
  <2>2. Cardinality(A \cup D) = Cardinality(A) + Cardinality(D) - Cardinality(A \cap D)
    BY <1>4, FS_Union
  <2>3. Cardinality(C) = Cardinality(A) + Cardinality(D) - 0
    BY <1>2, <2>1, <2>2
  <2> QED BY <1>4, <2>3
<1> QED BY <1>5, <1>6 DEF Occurs, c

LEMMA Rearranges ==
  ASSUME NEW S, NEW list \in Seq(S), NEW r
  PROVE  r \in Telemetry!Rearranged(list) <=>
           \E p : Pairs(p, DOMAIN list, DOMAIN list) /\ r = [n \in DOMAIN list |-> list[p[n]]]
<1>1. \A p : p \in Telemetry!Bijection(DOMAIN list, DOMAIN list)
               <=> Pairs(p, DOMAIN list, DOMAIN list)
  BY DEF Pairs, Telemetry!Bijection, Telemetry!Injection, Telemetry!Surjection,
         Telemetry!IsInjective
<1> QED BY <1>1 DEF Telemetry!Rearranged

\* A rearranged list has the same things on it, as often.
LEMMA RearrangedSame ==
  ASSUME NEW S, NEW list \in Seq(S), NEW r \in Telemetry!Rearranged(list)
  PROVE  /\ r \in Seq(S) /\ DOMAIN r = DOMAIN list
         /\ \A x : (\E n \in DOMAIN r : r[n] = x) <=> (\E n \in DOMAIN list : list[n] = x)
         /\ CountsAs(r, list, DOMAIN list)
         /\ \A x : Occurs(r, x) = Occurs(list, x)
<1>1. PICK p : Pairs(p, DOMAIN list, DOMAIN list) /\ r = [n \in DOMAIN list |-> list[p[n]]]
  BY Rearranges
<1>2. DOMAIN r = DOMAIN list /\ \A n \in DOMAIN list : p[n] \in DOMAIN list /\ r[n] = list[p[n]]
  BY <1>1 DEF Pairs
<1>3. r \in Seq(S)
  <2>1. DOMAIN list = 1..Len(list) /\ Len(list) \in Nat /\ \A n \in DOMAIN list : list[n] \in S
    OBVIOUS
  <2>2. r \in [1..Len(list) -> S]
    BY <1>1, <1>2, <2>1
  <2> QED BY <2>1, <2>2
<1>4. ASSUME NEW U
      PROVE  Cardinality({n \in DOMAIN r : r[n] \in U})
               = Cardinality({n \in DOMAIN list : list[n] \in U})
  <2> DEFINE V == {n \in DOMAIN list : list[n] \in U}
  <2>1. {n \in DOMAIN r : r[n] \in U} = {n \in DOMAIN list : p[n] \in V}
    BY <1>2
  <2>2. V \in SUBSET DOMAIN list /\ IsFiniteSet(DOMAIN list)
    BY FinitelyMany
  <2> HIDE DEF V
  <2>3. Cardinality({n \in DOMAIN list : p[n] \in V}) = Cardinality(V)
    BY <1>1, <2>2, EquallyManyOf
  <2> QED BY <2>1, <2>3 DEF V
<1>5. ASSUME NEW x PROVE Occurs(r, x) = Occurs(list, x)
  <2>1. /\ {n \in DOMAIN r : r[n] \in {x}} = {n \in DOMAIN r : r[n] = x}
        /\ {n \in DOMAIN list : list[n] \in {x}} = {n \in DOMAIN list : list[n] = x}
    OBVIOUS
  <2> QED BY <1>4, <2>1 DEF Occurs
<1>6. ASSUME NEW x
      PROVE  (\E n \in DOMAIN r : r[n] = x) <=> (\E n \in DOMAIN list : list[n] = x)
  BY <1>1, <1>2 DEF Pairs
<1> QED BY <1>2, <1>3, <1>4, <1>5, <1>6 DEF CountsAs

\* Of the rearrangements of a list one has its bounded keys in order.
LEMMA SortedExists ==
  ASSUME NEW M \in Nat, NEW S, NEW list \in Seq(S), NEW key \in [S -> 0..M]
  PROVE  \E r \in Telemetry!Rearranged(list) :
           \A m, n \in DOMAIN r : m < n => key[r[m]] <= key[r[n]]
<1>1. DOMAIN list = 1..Len(list) /\ Len(list) \in Nat /\ \A n \in DOMAIN list : list[n] \in S
  OBVIOUS
<1> DEFINE f == [n \in 1..Len(list) |-> key[list[n]]]
<1>2. f \in [1..Len(list) -> 0..M]
  BY <1>1
<1>3. PICK p : /\ Pairs(p, 1..Len(list), 1..Len(list))
               /\ \A m, n \in 1..Len(list) : m < n => f[p[m]] <= f[p[n]]
  <2> HIDE DEF f
  <2> QED BY <1>1, <1>2, Sorting
<1> DEFINE r == [n \in DOMAIN list |-> list[p[n]]]
<1>4. r \in Telemetry!Rearranged(list)
  <2>1. Pairs(p, DOMAIN list, DOMAIN list)
    BY <1>1, <1>3
  <2> QED BY <2>1, Rearranges
<1>5. \A n \in DOMAIN r : r[n] \in S /\ key[r[n]] = f[p[n]] /\ n \in 1..Len(list)
  BY <1>1, <1>3 DEF Pairs
<1>6. ASSUME NEW m \in DOMAIN r, NEW n \in DOMAIN r, m < n PROVE key[r[m]] <= key[r[n]]
  <2> HIDE DEF f, r
  <2> QED BY <1>3, <1>5, <1>6
<1> HIDE DEF r
<1> QED BY <1>4, <1>6

\* What is found on a list, and where that was.
Selects(rows, list, places) ==
  \E g : Pairs(g, DOMAIN rows, places) /\ \A m \in DOMAIN rows : rows[m] = list[g[m]]

AskedFor(list, e, from, to) == {n \in DOMAIN list : Telemetry!Asked(list[n], e, from, to)}

LEMMA FoundPairs ==
  ASSUME NEW S, NEW s, stored[s] \in Seq(S), NEW e, NEW from, NEW to
  PROVE  /\ Telemetry!Found(s, e, from, to) \in Seq(S)
         /\ Selects(Telemetry!Found(s, e, from, to), stored[s], AskedFor(stored[s], e, from, to))
<1> DEFINE list == stored[s]
           X == 0..Len(list)
           Y == Seq(S)
           As(i) == Telemetry!Asked(i, e, from, to)
           body(h, n) == IF n = 0 THEN <<>>
                         ELSE IF As(list[n]) THEN Append(h[n - 1], list[n]) ELSE h[n - 1]
           F == [p \in Y \X (1..Len(list)) |->
                   IF As(list[p[2]]) THEN Append(p[1], list[p[2]]) ELSE p[1]]
           P(g) == g = [n \in X |-> body(g, n)]
           kept == CHOOSE g : P(g)
<1>0. /\ list \in Seq(S) /\ Len(list) \in Nat /\ DOMAIN list = 1..Len(list)
      /\ \A n \in 1..Len(list) : list[n] \in S
      /\ \A n \in X : n # 0 => n - 1 \in X /\ n \in 1..Len(list)
      /\ 0 \in X /\ Len(list) \in X
  OBVIOUS
<1> HIDE DEF list, As
<1>1. /\ <<>> \in Y /\ F \in [Y \X (1..Len(list)) -> Y]
      /\ \A y \in Y, n \in 1..Len(list) :
           F[<<y, n>>] = IF As(list[n]) THEN Append(y, list[n]) ELSE y
  <2>1. \A y \in Y, n \in 1..Len(list) : Append(y, list[n]) \in Y
    BY <1>0
  <2> HIDE DEF Y
  <2>2. \A p \in Y \X (1..Len(list)) : p[1] \in Y /\ p[2] \in 1..Len(list)
    OBVIOUS
  <2>3. <<>> \in Y
    BY DEF Y
  <2> QED BY <2>1, <2>2, <2>3
<1>2. P(kept)
  <2>1. PICK h : /\ h \in [X -> Y] /\ h[0] = <<>>
                 /\ \A n \in 1..Len(list) : h[n] = F[<<h[n - 1], n>>]
    <3>1. Len(list) \in Nat /\ <<>> \in Y /\ Steps(F, Y, Len(list))
      BY <1>0, <1>1 DEF Steps
    <3> HIDE DEF F, Y
    <3>2. \E h : Course(h, F, Y, <<>>, Len(list))
      BY <3>1, Recurrence
    <3> QED BY <3>2 DEF Course
  <2>2. \A n \in X : h[n] = body(h, n)
    <3> HIDE DEF F, Y
    <3> QED BY <1>0, <1>1, <2>1
  <2>3. P(h)
    <3> HIDE DEF X, Y, body, F
    <3> QED BY <2>1, <2>2
  <2> HIDE DEF P
  <2> QED BY <2>3
<1>3. Telemetry!Found(s, e, from, to) = kept[Len(list)]
  BY DEF Telemetry!Found, list, As
<1> DEFINE asked(n) == {k \in 1..n : As(list[k])}
           Good(n) == /\ kept[n] \in Seq(S)
                      /\ \E g : /\ Pairs(g, DOMAIN kept[n], asked(n))
                                /\ \A m \in DOMAIN kept[n] : kept[n][m] = list[g[m]]
<1> HIDE DEF kept
<1>4. \A n \in X : kept[n] = body(kept, n)
  <2> HIDE DEF body
  <2> QED BY <1>2
<1>5. ASSUME NEW n \in X, n # 0, Good(n - 1) PROVE Good(n)
  <2>0. /\ n \in 1..Len(list) /\ list[n] \in S /\ 1..n = (1..(n - 1)) \cup {n}
        /\ n \notin 1..(n - 1) /\ n \in 1..n
    BY <1>0, <1>5
  <2>1. CASE ~As(list[n])
    <3>1. kept[n] = kept[n - 1]
      BY <1>4, <1>5, <2>1
    <3>2. asked(n) = asked(n - 1)
      BY <2>0, <2>1
    <3> HIDE DEF asked
    <3> QED BY <1>5, <3>1, <3>2
  <2>2. CASE As(list[n])
    <3> DEFINE old == kept[n - 1]
    <3>1. kept[n] = Append(old, list[n]) /\ old \in Seq(S)
      BY <1>4, <1>5, <2>2
    <3>2. asked(n) = asked(n - 1) \cup {n} /\ n \notin asked(n - 1)
      BY <2>0, <2>2
    <3>3. PICK g : /\ Pairs(g, DOMAIN old, asked(n - 1))
                   /\ \A m \in DOMAIN old : old[m] = list[g[m]]
      <4> HIDE DEF asked
      <4> QED BY <1>5
    <3> HIDE DEF old, asked
    <3>4. /\ kept[n] \in Seq(S) /\ Len(old) + 1 \notin DOMAIN old
          /\ DOMAIN kept[n] = DOMAIN old \cup {Len(old) + 1}
          /\ kept[n][Len(old) + 1] = list[n]
          /\ \A m \in DOMAIN old : kept[n][m] = old[m]
      BY <2>0, <3>1
    <3> DEFINE h == [m \in DOMAIN kept[n] |-> IF m = Len(old) + 1 THEN n ELSE g[m]]
    <3>5. Pairs(h, DOMAIN kept[n], asked(n))
      <4>1. \A m \in DOMAIN old : h[m] = g[m] /\ h[m] \in asked(n - 1)
        BY <3>3, <3>4 DEF Pairs
      <4>2. h[Len(old) + 1] = n
        BY <3>4
      <4>3. h \in [DOMAIN kept[n] -> asked(n)]
        BY <3>2, <3>4, <4>1, <4>2
      <4> HIDE DEF h
      <4>4. \A a, b \in DOMAIN kept[n] : h[a] = h[b] => a = b
        BY <3>2, <3>3, <3>4, <4>1, <4>2 DEF Pairs
      <4>5. \A b \in asked(n) : \E a \in DOMAIN kept[n] : h[a] = b
        BY <3>2, <3>3, <3>4, <4>1, <4>2 DEF Pairs
      <4> QED BY <4>3, <4>4, <4>5 DEF Pairs
    <3>6. \A m \in DOMAIN kept[n] : kept[n][m] = list[h[m]]
      BY <3>3, <3>4
    <3> HIDE DEF h
    <3> QED BY <3>4, <3>5, <3>6
  <2> QED BY <2>1, <2>2
<1>6. Good(0)
  <2>1. kept[0] = <<>> /\ DOMAIN kept[0] = {} /\ asked(0) = {}
    BY <1>0, <1>4
  <2>2. Pairs(<<>>, {}, {})
    BY DEF Pairs
  <2> HIDE DEF asked
  <2>3. kept[0] \in Seq(S)
    BY <2>1
  <2> QED BY <2>1, <2>2, <2>3
<1>7. Good(Len(list))
  <2> DEFINE bad == {n \in X : ~Good(n)}
  <2> HIDE DEF Good
  <2> SUFFICES ASSUME bad # {} PROVE FALSE
    BY <1>0
  <2>1. bad \in SUBSET Nat
    BY <1>0
  <2>2. PICK n \in bad : \A m \in bad : n <= m
    <3> HIDE DEF bad
    <3> QED BY <2>1, LeastOf
  <2>3. n \in X /\ n # 0 /\ n - 1 \in X
    BY <1>0, <1>6, <2>2
  <2>4. n - 1 \notin bad
    <3>1. ~(n <= n - 1)
      BY <2>3
    <3> HIDE DEF bad
    <3> QED BY <2>2, <3>1
  <2> QED BY <1>5, <2>2, <2>3, <2>4
<1>8. asked(Len(list)) = {n \in DOMAIN list : As(list[n])}
  BY <1>0
<1> HIDE DEF kept, asked
<1>9. /\ kept[Len(list)] \in Seq(S)
      /\ \E g : /\ Pairs(g, DOMAIN kept[Len(list)], {n \in DOMAIN list : As(list[n])})
                /\ \A m \in DOMAIN kept[Len(list)] : kept[Len(list)][m] = list[g[m]]
  BY <1>7, <1>8
<1> QED BY <1>3, <1>9 DEF list, As, Selects, AskedFor

\* The items that were stamped, and a range for their times.
Ready == {i \in Item : step[i] # "none"}
Times == 1..EndOfTime
Dated == \A i \in Ready : item[i].time \in Times /\ item[i].end \in Times

\* A list of items has no later one behind an earlier one.
Falls(list) == \A m, n \in DOMAIN list : m < n => item[list[m]].time >= item[list[n]].time

LEMMA LessLeft ==
  ASSUME NEW a \in Nat, NEW b \in Nat, NEW c \in Nat, c - a <= c - b
  PROVE  a >= b
  OBVIOUS

LEMMA LeastOfTwo ==
  ASSUME NEW a \in Nat, NEW b \in Nat, (IF a <= b THEN a ELSE b) < a
  PROVE  (IF a <= b THEN a ELSE b) = b
  OBVIOUS

LEMMA LatestFirstRearranges ==
  ASSUME Dated, NEW rows \in Seq(Ready)
  PROVE  /\ Telemetry!LatestFirst(rows) \in Telemetry!Rearranged(rows)
         /\ Falls(Telemetry!LatestFirst(rows))
<1> DEFINE key == [i \in Ready |-> EndOfTime - item[i].time]
           Sorted(r) == \A m, n \in DOMAIN r : m < n => item[r[m]].time >= item[r[n]].time
<1>1. EndOfTime \in Nat /\ key \in [Ready -> 0..EndOfTime]
  BY TelemetryAssumption DEF Dated, Times
<1>2. PICK r \in Telemetry!Rearranged(rows) : \A m, n \in DOMAIN r : m < n => key[r[m]] <= key[r[n]]
  <2> HIDE DEF key
  <2> QED BY <1>1, SortedExists
<1>3. \A n \in DOMAIN r : r[n] \in Ready
  <2>1. r \in Seq(Ready)
    BY RearrangedSame
  <2> QED BY <2>1
<1>4. Sorted(r)
  <2>1. ASSUME NEW m \in DOMAIN r, NEW n \in DOMAIN r, m < n
        PROVE  item[r[m]].time >= item[r[n]].time
    <3>1. r[m] \in Ready /\ r[n] \in Ready /\ key[r[m]] <= key[r[n]]
      BY <1>2, <1>3, <2>1
    <3>2. item[r[m]].time \in Times /\ item[r[n]].time \in Times
      BY <3>1 DEF Dated
    <3>3. /\ key[r[m]] = EndOfTime - item[r[m]].time
          /\ key[r[n]] = EndOfTime - item[r[n]].time
      BY <3>1
    <3>4. item[r[m]].time \in Nat /\ item[r[n]].time \in Nat
      BY <3>2 DEF Times
    <3> HIDE DEF key
    <3>5. EndOfTime - item[r[m]].time <= EndOfTime - item[r[n]].time
      BY ONLY <3>1, <3>3
    <3> QED BY ONLY <1>1, <3>4, <3>5, LessLeft
  <2> QED BY <2>1
<1>5. Telemetry!LatestFirst(rows) = CHOOSE x \in Telemetry!Rearranged(rows) : Sorted(x)
  BY DEF Telemetry!LatestFirst
<1> HIDE DEF Sorted
<1>6. /\ Telemetry!LatestFirst(rows) \in Telemetry!Rearranged(rows)
      /\ Sorted(Telemetry!LatestFirst(rows))
  BY <1>4, <1>5
<1> QED BY <1>6 DEF Sorted, Falls

\* How many items of a time are on a list.
Dates(list, t) == Cardinality({n \in DOMAIN list : list[n] \in {i \in Ready : item[i].time = t}})

\* What the limit of a statement leaves out is no later than anything it returns.
LEMMA LatestOccur ==
  ASSUME Dated, NEW rows \in Seq(Ready)
  PROVE  /\ Telemetry!Latest(rows) \in Seq(Ready)
         /\ \A t : /\ Dates(Telemetry!Latest(rows), t) <= Dates(rows, t)
                   /\ Dates(Telemetry!Latest(rows), t) < Dates(rows, t) =>
                        /\ Len(Telemetry!Latest(rows)) = Limit
                        /\ \A n \in DOMAIN Telemetry!Latest(rows) :
                             t <= item[Telemetry!Latest(rows)[n]].time
<1> DEFINE r == Telemetry!LatestFirst(rows)
           most == IF Len(rows) <= Limit THEN Len(rows) ELSE Limit
           cut == Telemetry!Latest(rows)
<1>1. r \in Telemetry!Rearranged(rows) /\ Falls(r)
  BY LatestFirstRearranges
<1>2. cut = SubSeq(r, 1, most)
  BY DEF Telemetry!Latest
<1> HIDE DEF r, cut
<1>3. /\ r \in Seq(Ready) /\ DOMAIN r = DOMAIN rows
      /\ CountsAs(r, rows, DOMAIN rows)
  BY <1>1, RearrangedSame
<1>4. /\ Limit \in Nat /\ Len(r) = Len(rows) /\ Len(r) \in Nat /\ most \in 0..Len(r)
      /\ DOMAIN r = 1..Len(r) /\ \A n \in DOMAIN r : r[n] \in Ready
  BY <1>3, TelemetryAssumption
<1>5. most < Len(r) => most = Limit
  <2>1. Len(rows) \in Nat /\ Limit \in Nat /\ Len(r) = Len(rows)
    BY <1>4
  <2> QED BY ONLY <2>1, LeastOfTwo
<1> HIDE DEF most
<1>6. /\ cut \in Seq(Ready) /\ Len(cut) = most /\ DOMAIN cut = 1..most
      /\ \A n \in 1..most : cut[n] = r[n] /\ n \in DOMAIN r
  BY <1>2, <1>3, <1>4
<1>7. ASSUME NEW t
      PROVE  /\ Dates(cut, t) <= Dates(rows, t)
             /\ Dates(cut, t) < Dates(rows, t) =>
                  Len(cut) = Limit /\ \A n \in DOMAIN cut : t <= item[cut[n]].time
  <2> DEFINE U == {i \in Ready : item[i].time = t}
             A == {n \in DOMAIN cut : cut[n] \in U}
             B == {n \in DOMAIN r : r[n] \in U}
  <2>1. Dates(cut, t) = Cardinality(A)
    BY DEF Dates
  <2>2. Dates(rows, t) = Cardinality(B)
    <3>1. Dates(rows, t) = Cardinality({n \in DOMAIN rows : rows[n] \in U})
      BY DEF Dates
    <3> HIDE DEF U
    <3> QED BY <1>3, <3>1 DEF CountsAs
  <2>3. A \subseteq B /\ B \subseteq DOMAIN r
    BY <1>6
  <2>4. IsFiniteSet(B) /\ IsFiniteSet(A)
    <3> HIDE DEF A, B
    <3>1. IsFiniteSet(B)
      BY <1>3, <2>3, FinitelyMany
    <3> QED BY <2>3, <3>1, FS_Subset
  <2>5. ASSUME A # B
        PROVE  Len(cut) = Limit /\ \A n \in DOMAIN cut : t <= item[cut[n]].time
    <3>1. PICK k \in B : k \notin A
      BY <2>3, <2>5
    <3>2. k \in DOMAIN r /\ r[k] \in U /\ k > most
      BY <1>4, <1>6, <3>1
    <3>3. \A n \in DOMAIN cut : n < k /\ item[r[n]].time >= item[r[k]].time
      BY <1>1, <1>4, <1>6, <3>2 DEF Falls
    <3>4. \A n \in DOMAIN cut : t <= item[cut[n]].time
      BY <1>4, <1>6, <3>2, <3>3 DEF Dated, Times
    <3> QED BY <1>4, <1>5, <1>6, <3>2, <3>4
  <2> HIDE DEF A, B
  <2>6. Cardinality(A) \in Nat /\ Cardinality(B) \in Nat /\ Cardinality(A) <= Cardinality(B)
    BY <2>3, <2>4, FS_Subset, FS_CardinalityType
  <2> QED BY <2>1, <2>2, <2>5, <2>6
<1> QED BY <1>6, <1>7 DEF cut

\* What a query finds in a storage other than that of traces, given the rows.
LEMMA StampsOccur ==
  ASSUME Dated, NEW rows \in Seq(Ready)
  PROVE  /\ Telemetry!Stamps(rows) \in Seq(Times)
         /\ \A t : Occurs(Telemetry!Stamps(rows), t)
                     = Cardinality({n \in DOMAIN rows : rows[n] \in {i \in Ready : item[i].time = t}})
<1>1. /\ DOMAIN rows = 1..Len(rows) /\ Len(rows) \in Nat
      /\ \A n \in DOMAIN rows : rows[n] \in Ready
  OBVIOUS
<1>2. \A n \in DOMAIN rows : item[rows[n]].time \in Times
  BY <1>1 DEF Dated
<1> DEFINE stamps == Telemetry!Stamps(rows)
<1>3. stamps = [n \in 1..Len(rows) |-> item[rows[n]].time] /\ DOMAIN stamps = DOMAIN rows
  BY <1>1 DEF Telemetry!Stamps
<1> HIDE DEF stamps
<1>4. stamps \in Seq(Times)
  BY <1>1, <1>2, <1>3
<1>5. ASSUME NEW t
      PROVE  {n \in DOMAIN stamps : stamps[n] = t}
               = {n \in DOMAIN rows : rows[n] \in {i \in Ready : item[i].time = t}}
  BY <1>1, <1>3
<1> QED BY <1>4, <1>5 DEF Occurs, stamps

\* The stored items that are asked for.
In(s, e, from, to) ==
  {n \in DOMAIN stored[s] : item[stored[s][n]].entity = e /\ item[stored[s][n]].time \in from..to}

\* Whatever is counted among what is found is counted among what is stored.
LEMMA FoundCounts ==
  ASSUME NEW s, stored[s] \in Seq(Ready), NEW e, NEW from, NEW to
  PROVE  /\ Telemetry!Found(s, e, from, to) \in Seq(Ready)
         /\ CountsAs(Telemetry!Found(s, e, from, to), stored[s], In(s, e, from, to))
         /\ \A n \in In(s, e, from, to) : \E m \in DOMAIN Telemetry!Found(s, e, from, to) :
              Telemetry!Found(s, e, from, to)[m] = stored[s][n]
         /\ \A m \in DOMAIN Telemetry!Found(s, e, from, to) : \E n \in In(s, e, from, to) :
              Telemetry!Found(s, e, from, to)[m] = stored[s][n]
<1> DEFINE rows == Telemetry!Found(s, e, from, to)
           asked == In(s, e, from, to)
<1>1. rows \in Seq(Ready)
  BY FoundPairs
<1>2. asked = AskedFor(stored[s], e, from, to)
  BY DEF In, Telemetry!Asked, AskedFor
<1>3. PICK g : Pairs(g, DOMAIN rows, asked) /\ \A m \in DOMAIN rows : rows[m] = stored[s][g[m]]
  <2>1. Selects(rows, stored[s], AskedFor(stored[s], e, from, to))
    BY FoundPairs
  <2> HIDE DEF rows, asked
  <2> QED BY <1>2, <2>1 DEF Selects
<1>4. IsFiniteSet(DOMAIN rows)
  BY <1>1, FinitelyMany
<1> HIDE DEF rows, asked
<1>5. ASSUME NEW U
      PROVE  Cardinality({n \in DOMAIN rows : rows[n] \in U})
               = Cardinality({n \in asked : stored[s][n] \in U})
  <2> DEFINE V == {n \in asked : stored[s][n] \in U}
  <2>1. {n \in DOMAIN rows : rows[n] \in U} = {n \in DOMAIN rows : g[n] \in V}
    BY <1>3 DEF Pairs
  <2>2. V \in SUBSET asked
    OBVIOUS
  <2> HIDE DEF V
  <2>3. Cardinality({n \in DOMAIN rows : g[n] \in V}) = Cardinality(V)
    BY <1>3, <1>4, <2>2, EquallyManyOf
  <2> QED BY <2>1, <2>3 DEF V
<1>6. \A n \in asked : \E m \in DOMAIN rows : rows[m] = stored[s][n]
  BY <1>3 DEF Pairs
<1>7. \A m \in DOMAIN rows : \E n \in asked : rows[m] = stored[s][n]
  BY <1>3 DEF Pairs
<1>8. CountsAs(rows, stored[s], asked)
  BY <1>5 DEF CountsAs
<1> QED BY <1>1, <1>6, <1>7, <1>8 DEF rows, asked

Listed == {"metrics", "logs", "events"}

\* The statement returned as many rows as it may, and none from before t.
CutAt(s, e, from, to, t) ==
  LET times == Telemetry!Query(s, e, from, to)
  IN  db /\ Len(times) = Limit /\ \A n \in DOMAIN times : t <= times[n]

\* How many stored items of a time are asked for.
StoredAt(s, e, from, to, t) ==
  Cardinality({n \in In(s, e, from, to) : item[stored[s][n]].time = t})

\* A query for metrics, log entries or events finds what it should, as often, but
\* for what a statement cut off.
LEMMA QueryOccurs ==
  ASSUME Dated, NEW s \in Listed, stored[s] \in Seq(Ready), NEW e, NEW from, NEW to
  PROVE  /\ Telemetry!Query(s, e, from, to) \in Seq(Times)
         /\ \A t : LET shown == Occurs(Telemetry!Query(s, e, from, to), t)
                  IN  /\ shown <= StoredAt(s, e, from, to, t)
                      /\ shown < StoredAt(s, e, from, to, t) => CutAt(s, e, from, to, t)
<1> DEFINE rows == Telemetry!Found(s, e, from, to)
           given == IF db THEN Telemetry!Latest(rows) ELSE rows
           times == Telemetry!Query(s, e, from, to)
<1>1. times = Telemetry!Stamps(given)
  BY DEF Listed, Telemetry!Query, Telemetry!MetricRows, Telemetry!LogRows, Telemetry!EventRows,
         Telemetry!MemoryMetrics, Telemetry!MemoryLogs, Telemetry!MemoryEvents
<1>2. rows \in Seq(Ready) /\ CountsAs(rows, stored[s], In(s, e, from, to))
  BY FoundCounts
<1> HIDE DEF rows
<1>3. /\ given \in Seq(Ready)
      /\ \A t : /\ Dates(given, t) <= Dates(rows, t)
                /\ Dates(given, t) < Dates(rows, t) =>
                     /\ db /\ Len(given) = Limit
                     /\ \A n \in DOMAIN given : t <= item[given[n]].time
  <2>1. CASE db
    BY <1>2, <2>1, LatestOccur
  <2>2. CASE ~db
    <3>1. \A t : Dates(rows, t) \in Nat
      <4> SUFFICES ASSUME NEW t PROVE Dates(rows, t) \in Nat
        OBVIOUS
      <4>1. {n \in DOMAIN rows : rows[n] \in {i \in Ready : item[i].time = t}} \in SUBSET DOMAIN rows
        OBVIOUS
      <4> QED BY <1>2, <4>1, FinitelyMany DEF Dates
    <3> QED BY <1>2, <2>2, <3>1
  <2> QED BY <2>1, <2>2
<1> HIDE DEF given
<1>4. /\ times \in Seq(Times)
      /\ \A t : Occurs(times, t) = Dates(given, t)
  BY <1>1, <1>3, StampsOccur DEF Dates
<1>5. ASSUME NEW t PROVE Dates(rows, t) = StoredAt(s, e, from, to, t)
  <2> DEFINE U == {i \in Ready : item[i].time = t}
  <2>1. Dates(rows, t) = Cardinality({n \in DOMAIN rows : rows[n] \in U})
    BY DEF Dates
  <2>2. Cardinality({n \in DOMAIN rows : rows[n] \in U})
          = Cardinality({n \in In(s, e, from, to) : stored[s][n] \in U})
    <3> HIDE DEF U
    <3> QED BY <1>2 DEF CountsAs
  <2>3. {n \in In(s, e, from, to) : stored[s][n] \in U}
          = {n \in In(s, e, from, to) : item[stored[s][n]].time = t}
    <3>1. \A n \in DOMAIN stored[s] : stored[s][n] \in Ready
      OBVIOUS
    <3> QED BY <3>1 DEF In
  <2> QED BY <2>1, <2>2, <2>3 DEF StoredAt
<1>6. /\ DOMAIN times = DOMAIN given /\ Len(times) = Len(given)
      /\ \A n \in DOMAIN given : times[n] = item[given[n]].time
  <2>1. times = [n \in DOMAIN given |-> item[given[n]].time]
    BY <1>1 DEF Telemetry!Stamps
  <2> HIDE DEF times
  <2>2. DOMAIN given = 1..Len(given) /\ Len(given) \in Nat /\ DOMAIN times = 1..Len(times)
        /\ Len(times) \in Nat
    BY <1>3, <1>4
  <2> QED BY <2>1, <2>2
<1>7. ASSUME NEW t
      PROVE  /\ Occurs(times, t) <= StoredAt(s, e, from, to, t)
             /\ Occurs(times, t) < StoredAt(s, e, from, to, t) => CutAt(s, e, from, to, t)
  <2>1. CutAt(s, e, from, to, t)
          <=> (db /\ Len(times) = Limit /\ \A n \in DOMAIN times : t <= times[n])
    BY DEF CutAt
  <2> HIDE DEF times
  <2>2. Occurs(times, t) = Dates(given, t) /\ Dates(rows, t) = StoredAt(s, e, from, to, t)
    BY <1>4, <1>5
  <2>3. Occurs(times, t) <= StoredAt(s, e, from, to, t)
    BY ONLY <1>3, <2>2
  <2>4. ASSUME Occurs(times, t) < StoredAt(s, e, from, to, t) PROVE CutAt(s, e, from, to, t)
    <3>1. db /\ Len(given) = Limit /\ \A n \in DOMAIN given : t <= item[given[n]].time
      BY ONLY <1>3, <2>2, <2>4
    <3>2. \A n \in DOMAIN times : t <= times[n]
      BY <1>6, <3>1
    <3> QED BY <1>6, <2>1, <3>1, <3>2
  <2> QED BY <2>3, <2>4
<1> HIDE DEF times
<1> QED BY <1>4, <1>7 DEF times

Entry == [kind : Telemetry!Stream, time : Times]

\* What the queries need of the state.
Readable ==
  /\ Dated
  /\ \A s \in Telemetry!Stream : stored[s] \in Seq(Ready)
  /\ trace # None => trace.start \in Times

LEMMA QueryTyped ==
  ASSUME Readable, NEW s \in Telemetry!Stream, NEW e, NEW from, NEW to
  PROVE  Telemetry!Query(s, e, from, to) \in Seq(Times)
<1>1. CASE s = "traces"
  <2>1. trace # None => <<trace.start>> \in Seq(Times)
    BY DEF Readable
  <2>2. <<>> \in Seq(Times)
    OBVIOUS
  <2>3. /\ Telemetry!TraceRows(e, from, to) \in Seq(Times)
        /\ Telemetry!MemoryTraces(e, from, to) \in Seq(Times)
    BY <2>1, <2>2 DEF Telemetry!TraceRows, Telemetry!MemoryTraces
  <2> QED BY <1>1, <2>3 DEF Telemetry!Query
<1>2. CASE s # "traces"
  BY <1>2, QueryOccurs DEF Readable, Listed, Telemetry!Stream
<1> QED BY <1>1, <1>2

LEMMA EntriesOccur ==
  ASSUME Readable, NEW s \in Telemetry!Stream, NEW e, NEW from, NEW to
  PROVE  /\ Telemetry!Entries(s, e, from, to) \in Seq(Entry)
         /\ \A r, t : Occurs(Telemetry!Entries(s, e, from, to), [kind |-> r, time |-> t])
                        = IF r = s THEN Occurs(Telemetry!Query(s, e, from, to), t) ELSE 0
<1> DEFINE times == Telemetry!Query(s, e, from, to)
           entries == Telemetry!Entries(s, e, from, to)
<1>1. entries = [n \in DOMAIN times |-> [kind |-> s, time |-> times[n]]]
  BY DEF Telemetry!Entries
<1>2. times \in Seq(Times)
  BY QueryTyped
<1> HIDE DEF times, entries
<1>3. DOMAIN times = 1..Len(times) /\ Len(times) \in Nat /\ \A n \in DOMAIN times : times[n] \in Times
  BY <1>2
<1>4. entries \in Seq(Entry)
  <2>1. \A n \in DOMAIN times : [kind |-> s, time |-> times[n]] \in Entry
    BY <1>3 DEF Entry
  <2> QED BY <1>1, <1>3, <2>1
<1>5. ASSUME NEW r, NEW t
      PROVE  Occurs(entries, [kind |-> r, time |-> t]) = IF r = s THEN Occurs(times, t) ELSE 0
  <2> DEFINE x == [kind |-> r, time |-> t]
             A == {n \in DOMAIN entries : entries[n] = x}
             B == {n \in DOMAIN times : times[n] = t}
  <2>1. \A n \in DOMAIN times : [kind |-> s, time |-> times[n]] = x <=> r = s /\ times[n] = t
    OBVIOUS
  <2> HIDE DEF x
  <2>2. A = IF r = s THEN B ELSE {}
    BY <1>1, <2>1
  <2>3. Cardinality(A) = IF r = s THEN Cardinality(B) ELSE 0
    BY <2>2, FS_EmptySet
  <2> QED BY <2>3 DEF Occurs, x
<1> QED BY <1>4, <1>5 DEF times, entries

LEMMA CollectedOccurs ==
  ASSUME Readable, NEW e, NEW from, NEW to
  PROVE  /\ Telemetry!Collected(e, from, to) \in Seq(Entry)
         /\ \A s \in Telemetry!Stream : \A t :
              Occurs(Telemetry!Collected(e, from, to), [kind |-> s, time |-> t])
                = Occurs(Telemetry!Query(s, e, from, to), t)
<1> DEFINE q(s) == Telemetry!Query(s, e, from, to)
           l(s) == Telemetry!Entries(s, e, from, to)
           all == ((l("metrics") \o l("logs")) \o l("traces")) \o l("events")
<1>1. Telemetry!Collected(e, from, to) = all
  BY DEF Telemetry!Collected
<1>2. {"metrics", "logs", "traces", "events"} = Telemetry!Stream
  BY DEF Telemetry!Stream
<1>3. \A s \in Telemetry!Stream : l(s) \in Seq(Entry)
  BY EntriesOccur
<1>4. ASSUME NEW s \in Telemetry!Stream, NEW r, NEW t
      PROVE  Occurs(l(s), [kind |-> r, time |-> t]) = IF r = s THEN Occurs(q(s), t) ELSE 0
  BY EntriesOccur
<1> HIDE DEF l
<1>5. /\ l("metrics") \o l("logs") \in Seq(Entry)
      /\ (l("metrics") \o l("logs")) \o l("traces") \in Seq(Entry)
      /\ all \in Seq(Entry)
  BY <1>2, <1>3
<1>6. ASSUME NEW s \in Telemetry!Stream, NEW t
      PROVE  Occurs(all, [kind |-> s, time |-> t]) = Occurs(q(s), t)
  <2> DEFINE x == [kind |-> s, time |-> t]
             o(r) == Occurs(l(r), x)
  <2>1. \A r \in Telemetry!Stream : o(r) = IF s = r THEN Occurs(q(r), t) ELSE 0
    BY <1>4
  <2>2. Occurs(q(s), t) \in Nat
    <3>1. q(s) \in Seq(Times)
      BY QueryTyped
    <3> HIDE DEF q
    <3> QED BY <3>1, FinitelyMany DEF Occurs
  <2> HIDE DEF x
  <2>3. Occurs(all, x) = ((o("metrics") + o("logs")) + o("traces")) + o("events")
    <3> HIDE DEF q
    <3>1. Occurs(l("metrics") \o l("logs"), x) = o("metrics") + o("logs")
      BY <1>2, <1>3, OccursJoined
    <3>2. Occurs((l("metrics") \o l("logs")) \o l("traces"), x)
            = Occurs(l("metrics") \o l("logs"), x) + o("traces")
      BY <1>2, <1>3, <1>5, OccursJoined
    <3>3. Occurs(all, x) = Occurs((l("metrics") \o l("logs")) \o l("traces"), x) + o("events")
      BY <1>2, <1>3, <1>5, OccursJoined
    <3> QED BY <3>1, <3>2, <3>3
  <2> HIDE DEF o, all, q
  <2>4. Occurs(all, x) = Occurs(q(s), t)
    <3>1. s \in {"metrics", "logs", "traces", "events"}
      BY <1>2
    <3>2. CASE s = "metrics"
      BY <1>2, <2>1, <2>2, <2>3, <3>2
    <3>3. CASE s = "logs"
      BY <1>2, <2>1, <2>2, <2>3, <3>3
    <3>4. CASE s = "traces"
      BY <1>2, <2>1, <2>2, <2>3, <3>4
    <3>5. CASE s = "events"
      BY <1>2, <2>1, <2>2, <2>3, <3>5
    <3> QED BY <3>1, <3>2, <3>3, <3>4, <3>5
  <2> QED BY <2>4 DEF x
<1> HIDE DEF all, q
<1> QED BY <1>1, <1>5, <1>6 DEF q

\* Correlate returns what was collected, in order.
LEMMA TimelineSorted ==
  ASSUME Readable, NEW e, NEW from, NEW to
  PROVE  LET line == Telemetry!Timeline(e, from, to)
         IN  /\ line \in Telemetry!Rearranged(Telemetry!Collected(e, from, to))
             /\ \A m, n \in DOMAIN line : m < n => line[m].time <= line[n].time
<1> DEFINE all == Telemetry!Collected(e, from, to)
           Sorted(line) == \A m, n \in DOMAIN line : m < n => line[m].time <= line[n].time
           key == [x \in Entry |-> x.time]
<1>1. all \in Seq(Entry)
  BY CollectedOccurs
<1>2. Telemetry!Timeline(e, from, to) = CHOOSE line \in Telemetry!Rearranged(all) : Sorted(line)
  BY DEF Telemetry!Timeline
<1> HIDE DEF all
<1>3. EndOfTime \in Nat /\ key \in [Entry -> 0..EndOfTime]
  BY TelemetryAssumption DEF Entry, Times
<1>4. PICK r \in Telemetry!Rearranged(all) : \A m, n \in DOMAIN r : m < n => key[r[m]] <= key[r[n]]
  <2> HIDE DEF key
  <2> QED BY <1>1, <1>3, SortedExists
<1>5. \A n \in DOMAIN r : r[n] \in Entry
  <2>1. r \in Seq(Entry)
    BY <1>1, RearrangedSame
  <2> QED BY <2>1
<1>6. Sorted(r)
  BY <1>4, <1>5
<1> HIDE DEF Sorted
<1>7. /\ (CHOOSE line \in Telemetry!Rearranged(all) : Sorted(line)) \in Telemetry!Rearranged(all)
      /\ Sorted(CHOOSE line \in Telemetry!Rearranged(all) : Sorted(line))
  BY <1>6
<1> USE DEF Sorted
<1> QED BY <1>2, <1>7 DEF all

LEMMA TimelineOccurs ==
  ASSUME Readable, NEW e, NEW from, NEW to
  PROVE  /\ \A x : Occurs(Telemetry!Timeline(e, from, to), x)
                     = Occurs(Telemetry!Collected(e, from, to), x)
         /\ \A x : (\E n \in DOMAIN Telemetry!Timeline(e, from, to) :
                       Telemetry!Timeline(e, from, to)[n] = x)
                     <=> \E n \in DOMAIN Telemetry!Collected(e, from, to) :
                           Telemetry!Collected(e, from, to)[n] = x
<1> DEFINE line == Telemetry!Timeline(e, from, to)
           all == Telemetry!Collected(e, from, to)
<1>1. all \in Seq(Entry)
  BY CollectedOccurs
<1>2. line \in Telemetry!Rearranged(all)
  BY TimelineSorted
<1> HIDE DEF line, all
<1>3. /\ \A x : Occurs(line, x) = Occurs(all, x)
      /\ \A x : (\E n \in DOMAIN line : line[n] = x) <=> (\E n \in DOMAIN all : all[n] = x)
  BY <1>1, <1>2, RearrangedSame
<1> QED BY <1>3 DEF line, all

-----------------------------------------------------------------------------
(* Aggregations: where the interval of a time starts.                      *)

Start(x) == x - (x % Interval)

LEMMA Divides ==
  ASSUME NEW x \in Nat
  PROVE  /\ x \div Interval \in Nat /\ x % Interval \in 0..(Interval - 1)
         /\ x = Interval * (x \div Interval) + (x % Interval)
<1>1. Interval \in Nat \ {0}
  BY TelemetryAssumption
<1> QED BY <1>1

LEMMA Further ==
  ASSUME NEW I \in Nat \ {0}, NEW a \in Nat, NEW b \in Nat, a < b
  PROVE  I * a + I <= I * b
<1>1. b - a - 1 \in Nat
  OBVIOUS
<1>2. I * (b - a - 1) \in Nat
  BY <1>1
<1>3. I * (b - a - 1) = I * b - I * a - I
  OBVIOUS
<1> QED BY <1>2, <1>3

\* Intervals do not meet: two times are in the interval of either or of neither.
LEMMA Intervals ==
  ASSUME NEW x \in Nat, NEW y \in Nat
  PROVE  /\ Start(x) \in Nat /\ x \in Start(x)..(Start(x) + Interval - 1)
         /\ (x \div Interval) * Interval = Start(x)
         /\ x \in Start(y)..(Start(y) + Interval - 1) <=> Start(x) = Start(y)
         /\ Start(x) < Start(y) => Start(x) + Interval <= Start(y)
<1> DEFINE a == x \div Interval
           b == y \div Interval
<1>1. /\ Interval \in Nat \ {0} /\ a \in Nat /\ b \in Nat
      /\ x % Interval \in 0..(Interval - 1) /\ y % Interval \in 0..(Interval - 1)
      /\ x = Interval * a + (x % Interval) /\ y = Interval * b + (y % Interval)
  BY Divides, TelemetryAssumption
<1> HIDE DEF a, b
<1>2. Interval * a \in Nat /\ Interval * b \in Nat /\ a * Interval = Interval * a
  BY <1>1
<1> DEFINE p == Interval * a
           q == Interval * b
<1>3. Start(x) = p /\ Start(y) = q
  BY <1>1, <1>2 DEF Start
<1>4. a < b => p + Interval <= q
  BY <1>1, Further
<1>5. b < a => q + Interval <= p
  BY <1>1, Further
<1>6. a = b => p = q
  OBVIOUS
<1>7. a < b \/ b < a \/ a = b
  BY <1>1
<1>8. x \in p..(p + Interval - 1)
  BY <1>1, <1>2
<1>9. p \in Nat /\ q \in Nat
  BY <1>2
<1> HIDE DEF p, q
<1>10. p < q => p + Interval <= q
  BY <1>1, <1>4, <1>5, <1>6, <1>7, <1>9
<1>11. x \in q..(q + Interval - 1) <=> p = q
  BY <1>1, <1>4, <1>5, <1>6, <1>7, <1>8, <1>9
<1>12. (x \div Interval) * Interval = p
  BY <1>2 DEF a, p
<1> QED BY <1>3, <1>8, <1>9, <1>10, <1>11, <1>12

\* What the aggregation in memory makes of the metrics of a query.
PointsOf(rows) ==
  [t \in {Start(item[rows[n]].time) : n \in DOMAIN rows} |->
     Cardinality({n \in DOMAIN rows : Start(item[rows[n]].time) = t})]

LEMMA AggregatePoints ==
  ASSUME Readable, ~db, NEW e, NEW from, NEW to
  PROVE  Telemetry!Aggregate(e, from, to) = PointsOf(Telemetry!Found("metrics", e, from, to))
<1> DEFINE rows == Telemetry!Found("metrics", e, from, to)
<1>1. rows \in Seq(Ready)
  BY FoundCounts DEF Readable, Telemetry!Stream
<1> HIDE DEF rows
<1>2. \A n \in DOMAIN rows : rows[n] \in Ready
  BY <1>1
<1>3. \A n \in DOMAIN rows : item[rows[n]].time \in Nat
  BY <1>2 DEF Readable, Dated, Times
<1>4. Telemetry!Points(Telemetry!Stamps(rows)) = PointsOf(rows)
  <2> DEFINE stamps == Telemetry!Stamps(rows)
  <2>1. DOMAIN stamps = DOMAIN rows /\ \A n \in DOMAIN rows : stamps[n] = item[rows[n]].time
    BY DEF Telemetry!Stamps
  <2>2. Telemetry!Points(stamps)
          = [t \in {Start(stamps[n]) : n \in DOMAIN stamps} |->
               Cardinality({n \in DOMAIN stamps : Start(stamps[n]) = t})]
    BY SameNumber DEF Telemetry!Points, Start
  <2> HIDE DEF stamps
  <2>3. {Start(stamps[n]) : n \in DOMAIN stamps} = {Start(item[rows[n]].time) : n \in DOMAIN rows}
    BY <2>1
  <2>4. \A t : {n \in DOMAIN stamps : Start(stamps[n]) = t}
                 = {n \in DOMAIN rows : Start(item[rows[n]].time) = t}
    BY <2>1
  <2> QED BY <2>2, <2>3, <2>4 DEF PointsOf, stamps
<1> QED BY <1>4 DEF Telemetry!Aggregate, rows

\* The stored metrics that are asked for and of a time in the interval from t on.
Between(t, e, from, to) ==
  {n \in In("metrics", e, from, to) :
     item[stored["metrics"][n]].time \in t..(t + Interval - 1)}

LEMMA PointsRight ==
  ASSUME Readable, ~db, NEW e, NEW from, NEW to
  PROVE  LET points == Telemetry!Aggregate(e, from, to)
         IN  /\ \A t \in DOMAIN points : points[t] = Cardinality(Between(t, e, from, to))
             /\ \A n \in In("metrics", e, from, to) :
                  \E t \in DOMAIN points : n \in Between(t, e, from, to)
             /\ \A t, u \in DOMAIN points : t < u => t + Interval <= u
<1> DEFINE rows == Telemetry!Found("metrics", e, from, to)
           list == stored["metrics"]
           asked == In("metrics", e, from, to)
           time(n) == item[rows[n]].time
           points == PointsOf(rows)
<1>1. list \in Seq(Ready)
  BY DEF Readable, Telemetry!Stream
<1>2. /\ rows \in Seq(Ready) /\ CountsAs(rows, list, asked)
      /\ \A n \in asked : \E m \in DOMAIN rows : rows[m] = list[n]
  BY <1>1, FoundCounts
<1>3. asked \subseteq DOMAIN list
  BY DEF In
<1> HIDE DEF rows, asked
<1>4. \A n \in DOMAIN rows : rows[n] \in Ready /\ time(n) \in Nat
  <2>1. \A n \in DOMAIN rows : rows[n] \in Ready
    BY <1>2
  <2> QED BY <2>1 DEF Readable, Dated, Times
<1>5. \A n \in asked : list[n] \in Ready /\ item[list[n]].time \in Nat
  <2>1. \A n \in DOMAIN list : list[n] \in Ready
    BY <1>1
  <2> QED BY <1>3, <2>1 DEF Readable, Dated, Times
<1> HIDE DEF list
<1>6. DOMAIN points = {Start(time(n)) : n \in DOMAIN rows}
  BY DEF PointsOf
<1>7. \A t \in DOMAIN points : points[t] = Cardinality({n \in DOMAIN rows : Start(time(n)) = t})
  BY DEF PointsOf
<1> DEFINE between(t) == {n \in asked : item[list[n]].time \in t..(t + Interval - 1)}
<1>8. ASSUME NEW t \in DOMAIN points PROVE points[t] = Cardinality(between(t))
  <2> DEFINE U == {i \in Ready : item[i].time \in t..(t + Interval - 1)}
  <2>1. PICK k \in DOMAIN rows : t = Start(time(k))
    BY <1>6
  <2>2. ASSUME NEW n \in DOMAIN rows PROVE rows[n] \in U <=> Start(time(n)) = t
    <3>1. time(n) \in t..(t + Interval - 1) <=> Start(time(n)) = t
      BY <1>4, <2>1, Intervals
    <3> QED BY <1>4, <3>1
  <2>3. {n \in DOMAIN rows : Start(time(n)) = t} = {n \in DOMAIN rows : rows[n] \in U}
    BY <2>2
  <2>4. between(t) = {n \in asked : list[n] \in U}
    BY <1>5
  <2> HIDE DEF U, points, between
  <2>5. Cardinality({n \in DOMAIN rows : rows[n] \in U}) = Cardinality({n \in asked : list[n] \in U})
    BY <1>2 DEF CountsAs
  <2> QED BY <1>7, <2>3, <2>4, <2>5
<1>9. ASSUME NEW n \in asked PROVE \E t \in DOMAIN points : n \in between(t)
  <2>1. PICK m \in DOMAIN rows : rows[m] = list[n]
    BY <1>2
  <2>2. time(m) \in Start(time(m))..(Start(time(m)) + Interval - 1)
    BY <1>4, Intervals
  <2>3. Start(time(m)) \in DOMAIN points
    BY <1>6
  <2>4. n \in between(Start(time(m)))
    BY <2>1, <2>2
  <2> QED BY <2>3, <2>4
<1>10. ASSUME NEW t \in DOMAIN points, NEW u \in DOMAIN points, t < u PROVE t + Interval <= u
  <2>1. PICK m \in DOMAIN rows : t = Start(time(m))
    BY <1>6
  <2>2. PICK n \in DOMAIN rows : u = Start(time(n))
    BY <1>6
  <2> HIDE DEF points
  <2> QED BY <1>4, <1>10, <2>1, <2>2, Intervals
<1>11. Telemetry!Aggregate(e, from, to) = points
  BY AggregatePoints DEF rows
<1>12. \A t : between(t) = Between(t, e, from, to)
  BY DEF Between, list, asked
<1> HIDE DEF points, between
<1> QED BY <1>8, <1>9, <1>10, <1>11, <1>12 DEF asked

-----------------------------------------------------------------------------
(* Queries: what is stored can be asked for, and the trace is that of all  *)
(* the spans that memory holds.                                            *)

\* trace in memory, once there is a span.
Rebuilt ==
  LET spans == Telemetry!Range(stored["traces"])
  IN  /\ trace # None /\ trace.end <= EndOfTime
      /\ trace.of = {item[i].entity : i \in spans}
      /\ \E i \in spans : /\ trace.start = item[i].time
                          /\ \A j \in spans : item[i].time <= item[j].time

TraceInv ==
  /\ trace # None => trace \in [start : Times, end : 0..EndOfTime, of : SUBSET Source]
  /\ ~db /\ stored["traces"] # <<>> => Rebuilt

QueryInv == TelemetryInv /\ clock \in Times /\ Dated /\ TraceInv

LEMMA StoredReady ==
  ASSUME TelemetryInv, NEW s \in Telemetry!Stream
  PROVE  /\ stored[s] \in Seq(Ready)
         /\ \A n \in DOMAIN stored[s] : stored[s][n] \in Item /\ step[stored[s][n]] = "accepted"
                                         /\ item[stored[s][n]].entity \in Source
<1>1. /\ stored[s] \in Seq(Item) /\ accepted[s] \in Seq(Item) /\ buffer[s] \in Seq(Item)
      /\ Piped(s)
  BY DEF TelemetryInv, TelemetryTyped
<1>2. \A k \in 1..(Len(accepted[s]) - Len(buffer[s])) : k \in 1..Len(accepted[s])
  <2>1. Len(accepted[s]) \in Nat /\ Len(buffer[s]) \in Nat
    BY <1>1
  <2>2. ASSUME NEW a \in Nat, NEW b \in Nat PROVE \A k \in 1..(a - b) : k \in 1..a
    OBVIOUS
  <2> QED BY <2>1, <2>2
<1>3. ASSUME NEW n \in DOMAIN stored[s]
      PROVE  /\ stored[s][n] \in Item /\ step[stored[s][n]] = "accepted"
             /\ stored[s][n] \in Ready /\ item[stored[s][n]].entity \in Source
  <2>1. n \in 1..Len(stored[s]) /\ stored[s][n] \in Item
    BY <1>1
  <2>2. PICK k \in 1..(Len(accepted[s]) - Len(buffer[s])) : stored[s][n] = accepted[s][k]
    BY <1>1, <2>1 DEF Piped, Pipe, Of
  <2>3. k \in 1..Len(accepted[s])
    BY <1>2
  <2>4. step[accepted[s][k]] = "accepted"
    BY <2>3 DEF TelemetryInv, Stamped
  <2> QED BY <2>1, <2>2, <2>4 DEF Ready, TelemetryInv, Stamped
<1>4. stored[s] \in Seq(Ready)
  <2>1. Len(stored[s]) \in Nat /\ DOMAIN stored[s] = 1..Len(stored[s])
        /\ stored[s] = [n \in 1..Len(stored[s]) |-> stored[s][n]]
    BY <1>1
  <2>2. stored[s] \in [1..Len(stored[s]) -> Ready]
    BY <1>3, <2>1
  <2> QED BY <2>1, <2>2
<1> QED BY <1>3, <1>4

LEMMA QueryReads == ASSUME QueryInv PROVE Readable
  BY StoredReady DEF QueryInv, TraceInv, Readable

\* What is on a list of one is on it.
LEMMA OccursOn ==
  ASSUME NEW S, NEW list \in Seq(S), NEW x
  PROVE  Occurs(list, x) # 0 <=> \E n \in DOMAIN list : list[n] = x
<1> DEFINE A == {n \in DOMAIN list : list[n] = x}
<1>1. A \in SUBSET DOMAIN list
  OBVIOUS
<1> HIDE DEF A
<1>2. IsFiniteSet(A)
  BY <1>1, FinitelyMany
<1>3. Cardinality(A) = 0 <=> A = {}
  BY <1>2, FS_EmptySet
<1> QED BY <1>3 DEF A, Occurs

LEMMA TraceListed ==
  ASSUME QueryInv, ~db, NEW e, In("traces", e, 1, EndOfTime) # {}
  PROVE  LET line == Telemetry!Timeline(e, 1, EndOfTime)
             spans == Telemetry!Range(stored["traces"])
         IN  \E i \in spans : /\ [kind |-> "traces", time |-> item[i].time] \in Telemetry!Range(line)
                              /\ \A j \in spans : item[i].time <= item[j].time
<1> DEFINE line == Telemetry!Timeline(e, 1, EndOfTime)
           all == Telemetry!Collected(e, 1, EndOfTime)
           spans == Telemetry!Range(stored["traces"])
<1>0. "traces" \in Telemetry!Stream /\ EndOfTime \in Nat
  BY TelemetryAssumption DEF Telemetry!Stream
<1>1. PICK n \in DOMAIN stored["traces"] : item[stored["traces"][n]].entity = e
  BY DEF In
<1>2. stored["traces"] # <<>> /\ stored["traces"][n] \in spans
  <2>1. stored["traces"] \in Seq(Ready)
    BY <1>0, StoredReady DEF QueryInv
  <2> QED BY <1>1, <2>1 DEF Telemetry!Range
<1>3. Rebuilt
  BY <1>2 DEF QueryInv, TraceInv
<1>4. PICK i \in spans : trace.start = item[i].time /\ \A j \in spans : item[i].time <= item[j].time
  BY <1>3 DEF Rebuilt
<1>5. e \in trace.of /\ trace # None /\ trace.end <= EndOfTime /\ trace.start \in Times
  BY <1>1, <1>2, <1>3 DEF Rebuilt, QueryInv, TraceInv
<1> HIDE DEF spans
<1>6. Telemetry!Query("traces", e, 1, EndOfTime) = <<trace.start>>
  BY <1>5 DEF Telemetry!Query, Telemetry!MemoryTraces, Times
<1> DEFINE x == [kind |-> "traces", time |-> trace.start]
<1>7. Occurs(<<trace.start>>, trace.start) # 0
  <2>1. <<trace.start>> \in Seq(Times) /\ 1 \in DOMAIN <<trace.start>>
        /\ <<trace.start>>[1] = trace.start
    BY <1>5
  <2> QED BY <2>1, OccursOn
<1>8. Occurs(line, x) # 0
  <2>1. Occurs(all, x) = Occurs(Telemetry!Query("traces", e, 1, EndOfTime), trace.start)
    BY <1>0, QueryReads, CollectedOccurs
  <2>2. Occurs(line, x) = Occurs(all, x)
    BY QueryReads, TimelineOccurs
  <2> QED BY <1>6, <1>7, <2>1, <2>2
<1>9. line \in Seq(Entry)
  <2>1. all \in Seq(Entry) /\ line \in Telemetry!Rearranged(all)
    BY QueryReads, CollectedOccurs, TimelineSorted
  <2> HIDE DEF all, line
  <2> QED BY <2>1, RearrangedSame
<1> HIDE DEF line, x
<1>10. x \in Telemetry!Range(line)
  BY <1>8, <1>9, OccursOn DEF Telemetry!Range
<1> QED BY <1>4, <1>10 DEF x, line, spans

LEMMA QueriesFollow == ASSUME QueryInv PROVE QueriesRight
<1> SUFFICES ASSUME NEW e \in Source, NEW from \in 1..EndOfTime, NEW to \in 1..EndOfTime
    PROVE  /\ Telemetry!TimelineRight(e, from, to)
           /\ ~db => Telemetry!TraceShown(e) /\ Telemetry!PointsExact(e, from, to)
  BY DEF QueriesRight, Telemetry!QueriesRight
<1>0. Readable
  BY QueryReads
<1>1. ASSUME NEW s, NEW lo, NEW hi PROVE Telemetry!Within(s, e, lo, hi) = In(s, e, lo, hi)
  BY DEF Telemetry!Within, Telemetry!At, In
<1>2. Telemetry!TimelineRight(e, from, to)
  <2> DEFINE line == Telemetry!Timeline(e, from, to)
  <2>1. \A m, n \in DOMAIN line : m < n => line[m].time <= line[n].time
    BY <1>0, TimelineSorted
  <2>2. ASSUME NEW s \in Telemetry!Stream \ {"traces"}, NEW t \in 1..EndOfTime
        PROVE  LET shown == Telemetry!Cardinality({n \in DOMAIN line : line[n] = [kind |-> s, time |-> t]})
                   there == Telemetry!Cardinality({n \in Telemetry!Within(s, e, from, to) : Telemetry!At(s, n) = t})
                   times == Telemetry!Query(s, e, from, to)
               IN  /\ shown <= there
                   /\ shown < there => db /\ Len(times) = Limit /\ \A n \in DOMAIN times : t <= times[n]
    <3> DEFINE x == [kind |-> s, time |-> t]
               A == {n \in DOMAIN line : line[n] = [kind |-> s, time |-> t]}
               B == {n \in Telemetry!Within(s, e, from, to) : Telemetry!At(s, n) = t}
               shown == Occurs(Telemetry!Query(s, e, from, to), t)
    <3>1. s \in Listed /\ s \in Telemetry!Stream /\ stored[s] \in Seq(Ready) /\ Dated
      BY <1>0 DEF Telemetry!Stream, Listed, Readable
    <3>2. Occurs(line, x) = Occurs(Telemetry!Collected(e, from, to), x)
      BY <1>0, TimelineOccurs
    <3>3. Occurs(Telemetry!Collected(e, from, to), x) = shown
      BY <1>0, <3>1, CollectedOccurs
    <3>4. /\ shown <= StoredAt(s, e, from, to, t)
          /\ shown < StoredAt(s, e, from, to, t) => CutAt(s, e, from, to, t)
      BY <3>1, QueryOccurs
    <3>5. Occurs(line, x) = Cardinality(A)
      BY DEF Occurs
    <3>6. StoredAt(s, e, from, to, t) = Cardinality(B)
      BY <1>1 DEF StoredAt, Telemetry!At
    <3>7. CutAt(s, e, from, to, t)
            => /\ db /\ Len(Telemetry!Query(s, e, from, to)) = Limit
               /\ \A n \in DOMAIN Telemetry!Query(s, e, from, to) : t <= Telemetry!Query(s, e, from, to)[n]
      BY DEF CutAt
    <3> HIDE DEF A, B, shown, line, x
    <3>8. Telemetry!Cardinality(A) = shown /\ Telemetry!Cardinality(B) = StoredAt(s, e, from, to, t)
      BY <3>2, <3>3, <3>5, <3>6, SameNumber
    <3> QED BY <3>4, <3>7, <3>8 DEF A, B
  <2> HIDE DEF line
  <2> QED BY <2>1, <2>2 DEF Telemetry!TimelineRight, line
<1>3. ASSUME ~db PROVE Telemetry!TraceShown(e)
  BY <1>1, <1>3, TraceListed DEF Telemetry!TraceShown
<1>4. ASSUME ~db PROVE Telemetry!PointsExact(e, from, to)
  <2> DEFINE points == Telemetry!Aggregate(e, from, to)
  <2>1. /\ \A t \in DOMAIN points : points[t] = Cardinality(Between(t, e, from, to))
        /\ \A n \in In("metrics", e, from, to) :
             \E t \in DOMAIN points : n \in Between(t, e, from, to)
        /\ \A t, u \in DOMAIN points : t < u => t + Interval <= u
    BY <1>0, <1>4, PointsRight
  <2>2. ASSUME NEW t
        PROVE  Between(t, e, from, to)
                 = {n \in Telemetry!Within("metrics", e, from, to) :
                      Telemetry!At("metrics", n) \in t..(t + Interval - 1)}
    BY <1>1 DEF Between, Telemetry!At
  <2>3. ASSUME NEW t
        PROVE  Telemetry!Cardinality({n \in Telemetry!Within("metrics", e, from, to) :
                      Telemetry!At("metrics", n) \in t..(t + Interval - 1)})
                 = Cardinality(Between(t, e, from, to))
    <3> HIDE DEF points
    <3> QED BY <2>2, SameNumber
  <2> HIDE DEF points
  <2> QED BY <1>1, <2>1, <2>2, <2>3 DEF Telemetry!PointsExact, points
<1> QED BY <1>2, <1>3, <1>4

LEMMA DatedStep ==
  ASSUME QueryInv, [Telemetry!Next]_(Telemetry!vars) PROVE clock' \in Times /\ Dated'
<1> USE DEF QueryInv, Telemetry!call
<1>0. /\ EndOfTime \in Nat /\ step \in [Item -> {"none", "stamped", "accepted", "dropped"}]
      /\ item \in [Item -> [stream : Telemetry!Stream \cup {"none"}, entity : Source \cup {None},
                            time : Nat, end : Nat]]
  BY TelemetryAssumption DEF TelemetryInv, TelemetryTyped
<1>1. CASE UNCHANGED <<clock, item, step>>
  BY <1>1 DEF Dated, Ready
<1>2. CASE Telemetry!Tick
  BY <1>0, <1>2 DEF Telemetry!Tick, Dated, Ready, Times
<1>3. ASSUME NEW i \in Item, NEW s \in Telemetry!Stream, NEW e \in Source, Telemetry!Stamp(i, s, e)
      PROVE  clock' \in Times /\ Dated'
  <2>1. /\ step' = [step EXCEPT ![i] = "stamped"] /\ clock' = clock
        /\ item' = [item EXCEPT ![i] = [stream |-> s, entity |-> e, time |-> clock, end |-> clock]]
    BY <1>3 DEF Telemetry!Stamp
  <2>2. ASSUME NEW j \in Ready' PROVE item'[j].time \in Times /\ item'[j].end \in Times
    <3>1. j \in Item /\ step'[j] # "none"
      BY DEF Ready
    <3>2. CASE j = i
      BY <1>0, <2>1, <3>2
    <3>3. CASE j # i
      <4>1. j \in Ready /\ item'[j] = item[j]
        BY <1>0, <2>1, <3>1, <3>3 DEF Ready
      <4> QED BY <4>1 DEF Dated
    <3> QED BY <3>2, <3>3
  <2> QED BY <2>1, <2>2 DEF Dated
<1>4. ASSUME NEW i \in Item, NEW s, Telemetry!Send(i, s) PROVE Ready' = Ready
  <2>1. step[i] = "stamped" /\ \E x \in {"accepted", "dropped"} : step' = [step EXCEPT ![i] = x]
    BY <1>4 DEF Telemetry!Send
  <2> QED BY <1>0, <2>1 DEF Ready
<1>5. ASSUME NEW i \in Item, NEW s, Telemetry!Collects(i, s) PROVE clock' \in Times /\ Dated'
  <2>1. Telemetry!Send(i, s) /\ UNCHANGED <<clock, item>>
    BY <1>5 DEF Telemetry!Collects
  <2>2. Ready' = Ready
    BY <1>4, <2>1
  <2> QED BY <2>1, <2>2 DEF Dated
<1>6. ASSUME NEW i \in Item, Telemetry!Finish(i) PROVE clock' \in Times /\ Dated'
  <2>1. Telemetry!Send(i, "traces") /\ clock' = clock /\ item' = [item EXCEPT ![i].end = clock]
    BY <1>6 DEF Telemetry!Finish
  <2>2. Ready' = Ready
    BY <1>4, <2>1
  <2>3. \A j \in Item : item'[j].time = item[j].time /\ item'[j].end \in {item[j].end, clock}
    BY <1>0, <2>1
  <2> QED BY <2>1, <2>2, <2>3 DEF Dated, Ready
<1>7. CASE Telemetry!Caller
  BY <1>3, <1>5, <1>6, <1>7
     DEF Telemetry!Caller, Telemetry!Collect, Telemetry!Log, Telemetry!Publish
<1>8. ASSUME NEW s \in Telemetry!Stream, Telemetry!Process(s) PROVE UNCHANGED <<clock, item, step>>
  BY <1>8 DEF Telemetry!Process, Telemetry!StoreMetric, Telemetry!StoreLog, Telemetry!StoreItem,
              Telemetry!StoreSpan, Telemetry!StoreSpanRow, Telemetry!StoreEvent, Telemetry!Notify,
              Telemetry!Offer
<1>9. CASE Telemetry!Subscriber
  BY <1>1, <1>9
     DEF Telemetry!Subscriber, Telemetry!Receive, Telemetry!Subscribe, Telemetry!Unsubscribe
<1>10. ASSUME NEW s \in Telemetry!Stream, Telemetry!Stop(s) PROVE UNCHANGED <<clock, item, step>>
  BY <1>10 DEF Telemetry!Stop
<1>11. CASE Telemetry!Cancel
  BY <1>1, <1>11 DEF Telemetry!Cancel
<1>12. CASE UNCHANGED Telemetry!vars
  BY <1>1, <1>12 DEF Telemetry!vars
<1> QED BY <1>1, <1>2, <1>7, <1>8, <1>9, <1>10, <1>11, <1>12 DEF Telemetry!Next

\* Where neither the spans that are stored nor the trace change.
LEMMA TraceFrame ==
  ASSUME QueryInv, UNCHANGED <<db, trace>>, stored'["traces"] = stored["traces"],
         \A i \in Telemetry!Range(stored["traces"]) :
           item'[i].time = item[i].time /\ item'[i].entity = item[i].entity
  PROVE  TraceInv'
<1> DEFINE spans == Telemetry!Range(stored["traces"])
<1>1. Telemetry!Range(stored["traces"])' = spans
  BY DEF Telemetry!Range
<1>2. CASE db \/ stored["traces"] = <<>>
  BY <1>2 DEF QueryInv, TraceInv
<1>3. CASE ~db /\ stored["traces"] # <<>>
  <2>1. Rebuilt
    BY <1>3 DEF QueryInv, TraceInv
  <2>2. {item'[i].entity : i \in spans} = {item[i].entity : i \in spans}
    OBVIOUS
  <2>3. PICK i \in spans : trace.start = item[i].time /\ \A j \in spans : item[i].time <= item[j].time
    BY <2>1 DEF Rebuilt
  <2>4. trace.start = item'[i].time /\ \A j \in spans : item'[i].time <= item'[j].time
    BY <2>3
  <2> HIDE DEF spans
  <2>5. Rebuilt'
    BY <1>1, <2>1, <2>2, <2>4 DEF Rebuilt, spans
  <2> QED BY <2>5 DEF QueryInv, TraceInv
<1> QED BY <1>2, <1>3

\* A span that is stored was accepted: it is not one that is stamped or sent.
LEMMA SpansSettled ==
  ASSUME TelemetryInv, NEW i \in Telemetry!Range(stored["traces"])
  PROVE  i \in Item /\ step[i] = "accepted" /\ item[i].entity \in Source /\ i \in Ready
<1>1. "traces" \in Telemetry!Stream
  BY DEF Telemetry!Stream
<1>2. PICK n \in DOMAIN stored["traces"] : i = stored["traces"][n]
  BY DEF Telemetry!Range
<1> QED BY <1>1, <1>2, StoredReady DEF Ready

\* rebuildTrace: the trace of the spans there are.
LEMMA RebuildRight ==
  ASSUME QueryInv, NEW spans \in Seq(Ready), spans # <<>>,
         \A n \in DOMAIN spans : item[spans[n]].entity \in Source
  PROVE  LET t == Telemetry!Rebuild(spans)
             of == Telemetry!Range(spans)
         IN  /\ t \in [start : Times, end : Times, of : SUBSET Source]
             /\ t.of = {item[i].entity : i \in of}
             /\ \E i \in of : t.start = item[i].time /\ \A j \in of : item[i].time <= item[j].time
<1> DEFINE of == Telemetry!Range(spans)
           starts == {item[i].time : i \in of}
           ends == {item[i].end : i \in of}
           t == Telemetry!Rebuild(spans)
<1>1. of \subseteq Ready /\ of # {}
  BY DEF Telemetry!Range
<1>2. EndOfTime \in Nat /\ Times \subseteq 0..EndOfTime
  BY TelemetryAssumption DEF Times
<1>3. starts \subseteq Times /\ ends \subseteq Times /\ starts # {} /\ ends # {}
  BY <1>1 DEF QueryInv, Dated
<1>4. \A i \in of : item[i].entity \in Source
  BY DEF Telemetry!Range
<1>5. t = [start |-> Telemetry!Min(starts), end |-> Telemetry!Max(ends),
           of |-> {item[i].entity : i \in of}]
  BY DEF Telemetry!Rebuild
<1> HIDE DEF starts, ends, of, t
<1>6. Telemetry!Min(starts) \in starts /\ \A x \in starts : Telemetry!Min(starts) <= x
  <2>1. \E x \in starts : \A z \in starts : x <= z
    BY <1>2, <1>3, Bounds
  <2> QED BY <2>1 DEF Telemetry!Min
<1>7. Telemetry!Max(ends) \in ends
  <2>1. \E x \in ends : \A z \in ends : z <= x
    BY <1>2, <1>3, Bounds
  <2> QED BY <2>1 DEF Telemetry!Max
<1>8. PICK i \in of : Telemetry!Min(starts) = item[i].time
  BY <1>6 DEF starts
<1>9. \A j \in of : item[i].time <= item[j].time
  BY <1>6, <1>8 DEF starts
<1>10. t \in [start : Times, end : Times, of : SUBSET Source]
  <2>1. {item[j].entity : j \in of} \in SUBSET Source
    BY <1>4
  <2>2. Telemetry!Min(starts) \in Times /\ Telemetry!Max(ends) \in Times
    BY <1>3, <1>6, <1>7
  <2> QED BY <1>5, <2>1, <2>2
<1>11. t.of = {item[j].entity : j \in of} /\ t.start = item[i].time
  BY <1>5, <1>8
<1> QED BY <1>9, <1>10, <1>11 DEF t, of

LEMMA TakenReady ==
  ASSUME TelemetryInv, NEW i \in Item, Telemetry!Take("traces", i)
  PROVE  i \in Ready /\ item[i].entity \in Source
<1> DEFINE a == accepted["traces"]
           b == buffer["traces"]
<1>1. /\ "traces" \in Telemetry!Stream /\ a \in Seq(Item) /\ b \in Seq(Item)
      /\ b # <<>> /\ i = Head(b) /\ Pipe(a, b, stored["traces"], failed)
  BY DEF Telemetry!Take, Telemetry!Stream, TelemetryInv, TelemetryTyped, Piped
<1>2. PICK k \in 1..Len(a) : i = a[k]
  <2>1. stored["traces"] \in Seq(Item)
    BY <1>1 DEF TelemetryInv, TelemetryTyped
  <2> HIDE DEF a, b
  <2> QED BY <1>1, <2>1, Beginning
<1>3. step[i] = "accepted"
  BY <1>1, <1>2 DEF TelemetryInv, Stamped
<1> QED BY <1>3 DEF Ready, TelemetryInv, Stamped

LEMMA TraceStep ==
  ASSUME QueryInv, [Telemetry!Next]_(Telemetry!vars) PROVE TraceInv'
<1> USE DEF Telemetry!call, Telemetry!pipe, Telemetry!hub
<1>0. /\ TelemetryInv /\ EndOfTime \in Nat /\ "traces" \in Telemetry!Stream
      /\ stored \in [Telemetry!Stream -> Seq(Item)]
      /\ item \in [Item -> [stream : Telemetry!Stream \cup {"none"}, entity : Source \cup {None},
                            time : Nat, end : Nat]]
  BY TelemetryAssumption DEF QueryInv, TelemetryInv, TelemetryTyped, Telemetry!Stream
<1>1. CASE UNCHANGED <<db, trace, stored, item>>
  BY <1>1, TraceFrame
<1>2. ASSUME NEW i \in Item, NEW s \in Telemetry!Stream, NEW e \in Source, Telemetry!Stamp(i, s, e)
      PROVE  TraceInv'
  <2>1. /\ step[i] = "none" /\ UNCHANGED <<db, trace, stored>>
        /\ item' = [item EXCEPT ![i] = [stream |-> s, entity |-> e, time |-> clock, end |-> clock]]
    BY <1>2 DEF Telemetry!Stamp
  <2>2. ASSUME NEW j \in Telemetry!Range(stored["traces"]) PROVE item'[j] = item[j]
    <3>1. j \in Item /\ j # i
      BY <1>0, <2>1, SpansSettled
    <3> QED BY <1>0, <2>1, <3>1
  <2> QED BY <2>1, <2>2, TraceFrame
<1>3. ASSUME NEW i \in Item, Telemetry!Finish(i) PROVE TraceInv'
  <2>1. UNCHANGED <<db, trace, stored>> /\ item' = [item EXCEPT ![i].end = clock]
    BY <1>3 DEF Telemetry!Finish
  <2>2. ASSUME NEW j \in Telemetry!Range(stored["traces"])
        PROVE  item'[j].time = item[j].time /\ item'[j].entity = item[j].entity
    <3>1. j \in Item
      BY <1>0, SpansSettled
    <3> QED BY <1>0, <2>1, <3>1
  <2> QED BY <2>1, <2>2, TraceFrame
<1>4. ASSUME NEW i \in Item, NEW s, Telemetry!Collects(i, s) PROVE TraceInv'
  BY <1>1, <1>4 DEF Telemetry!Collects
<1>5. CASE Telemetry!Caller
  BY <1>2, <1>3, <1>4, <1>5
     DEF Telemetry!Caller, Telemetry!Collect, Telemetry!Log, Telemetry!Publish
<1>6. ASSUME NEW s \in Telemetry!Stream \ {"traces"}, NEW i, UNCHANGED <<db, item, trace>>,
             Telemetry!Stores(s, i) \/ Telemetry!Refuses(i)
      PROVE  TraceInv'
  <2>1. stored'["traces"] = stored["traces"]
    BY <1>0, <1>6 DEF Telemetry!Stores, Telemetry!Refuses
  <2> QED BY <1>6, <2>1, TraceFrame
<1>7. ASSUME NEW s \in {"metrics", "logs"}, Telemetry!StoreItem(s) PROVE TraceInv'
  BY <1>6, <1>7 DEF Telemetry!StoreItem, Telemetry!Stream
<1>8. CASE Telemetry!StoreEvent
  BY <1>6, <1>8 DEF Telemetry!StoreEvent, Telemetry!Stream
<1>9. CASE Telemetry!StoreSpan
  <2>1. PICK i \in Item : Telemetry!Take("traces", i) /\ Telemetry!Stores("traces", i)
    BY <1>9 DEF Telemetry!StoreSpan
  <2>2. /\ stored' = [stored EXCEPT !["traces"] = Append(stored["traces"], i)]
        /\ UNCHANGED <<db, item, step>> /\ trace' = Telemetry!Rebuild(stored'["traces"])
    BY <1>9, <2>1 DEF Telemetry!StoreSpan, Telemetry!Stores
  <2> DEFINE spans == stored'["traces"]
  <2>3. spans # <<>>
    BY <1>0, <2>2
  <2>4. /\ spans \in Seq(Ready)
        /\ \A n \in DOMAIN spans : item[spans[n]].entity \in Source
    <3>1. /\ stored["traces"] \in Seq(Ready)
          /\ \A n \in DOMAIN stored["traces"] : item[stored["traces"][n]].entity \in Source
      BY <1>0, StoredReady
    <3>2. i \in Ready /\ item[i].entity \in Source
      BY <1>0, <2>1, TakenReady
    <3>3. spans = Append(stored["traces"], i)
      BY <1>0, <2>2
    <3> HIDE DEF spans
    <3> QED BY <3>1, <3>2, <3>3
  <2> DEFINE of == Telemetry!Range(spans)
  <2>5. /\ trace' \in [start : Times, end : Times, of : SUBSET Source]
        /\ trace'.of = {item[j].entity : j \in of}
        /\ \E j \in of : trace'.start = item[j].time /\ \A k \in of : item[j].time <= item[k].time
    <3> HIDE DEF spans
    <3>1. trace' = Telemetry!Rebuild(spans)
      BY <2>2 DEF spans
    <3> QED BY <2>3, <2>4, <3>1, RebuildRight
  <2>6. Telemetry!Range(stored["traces"])' = of
    BY DEF Telemetry!Range
  <2>7. trace'.end \in Times /\ trace' \in [start : Times, end : 0..EndOfTime, of : SUBSET Source]
    BY <1>0, <2>5 DEF Times
  <2>8. trace' # None
    BY <2>7, TelemetryAssumption DEF Times
  <2> HIDE DEF of
  <2>9. Rebuilt'
    BY <1>0, <2>2, <2>5, <2>6, <2>7, <2>8 DEF Rebuilt, Times
  <2> QED BY <2>7, <2>9 DEF TraceInv
<1>10. CASE Telemetry!StoreSpanRow
  <2>1. db /\ UNCHANGED <<db, item>>
    BY <1>10 DEF Telemetry!StoreSpanRow
  <2>2. PICK i \in Item, ok \in SUBSET {"row", "end", "span"} :
          Telemetry!Take("traces", i) /\ trace' = Telemetry!Row(i, ok)
    BY <1>10 DEF Telemetry!StoreSpanRow
  <2>3. i \in Ready /\ item[i].entity \in Source
    BY <1>0, <2>2, TakenReady
  <2>4. item[i].time \in Times /\ item[i].end \in Times
    BY <2>3 DEF QueryInv, Dated
  <2>5. trace' # None => trace' \in [start : Times, end : 0..EndOfTime, of : SUBSET Source]
    <3> DEFINE row == IF trace = None /\ "row" \in ok
                        THEN [start |-> item[i].time, end |-> 0, of |-> {item[i].entity}]
                        ELSE trace
    <3>1. row # None => row \in [start : Times, end : 0..EndOfTime, of : SUBSET Source]
      BY <1>0, <2>3, <2>4 DEF QueryInv, TraceInv
    <3>2. trace' = IF row # None /\ "end" \in ok /\ row.end < item[i].end
                     THEN [row EXCEPT !.end = item[i].end] ELSE row
      BY <2>2 DEF Telemetry!Row
    <3> HIDE DEF row
    <3> QED BY <2>4, <3>1, <3>2 DEF Times
  <2> QED BY <2>1, <2>5 DEF TraceInv
<1>11. CASE Telemetry!Notify
  BY <1>1, <1>11 DEF Telemetry!Notify, Telemetry!Offer
<1>12. ASSUME NEW s \in Telemetry!Stream, Telemetry!Process(s) PROVE TraceInv'
  BY <1>7, <1>8, <1>9, <1>10, <1>11, <1>12
     DEF Telemetry!Process, Telemetry!StoreMetric, Telemetry!StoreLog
<1>13. CASE Telemetry!Tick \/ Telemetry!Cancel \/ Telemetry!Subscriber \/ UNCHANGED Telemetry!vars
  BY <1>1, <1>13
     DEF Telemetry!Tick, Telemetry!Cancel, Telemetry!Subscriber, Telemetry!Receive,
         Telemetry!Subscribe, Telemetry!Unsubscribe, Telemetry!vars
<1>14. ASSUME NEW s \in Telemetry!Stream, Telemetry!Stop(s) PROVE TraceInv'
  BY <1>1, <1>14 DEF Telemetry!Stop
<1> QED BY <1>5, <1>12, <1>13, <1>14 DEF Telemetry!Next

\* Whatever was collected, stored and refused, in whatever order it was stamped
\* and sent, Correlate's timeline is in order and has all that is stored of the
\* entity in the range, but for the oldest where a statement reached its LIMIT; and
\* aggregateMetrics, in memory, counts each metric once.
THEOREM TelemetryQueriesRight == Telemetry!Spec => []QueriesRight
<1>1. Telemetry!Init => QueryInv
  <2> SUFFICES ASSUME Telemetry!Init PROVE QueryInv
    OBVIOUS
  <2>1. TelemetryInv
    BY TelemetryBegins
  <2>2. /\ clock = 1 /\ trace = None /\ stored["traces"] = <<>>
        /\ \A i \in Item : step[i] = "none"
    BY DEF Telemetry!Init, Telemetry!Stream
  <2> QED BY <2>1, <2>2, TelemetryAssumption DEF QueryInv, Dated, Ready, Times, TraceInv
<1>2. QueryInv /\ [Telemetry!Next]_(Telemetry!vars) => QueryInv'
  BY TelemetryStep, DatedStep, TraceStep DEF QueryInv
<1>3. QueryInv => QueriesRight
  BY QueriesFollow
<1> QED BY <1>1, <1>2, <1>3, PTL DEF Telemetry!Spec
=============================================================================
