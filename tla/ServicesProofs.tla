--------------------------- MODULE ServicesProofs ---------------------------
(***************************************************************************)
(* Theorems about the components that Services puts side by side.  Each is *)
(* about the component's own Spec, whatever the others do.                 *)
(***************************************************************************)
EXTENDS Services, Sequences, FiniteSetTheorems, WellFoundedInduction, TLAPS

-----------------------------------------------------------------------------
(* Breaker: failCount is never behind the failures since the last success, *)
(* so a streak that is long enough has opened the circuit.                 *)

BreakerInv ==
  /\ Breaker!TypeOK
  /\ streak <= failCount
  /\ streak >= Threshold => state = "open"

LEMMA BreakerStep == BreakerInv /\ [Breaker!Next]_(Breaker!vars) => BreakerInv'
<1> SUFFICES ASSUME BreakerInv, [Breaker!Next]_(Breaker!vars) PROVE BreakerInv'
  OBVIOUS
<1> USE BreakerAssumption DEF BreakerInv, Breaker!TypeOK, Breaker!Least
<1>1. CASE Breaker!Tick
  BY <1>1 DEF Breaker!Tick
<1>2. CASE Breaker!Reset
  BY <1>2 DEF Breaker!Reset
<1>3. ASSUME NEW k \in Caller, Breaker!AllowRequest(k) PROVE BreakerInv'
  BY <1>3 DEF Breaker!AllowRequest
<1>4. ASSUME NEW k \in Caller, Breaker!RecordSuccess(k) PROVE BreakerInv'
  BY <1>4 DEF Breaker!RecordSuccess
<1>5. ASSUME NEW k \in Caller, Breaker!RecordFailure(k) PROVE BreakerInv'
  BY <1>5 DEF Breaker!RecordFailure
<1>6. CASE UNCHANGED Breaker!vars
  BY <1>6 DEF Breaker!vars
<1> QED BY <1>1, <1>2, <1>3, <1>4, <1>5, <1>6 DEF Breaker!Next

LEMMA BreakerInvariant == Breaker!Spec => []BreakerInv
<1>1. Breaker!Init => BreakerInv
  BY BreakerAssumption DEF Breaker!Init, BreakerInv, Breaker!TypeOK
<1> QED BY <1>1, BreakerStep, PTL DEF Breaker!Spec

\* With any threshold, any timeout and any number of callers: when the last
\* outcomes, as many as the threshold, were failures, no call is let through
\* before the timeout is over (CircuitBreaker.AllowRequest, RecordFailure).
THEOREM BreakerFailsFast == Breaker!Spec => FailsFast
<1>1. BreakerInv /\ [Breaker!Next]_(Breaker!vars)
        => [streak >= Threshold /\ age <= ResetTimeout => calling' \subseteq calling]_(Breaker!vars)
  BY BreakerAssumption
     DEF BreakerInv, Breaker!TypeOK, Breaker!Next, Breaker!Tick, Breaker!Reset, Breaker!vars,
         Breaker!AllowRequest, Breaker!RecordSuccess, Breaker!RecordFailure
<1> QED BY <1>1, BreakerInvariant, PTL DEF Breaker!Spec, FailsFast, Breaker!FailsFast
-----------------------------------------------------------------------------
(* Idempotency: a mark that is gone, or was never made, leaves an ID that  *)
(* was last taken for new longer ago than the TTL.                         *)

IdempotencyInv ==
  /\ now \in 1..MaxClock
  /\ seen \in [RequestID -> Nat] /\ last \in [RequestID -> Nat]
  /\ unseen \in [Caller -> SUBSET RequestID]
  /\ \A r \in RequestID :
       /\ seen[r] \in {0, last[r]} /\ last[r] <= now
       /\ seen[r] = 0 => last[r] = 0 \/ now - last[r] > TTL

LEMMA IdempotencyStep ==
  IdempotencyInv /\ [Idempotency!Next]_(Idempotency!vars) => IdempotencyInv'
<1> SUFFICES ASSUME IdempotencyInv, [Idempotency!Next]_(Idempotency!vars)
             PROVE  IdempotencyInv'
  OBVIOUS
<1> USE IdempotencyAssumption DEF IdempotencyInv
<1>1. CASE Idempotency!Tick
  BY <1>1 DEF Idempotency!Tick
<1>2. CASE Idempotency!Cleanup
  BY <1>2 DEF Idempotency!Cleanup, Idempotency!Expired
<1>3. ASSUME NEW r \in RequestID, Idempotency!CheckAndMark(r) PROVE IdempotencyInv'
  BY <1>3 DEF Idempotency!CheckAndMark, Idempotency!Mark
<1>4. ASSUME NEW r \in RequestID, NEW k \in Caller, Idempotency!FindUnseen(k, r)
      PROVE  IdempotencyInv'
  BY <1>4 DEF Idempotency!FindUnseen
<1>5. ASSUME NEW r \in RequestID, NEW k \in Caller, Idempotency!MarkSeen(k, r)
      PROVE  IdempotencyInv'
  BY <1>5 DEF Idempotency!MarkSeen, Idempotency!Mark
<1>6. CASE UNCHANGED Idempotency!vars
  BY <1>6 DEF Idempotency!vars
<1> QED BY <1>1, <1>2, <1>3, <1>4, <1>5, <1>6 DEF Idempotency!Next

LEMMA IdempotencyInvariant == Idempotency!Spec => []IdempotencyInv
<1>1. Idempotency!Init => IdempotencyInv
  <2> SUFFICES ASSUME Idempotency!Init PROVE IdempotencyInv
    OBVIOUS
  <2> QED BY IdempotencyAssumption DEF Idempotency!Init, IdempotencyInv
<1> QED BY <1>1, IdempotencyStep, PTL DEF Idempotency!Spec

\* With any TTL, period of cleanups and number of callers and IDs: CheckAndMark
\* takes an ID for new only if it was neither taken for new nor marked within
\* the TTL (IdempotencyStore.CheckAndMark, MarkSeen, cleanup).
THEOREM IdempotencyOncePerTTL == Idempotency!Spec => OncePerTTL
<1>1. IdempotencyInv /\ [Idempotency!Next]_(Idempotency!vars)
        => [\A r \in RequestID :
              seen[r] = 0 /\ seen'[r] # 0 /\ UNCHANGED unseen
                => last[r] = 0 \/ now - last[r] > TTL]_(Idempotency!vars)
  BY DEF IdempotencyInv
<1> QED BY <1>1, IdempotencyInvariant, PTL
        DEF Idempotency!Spec, OncePerTTL, Idempotency!OncePerTTL

-----------------------------------------------------------------------------
(* Images: NamesLead is inductive once it is known that IDs are drawn in   *)
(* their order, so that a new image is newer than every other.             *)

DrawnInOrder == \A i, j \in Image : j < i /\ tag[i] # Nil => tag[j] # Nil

ImagesInv == Images!TypeOK /\ DrawnInOrder /\ Images!NamesLead

\* What NamesLead says of one name.
NameLeads(n) ==
  IF images[n] = Nil THEN \A i \in standing : tag[i] # n
  ELSE /\ images[n] \in disk \cap standing /\ tag[images[n]] = n
       /\ \A i \in standing \cup (disk \cap whole) : tag[i] = n => i <= images[n]

LEMMA LeadEach == Images!NamesLead => \A n \in Name : NameLeads(n)
  BY DEF Images!NamesLead, NameLeads

\* A new image has no directory yet, no key, and the highest number.
LEMMA FreshIsNew ==
  ASSUME ImagesInv, NEW i \in Image, Images!Fresh(i)
  PROVE  /\ i \notin disk /\ i \notin whole /\ i \notin byName /\ i \notin standing
         /\ \A j \in Image : tag[j] # Nil => j < i
<1>1. i \notin disk /\ i \notin whole /\ i \notin byName /\ i \notin standing
  BY DEF ImagesInv, Images!TypeOK, Images!Fresh
<1>2. ASSUME NEW j \in Image, tag[j] # Nil PROVE j < i
  <2>1. j # i /\ ~(i < j)
    BY <1>2 DEF ImagesInv, DrawnInOrder, Images!Fresh
  <2> QED BY <2>1, ImagesAssumption
<1> QED BY <1>1, <1>2

\* BuildImage and ImportImage, whatever becomes of the directory.
LEMMA MadeKeeps ==
  ASSUME ImagesInv, NEW i \in Image, NEW n \in Name, Images!Fresh(i),
         tag' = [tag EXCEPT ![i] = n],
         \/ disk' = disk \cup {i} /\ whole' \in {whole, whole \cup {i}}
         \/ UNCHANGED <<disk, whole>>,
         Images!Record(i, n), UNCHANGED byName
  PROVE  ImagesInv'
<1>1. /\ i \notin disk /\ i \notin whole /\ i \notin byName /\ i \notin standing
      /\ \A j \in Image : tag[j] # Nil => j < i
  BY FreshIsNew
<1>2. n # Nil /\ i # n /\ i # Nil /\ \A j \in Image : j \notin Name
  BY ImagesAssumption
<1>3. /\ images' = IF i \in whole' THEN [images EXCEPT ![i] = i, ![n] = i] ELSE images
      /\ standing' = IF i \in whole' THEN standing \cup {i} ELSE standing
      /\ disk' \subseteq disk \cup {i} /\ disk \subseteq disk'
      /\ whole' \subseteq whole \cup {i} /\ whole \subseteq whole'
      /\ i \in whole' => i \in disk'
  BY <1>1 DEF Images!Record
<1>4. /\ tag'[i] = n
      /\ \A j \in Image : j # i => tag'[j] = tag[j]
  BY DEF ImagesInv, Images!TypeOK
<1>5. Images!TypeOK'
  BY <1>2, <1>3, <1>4 DEF ImagesInv, Images!TypeOK
<1>6. DrawnInOrder'
  BY <1>2, <1>4 DEF ImagesInv, DrawnInOrder, Images!Fresh
<1>7. Images!NamesLead'
  <2>1. CASE i \in whole'
    <3>1. /\ images'[i] = i /\ images'[n] = i
          /\ \A k \in Image \cup Name : k # i /\ k # n => images'[k] = images[k]
      BY <1>2, <1>3, <2>1 DEF ImagesInv, Images!TypeOK
    <3>2. \A m \in Name : m # n => images'[m] = images[m]
      BY <1>2, <3>1
    <3>3. /\ disk \cup standing \subseteq Image
          /\ \A j \in standing \cup (disk \cap whole) : j < i
      BY <1>1 DEF ImagesInv, Images!TypeOK
    <3>4. ASSUME NEW m \in Name PROVE NameLeads(m)'
      <4>1. CASE m = n
        <5>1. \A j \in standing' \cup (disk' \cap whole') : j \in Nat /\ i \in Nat /\ (j = i \/ j < i)
          <6>1. \A j \in standing' \cup (disk' \cap whole') :
                  j = i \/ j \in standing \cup (disk \cap whole)
            BY <1>3
          <6> QED BY <3>3, <6>1, ImagesAssumption
        <5>2. images'[m] = i /\ i \in disk' \cap standing' /\ tag'[i] = m
          BY <1>3, <1>4, <2>1, <3>1, <4>1
        <5>3. \A j \in standing' \cup (disk' \cap whole') : j <= i
          BY <5>1
        <5> QED BY <1>2, <5>2, <5>3 DEF NameLeads
      <4>2. CASE m # n
        <5>1. images'[m] = images[m] /\ NameLeads(m)
          BY <3>2, <4>2, LeadEach DEF ImagesInv
        <5>2. ASSUME NEW j \in standing' \cup (disk' \cap whole'), tag'[j] = m
              PROVE  j \in standing \cup (disk \cap whole) /\ tag[j] = m
          <6>1. j # i
            BY <1>4, <4>2, <5>2
          <6>2. j \in standing \cup (disk \cap whole) /\ j \in Image
            BY <1>3, <3>3, <6>1
          <6> QED BY <1>4, <5>2, <6>1, <6>2
        <5>3. CASE images[m] = Nil
          <6>1. ASSUME NEW j \in standing' PROVE tag'[j] # m
            <7>1. j = i \/ (j \in standing /\ j \in Image /\ j # i)
              BY <1>3, <3>3
            <7> QED BY <1>4, <4>2, <5>1, <5>3, <7>1 DEF NameLeads
          <6> QED BY <5>1, <5>3, <6>1 DEF NameLeads
        <5>4. CASE images[m] # Nil
          <6>1. images[m] \in disk' \cap standing' /\ images[m] # i /\ images[m] \in Image
            BY <1>1, <1>3, <3>3, <5>1, <5>4 DEF NameLeads
          <6>2. tag'[images[m]] = m
            BY <1>4, <5>1, <5>4, <6>1 DEF NameLeads
          <6> QED BY <5>1, <5>2, <5>4, <6>1, <6>2 DEF NameLeads
        <5> QED BY <5>3, <5>4
      <4> QED BY <4>1, <4>2
    <3>5. \A j \in disk' \cap whole' : images'[j] = j
      BY <1>2, <1>3, <3>1 DEF ImagesInv, Images!TypeOK, Images!NamesLead
    <3>6. \A j \in Image : images'[j] # Nil => images'[j] = j /\ (j \in disk' \/ j \in byName')
      BY <1>2, <1>3, <2>1, <3>1 DEF ImagesInv, Images!TypeOK, Images!NamesLead
    <3> QED BY <3>4, <3>5, <3>6 DEF Images!NamesLead, NameLeads
  <2>2. CASE i \notin whole'
    <3>1. /\ images' = images /\ whole' = whole /\ disk' \cap whole' = disk \cap whole
          /\ standing' = standing
      BY <1>1, <1>3, <2>2
    <3>2. \A j \in disk \cup standing : tag'[j] = tag[j]
      BY <1>1, <1>4 DEF ImagesInv, Images!TypeOK
    <3>3. ASSUME NEW m \in Name PROVE NameLeads(m)'
      <4>1. NameLeads(m)
        BY LeadEach DEF ImagesInv
      <4>2. CASE images[m] = Nil
        BY <3>1, <3>2, <4>1, <4>2 DEF NameLeads
      <4>3. CASE images[m] # Nil
        BY <1>3, <3>1, <3>2, <4>1, <4>3 DEF NameLeads
      <4> QED BY <4>2, <4>3
    <3>4. /\ \A j \in disk' \cap whole' : images'[j] = j
          /\ \A j \in Image : images'[j] # Nil => images'[j] = j /\ (j \in disk' \/ j \in byName')
      BY <1>3, <3>1 DEF ImagesInv, Images!NamesLead
    <3> QED BY <3>3, <3>4 DEF Images!NamesLead, NameLeads
  <2> QED BY <2>1, <2>2
<1> QED BY <1>5, <1>6, <1>7 DEF ImagesInv

\* RemoveImage: the name that goes with the image is that of no other one.
LEMMA RemoveKeeps ==
  ASSUME ImagesInv, NEW k \in Image \cup Name, Images!Remove(k)
  PROVE  ImagesInv'
<1> DEFINE v == images[k]
<1>1. /\ v # Nil
      /\ disk' = disk \ {v}
      /\ images' = [images EXCEPT ![k] = Nil, ![tag[v]] = Nil]
      /\ byName' = IF k \in Name THEN byName \cup {v} ELSE byName
      /\ standing' = {i \in standing : tag[i] # tag[v]}
      /\ tag' = tag /\ whole' = whole
  BY DEF Images!Remove, Images!Removed
<1>2. v \in Image /\ tag[v] \in Name /\ (k \in Name => tag[v] = k) /\ (k \in Image => v = k)
  BY <1>1, ImagesAssumption DEF ImagesInv, Images!TypeOK, Images!NamesLead
<1> HIDE DEF v
<1>3. /\ images'[k] = Nil /\ images'[tag[v]] = Nil
      /\ \A x \in Image \cup Name : x # k /\ x # tag[v] => images'[x] = images[x]
  BY <1>1, <1>2 DEF ImagesInv, Images!TypeOK
<1>4. Images!TypeOK' /\ DrawnInOrder'
  <2>1. images' \in [Image \cup Name -> Image \cup {Nil}]
    BY <1>1, <1>2 DEF ImagesInv, Images!TypeOK
  <2>2. whole' \cup disk' \cup byName' \cup standing' \subseteq {i \in Image : tag'[i] # Nil}
    BY <1>1, <1>2, ImagesAssumption DEF ImagesInv, Images!TypeOK
  <2> QED BY <1>1, <2>1, <2>2 DEF ImagesInv, Images!TypeOK, DrawnInOrder
<1>5. \A n \in Name : images'[n] # Nil => images'[n] = images[n] /\ n # tag[v] /\ images[n] # v
  BY <1>1, <1>2, <1>3 DEF ImagesInv, Images!NamesLead
<1>6. \A i \in Image : i \notin Name
  BY ImagesAssumption
<1>7. \A i \in disk' \cap whole' : images'[i] = i
  BY <1>1, <1>2, <1>3, <1>6 DEF ImagesInv, Images!TypeOK, Images!NamesLead
<1>8. \A i \in Image : images'[i] # Nil => images'[i] = i /\ (i \in disk' \/ i \in byName')
  BY <1>1, <1>2, <1>3, <1>6 DEF ImagesInv, Images!NamesLead
<1>9. ASSUME NEW n \in Name PROVE NameLeads(n)'
  <2>0. NameLeads(n)
    BY LeadEach DEF ImagesInv
  <2>1. CASE images'[n] = Nil
    <3>1. n = tag[v] \/ images[n] = Nil
      BY <1>2, <1>3, <1>6, <2>1
    <3>2. \A i \in standing' : tag'[i] # n
      BY <1>1, <2>0, <3>1 DEF NameLeads
    <3> QED BY <2>1, <3>2 DEF NameLeads
  <2>2. CASE images'[n] # Nil
    <3>1. images'[n] = images[n] /\ images[n] # v /\ images[n] # Nil /\ n # tag[v]
      BY <1>5, <2>2
    <3>2. /\ images[n] \in disk \cap standing /\ tag[images[n]] = n
          /\ \A i \in standing \cup (disk \cap whole) : tag[i] = n => i <= images[n]
      BY <2>0, <3>1 DEF NameLeads
    <3>3. images'[n] \in disk' \cap standing' /\ tag'[images'[n]] = n
      BY <1>1, <3>1, <3>2
    <3>4. \A i \in standing' \cup (disk' \cap whole') : tag'[i] = n => i <= images'[n]
      BY <1>1, <3>1, <3>2
    <3> QED BY <2>2, <3>3, <3>4 DEF NameLeads
  <2> QED BY <2>1, <2>2
<1> QED BY <1>4, <1>7, <1>8, <1>9 DEF ImagesInv, Images!NamesLead, NameLeads

LEMMA ImagesStep == ImagesInv /\ [Images!Next]_(Images!vars) => ImagesInv'
<1> SUFFICES ASSUME ImagesInv, [Images!Next]_(Images!vars) PROVE ImagesInv'
  OBVIOUS
<1>1. ASSUME NEW i \in Image, NEW n \in Name, Images!BuildImage(i, n) PROVE ImagesInv'
  BY <1>1, MadeKeeps DEF Images!BuildImage, Images!copyDir
<1>2. ASSUME NEW i \in Image, NEW n \in Name, Images!ImportImage(i, n) PROVE ImagesInv'
  BY <1>2, MadeKeeps DEF Images!ImportImage, Images!extractTarGz
<1>3. ASSUME NEW k \in Image \cup Name, Images!Remove(k) PROVE ImagesInv'
  BY <1>3, RemoveKeeps
<1>4. ASSUME NEW k \in Image \cup Name, Images!RemoveFails(k) PROVE ImagesInv'
  BY <1>4 DEF Images!RemoveFails, ImagesInv, Images!TypeOK, DrawnInOrder, Images!NamesLead
<1>5. CASE UNCHANGED Images!vars
  BY <1>5 DEF Images!vars, ImagesInv, Images!TypeOK, DrawnInOrder, Images!NamesLead
<1> QED BY <1>1, <1>2, <1>3, <1>4, <1>5 DEF Images!Next

LEMMA ImagesInvariant == Images!Spec => []ImagesInv
<1>1. Images!Init => ImagesInv
  BY ImagesAssumption DEF Images!Init, ImagesInv, Images!TypeOK, DrawnInOrder, Images!NamesLead
<1> QED BY <1>1, ImagesStep, PTL DEF Images!Spec

\* For any images and names, with directories half made or half removed: a name
\* leads to the newest image made under it since one of that name was last removed
\* and to none if there are none, and an ID to its own (RealContainerRuntime.images).
THEOREM ImagesNamesLead == Images!Spec => []NamesLead
<1>1. ImagesInv => NamesLead
  BY DEF ImagesInv, NamesLead
<1> QED BY <1>1, ImagesInvariant, PTL

-----------------------------------------------------------------------------
(* Workloads: a container whose Paused flag is set runs, unless it was     *)
(* stopped in that state; and the addresses a network computed are below   *)
(* the next one, until an endpoint is taken from it.                       *)

BoxesTyped ==
  /\ status \in [Container -> {"none", "created", "running", "paused", "exited", "removed"}]
  /\ running \cup paused \subseteq {c \in Container : Workloads!Exists(c)}

CallsTyped == calls \in
  [Client -> [op : {"idle", "start", "look"} \cup Container, left : SUBSET Container]]

PausedRuns == \A c \in paused \ odd : c \in running

BoxesInv == BoxesTyped /\ CallsTyped /\ PausedRuns /\ Workloads!StatusAgrees

\* One call of the runtime.
BoxStep == UNCHANGED <<status, running, paused, odd>> \/ \E c \in Container : Workloads!Once(c)

LEMMA OnceKeeps ==
  ASSUME BoxesInv, BoxStep
  PROVE  BoxesTyped' /\ PausedRuns' /\ Workloads!StatusAgrees'
<1> USE DEF BoxesInv, BoxesTyped, PausedRuns, Workloads!StatusAgrees, Workloads!Exists
<1>1. ASSUME NEW c \in Container, Workloads!Create(c)
      PROVE  BoxesTyped' /\ PausedRuns' /\ Workloads!StatusAgrees'
  BY <1>1 DEF Workloads!Create
<1>2. ASSUME NEW c \in Container, Workloads!Start(c)
      PROVE  BoxesTyped' /\ PausedRuns' /\ Workloads!StatusAgrees'
  BY <1>2 DEF Workloads!Start, Workloads!Startable
<1>3. ASSUME NEW c \in Container, Workloads!Stop(c)
      PROVE  BoxesTyped' /\ PausedRuns' /\ Workloads!StatusAgrees'
  BY <1>3 DEF Workloads!Stop
<1>4. ASSUME NEW c \in Container, Workloads!Pause(c)
      PROVE  BoxesTyped' /\ PausedRuns' /\ Workloads!StatusAgrees'
  BY <1>4 DEF Workloads!Pause
<1>5. ASSUME NEW c \in Container, Workloads!Unpause(c)
      PROVE  BoxesTyped' /\ PausedRuns' /\ Workloads!StatusAgrees'
  BY <1>5 DEF Workloads!Unpause
<1>6. ASSUME NEW c \in Container, NEW force \in BOOLEAN, Workloads!Remove(c, force)
      PROVE  BoxesTyped' /\ PausedRuns' /\ Workloads!StatusAgrees'
  BY <1>6 DEF Workloads!Remove, Workloads!Removable
<1>7. CASE UNCHANGED <<status, running, paused, odd>>
  BY <1>7
<1> QED BY <1>1, <1>2, <1>3, <1>4, <1>5, <1>6, <1>7 DEF BoxStep, Workloads!Once

\* Whatever the manager does is one call of the runtime at most, and a caller
\* that is about to remove a container leaves one alone that runs.
LEMMA ManagerKeeps ==
  ASSUME BoxesInv, NEW k \in Client, Workloads!Manager(k)
  PROVE  /\ BoxStep /\ CallsTyped'
         /\ \A j \in Client \ {k} : calls'[j] = calls[j]
         /\ \A c \in Container : calls[k].op = c /\ c \in running => status'[c] # "removed"
<1> USE DEF BoxStep, Workloads!Once, Workloads!Then, Workloads!Idle, Workloads!boxes
<1>1. ASSUME NEW c \in Container, calls[k].op = c
      PROVE  calls[k].op \notin {"idle", "start", "look"}
  BY <1>1, WorkloadsAssumption
<1>2. CASE \E c \in Container : Workloads!Run(k, c)
  BY <1>1, <1>2 DEF Workloads!Run, BoxesInv, CallsTyped
<1>3. CASE \E c \in Container : Workloads!Restart(k, c)
  BY <1>1, <1>3 DEF Workloads!Restart, BoxesInv, CallsTyped
<1>4. CASE Workloads!StartAfter(k)
  BY <1>1, <1>4 DEF Workloads!StartAfter, BoxesInv, CallsTyped
<1>5. CASE Workloads!Prune(k)
  BY <1>1, <1>5 DEF Workloads!Prune, BoxesInv, CallsTyped
<1>6. CASE Workloads!PruneLook(k)
  BY <1>1, <1>6 DEF Workloads!PruneLook, BoxesInv, CallsTyped
<1>7. CASE Workloads!PruneRemove(k)
  <2> DEFINE c == calls[k].op
  <2>1. /\ c \in Container
        /\ \/ Workloads!Remove(c, FALSE)
           \/ UNCHANGED <<status, running, paused, odd>>
        /\ calls' = [calls EXCEPT ![k] = [op |-> "look", left |-> calls[k].left]]
    BY <1>7 DEF Workloads!PruneRemove
  <2>2. BoxStep
    BY <2>1
  <2>3. c \in running => status'[c] # "removed"
    BY <2>1 DEF Workloads!Remove, Workloads!Removable, BoxesInv, BoxesTyped, Workloads!Exists
  <2>4. CallsTyped' /\ \A j \in Client \ {k} : calls'[j] = calls[j]
    BY <2>1 DEF BoxesInv, CallsTyped
  <2> QED BY <2>2, <2>3, <2>4
<1> QED BY <1>2, <1>3, <1>4, <1>5, <1>6, <1>7 DEF Workloads!Manager

LEMMA BoxesStep == BoxesInv /\ [Workloads!Next]_(Workloads!vars) => BoxesInv'
<1> SUFFICES ASSUME BoxesInv, [Workloads!Next]_(Workloads!vars) PROVE BoxesInv'
  OBVIOUS
<1>1. BoxStep /\ CallsTyped'
  <2>1. CASE \E k \in Client : Workloads!Manager(k)
    BY <2>1, ManagerKeeps
  <2>2. CASE (\E c \in Container : Workloads!Once(c)) /\ UNCHANGED calls
    BY <2>2 DEF BoxStep, BoxesInv, CallsTyped
  <2>3. CASE Workloads!Network /\ UNCHANGED <<Workloads!boxes, calls>>
    BY <2>3 DEF BoxStep, BoxesInv, CallsTyped, Workloads!boxes
  <2>4. CASE (\E k \in Client : Workloads!PruneEnds(k)) /\ UNCHANGED Workloads!boxes
    BY <2>4 DEF BoxStep, BoxesInv, CallsTyped, Workloads!boxes, Workloads!PruneEnds, Workloads!Idle
  <2>5. CASE UNCHANGED Workloads!vars
    BY <2>5 DEF BoxStep, BoxesInv, CallsTyped, Workloads!boxes, Workloads!vars
  <2> QED BY <2>1, <2>2, <2>3, <2>4, <2>5 DEF Workloads!Next
<1> QED BY <1>1, OnceKeeps DEF BoxesInv

LEMMA BoxesInvariant == Workloads!Spec => []BoxesInv
<1>1. Workloads!Init => BoxesInv
  BY DEF Workloads!Init, Workloads!Idle, Workloads!Exists, BoxesInv, BoxesTyped, CallsTyped,
         PausedRuns, Workloads!StatusAgrees
<1> QED BY <1>1, BoxesStep, PTL DEF Workloads!Spec

\* For any containers and callers: a container's status and its Running flag
\* agree, unless it was stopped while it was paused (ContainerRuntime's calls).
THEOREM WorkloadsStatusAgrees == Workloads!Spec => []StatusAgrees
<1>1. BoxesInv => StatusAgrees
  BY DEF BoxesInv, StatusAgrees
<1> QED BY <1>1, BoxesInvariant, PTL

\* For any containers and callers of the manager: Prune, which looks without the
\* lock and removes later, never removes a container that runs (Manager.Prune).
THEOREM WorkloadsPruneSpares == Workloads!Spec => PruneSpares
<1>1. BoxesInv /\ [Workloads!Next]_(Workloads!vars)
        => [\A k \in Client, c \in Container :
              calls[k].op = c /\ calls'[k] # calls[k] /\ c \in running
                => status'[c] # "removed"]_(Workloads!vars)
  <2> SUFFICES ASSUME BoxesInv, Workloads!Next, NEW k \in Client, NEW c \in Container,
                      calls[k].op = c, calls'[k] # calls[k], c \in running
               PROVE  status'[c] # "removed"
    OBVIOUS
  <2>1. CASE \E j \in Client : Workloads!Manager(j)
    BY <2>1, ManagerKeeps
  <2>2. CASE (\E j \in Client : Workloads!PruneEnds(j)) /\ UNCHANGED Workloads!boxes
    BY <2>2, WorkloadsAssumption DEF Workloads!boxes, BoxesInv, BoxesTyped, Workloads!Exists
  <2> QED BY <2>1, <2>2 DEF Workloads!Next
<1> QED BY <1>1, BoxesInvariant, PTL DEF Workloads!Spec, PruneSpares, Workloads!PruneSpares

\* The instance's Cardinality is that of FiniteSets.
LEMMA SameCardinality == \A S : Workloads!Cardinality(S) = Cardinality(S)
  BY DEF Workloads!Cardinality, Cardinality

\* The endpoints whose address the network computed.
Own(n) == {c \in DOMAIN address[n] : <<n, c>> \notin given}

NetsInv ==
  /\ DOMAIN address = Workloads!AnyNet
  /\ address = [n \in Workloads!AnyNet |-> address[n]]
  /\ Workloads!IsInjective(name)
  /\ \A n \in Workloads!AnyNet :
       /\ n \notin DOMAIN name => DOMAIN address[n] = {}
       /\ IsFiniteSet(DOMAIN address[n])
       /\ n \notin freed => \A c \in Own(n) :
            address[n][c] \in Nat /\ address[n][c] < Workloads!NextAddress(n)
       /\ n \notin freed => \A c, d \in Own(n) : address[n][c] = address[n][d] => c = d

\* One call of the network manager: a name is given, taken away, or an endpoint changes.
LEMMA NetworkKeeps ==
  ASSUME NetsInv, Workloads!Network \/ Workloads!PruneNetworks
  PROVE  NetsInv'
<1>1. ASSUME NEW n \in Workloads!AnyNet, NEW m \in NetName, Workloads!CreateNetwork(n, m)
      PROVE  NetsInv'
  <2>1. Workloads!IsInjective(name')
    BY <1>1 DEF Workloads!CreateNetwork, NetsInv, Workloads!IsInjective
  <2>2. DOMAIN name' = DOMAIN name \cup {n} /\ UNCHANGED <<address, freed, given>>
    BY <1>1 DEF Workloads!CreateNetwork
  <2> QED BY <2>1, <2>2 DEF NetsInv, Own, Workloads!NextAddress, Workloads!IsInjective
<1>2. ASSUME NEW gone, name' = Workloads!Without(name, gone), UNCHANGED <<address, freed, given>>,
             \A n \in Workloads!AnyNet : n \in gone => DOMAIN address[n] = {}
      PROVE  NetsInv'
  <2>1. /\ DOMAIN name' = DOMAIN name \ gone
        /\ \A n \in DOMAIN name' : name'[n] = name[n]
    BY <1>2 DEF Workloads!Without, Workloads!Restrict
  <2>2. Workloads!IsInjective(name')
    BY <2>1 DEF NetsInv, Workloads!IsInjective
  <2> QED BY <1>2, <2>1, <2>2 DEF NetsInv, Own, Workloads!NextAddress, Workloads!IsInjective
<1>3. ASSUME NEW n \in Workloads!AnyNet, Workloads!RemoveNetwork(n) PROVE NetsInv'
  BY <1>2, <1>3 DEF Workloads!RemoveNetwork, Workloads!Empty
<1>4. CASE Workloads!PruneNetworks
  BY <1>2, <1>4 DEF Workloads!PruneNetworks, Workloads!Empty
<1>5. ASSUME NEW n \in Workloads!AnyNet, NEW c \in Container,
             \/ Workloads!Connect(n, c)
             \/ \E a \in Given : Workloads!ConnectAt(n, c, a)
      PROVE  NetsInv'
  <2> DEFINE ends == DOMAIN address[n]
             next == Workloads!NextAddress(n)
  <2>1. PICK a : /\ n \in DOMAIN name /\ c \notin ends
                 /\ address' = [address EXCEPT ![n] =
                      [x \in ends \cup {c} |-> IF x = c THEN a ELSE address[n][x]]]
                 /\ UNCHANGED <<name, freed>>
                 /\ \/ a = next /\ given' = given
                    \/ given' = given \cup {<<n, c>>}
    BY <1>5 DEF Workloads!Connect, Workloads!ConnectAt, Workloads!Endpoint
  <2> DEFINE new == [x \in ends \cup {c} |-> IF x = c THEN a ELSE address[n][x]]
  <2>2. /\ IsFiniteSet(ends \cup {c})
        /\ Cardinality(ends) \in Nat
        /\ Cardinality(ends \cup {c}) = Cardinality(ends) + 1
    BY <2>1, FS_AddElement, FS_CardinalityType DEF NetsInv
  <2>3. address'[n] = new /\ \A m \in Workloads!AnyNet \ {n} : address'[m] = address[m]
    BY <2>1 DEF NetsInv
  <2>4. DOMAIN new = ends \cup {c} /\ new[c] = a /\ \A x \in ends : new[x] = address[n][x]
    BY <2>1
  <2>5. next \in Nat /\ Workloads!NextAddress(n)' = next + 1
    <3>1. next = Cardinality(ends) + 2
      BY SameCardinality DEF Workloads!NextAddress
    <3>2. Workloads!NextAddress(n)' = Cardinality(ends \cup {c}) + 2
      BY <2>3, <2>4, SameCardinality DEF Workloads!NextAddress
    <3> QED BY <2>2, <3>1, <3>2
  <2>6. n \notin freed => \A x \in Own(n) : address[n][x] \in Nat /\ address[n][x] < next
    BY DEF NetsInv
  <2>7. \A x \in Own(n)' : x \in Own(n) \/ (x = c /\ a = next)
    BY <2>1, <2>3, <2>4 DEF Own
  <2>9. address' = [m \in Workloads!AnyNet |-> address'[m]] /\ DOMAIN address' = Workloads!AnyNet
    BY <2>1 DEF NetsInv
  <2>8. n \notin freed => \A x, y \in Own(n) : address[n][x] = address[n][y] => x = y
    BY DEF NetsInv
  <2>12. \A x \in Own(n) : x \in ends
    BY DEF Own
  <2> HIDE DEF new, next, ends
  <2>10. ASSUME NEW m \in Workloads!AnyNet, m # n
         PROVE  /\ address'[m] = address[m] /\ Own(m)' = Own(m)
                /\ Workloads!NextAddress(m)' = Workloads!NextAddress(m)
    <3>1. address'[m] = address[m] /\ \A x : <<m, x>> \in given' <=> <<m, x>> \in given
      BY <2>1, <2>3, <2>10
    <3> QED BY <3>1 DEF Workloads!NextAddress, Own
  <2>11. \A m \in Workloads!AnyNet :
           /\ m \notin DOMAIN name => DOMAIN address'[m] = {}
           /\ IsFiniteSet(DOMAIN address'[m])
           /\ m \notin freed => \A x \in Own(m)' :
                address'[m][x] \in Nat /\ address'[m][x] < Workloads!NextAddress(m)'
           /\ m \notin freed => \A x, y \in Own(m)' : address'[m][x] = address'[m][y] => x = y
    <3> TAKE m \in Workloads!AnyNet
    <3>1. CASE m = n
      <4>1. n \notin freed => \A x \in Own(n)' : new[x] \in Nat /\ new[x] < next + 1
        BY <2>4, <2>5, <2>6, <2>7, <2>12
      <4>2. n \notin freed => \A x, y \in Own(n)' : new[x] = new[y] => x = y
        BY <2>1, <2>4, <2>5, <2>6, <2>7, <2>8, <2>12
      <4> QED BY <2>1, <2>2, <2>3, <2>4, <2>5, <3>1, <4>1, <4>2
    <3>2. CASE m # n
      <4>1. /\ address'[m] = address[m] /\ Own(m)' = Own(m)
            /\ Workloads!NextAddress(m)' = Workloads!NextAddress(m)
        BY <2>10, <3>2
      <4> QED BY <4>1 DEF NetsInv
    <3> QED BY <3>1, <3>2
  <2> QED BY <2>1, <2>9, <2>11 DEF NetsInv, Workloads!IsInjective
<1>6. ASSUME NEW n \in Workloads!AnyNet, NEW c \in Container, Workloads!Disconnect(n, c)
      PROVE  NetsInv'
  <2> DEFINE new == Workloads!Without(address[n], {c})
  <2>1. /\ n \in DOMAIN name /\ DOMAIN new = DOMAIN address[n] \ {c}
        /\ address' = [address EXCEPT ![n] = new]
        /\ freed' = freed \cup {n} /\ given' = given \ {<<n, c>>} /\ UNCHANGED name
    BY <1>6 DEF Workloads!Disconnect, Workloads!Without, Workloads!Restrict
  <2>2. IsFiniteSet(DOMAIN new)
    BY <2>1, FS_RemoveElement DEF NetsInv
  <2> HIDE DEF new
  <2>3. address'[n] = new /\ \A m \in Workloads!AnyNet \ {n} : address'[m] = address[m]
    BY <2>1 DEF NetsInv
  <2>4. address' = [m \in Workloads!AnyNet |-> address'[m]] /\ DOMAIN address' = Workloads!AnyNet
    BY <2>1 DEF NetsInv
  <2>5. ASSUME NEW m \in Workloads!AnyNet, m # n
        PROVE  /\ address'[m] = address[m] /\ Own(m)' = Own(m)
               /\ Workloads!NextAddress(m)' = Workloads!NextAddress(m)
    <3>1. address'[m] = address[m] /\ \A x : <<m, x>> \in given' <=> <<m, x>> \in given
      BY <2>1, <2>3, <2>5
    <3> QED BY <3>1 DEF Workloads!NextAddress, Own
  <2>6. \A m \in Workloads!AnyNet :
          /\ m \notin DOMAIN name' => DOMAIN address'[m] = {}
          /\ IsFiniteSet(DOMAIN address'[m])
          /\ m \notin freed' => \A x \in Own(m)' :
               address'[m][x] \in Nat /\ address'[m][x] < Workloads!NextAddress(m)'
          /\ m \notin freed' => \A x, y \in Own(m)' : address'[m][x] = address'[m][y] => x = y
    <3> TAKE m \in Workloads!AnyNet
    <3>1. CASE m = n
      BY <2>1, <2>2, <2>3, <3>1
    <3>2. CASE m # n
      <4>1. /\ address'[m] = address[m] /\ Own(m)' = Own(m)
            /\ Workloads!NextAddress(m)' = Workloads!NextAddress(m)
            /\ name' = name /\ (m \in freed' <=> m \in freed)
        BY <2>1, <2>5, <3>2
      <4> QED BY <4>1 DEF NetsInv
    <3> QED BY <3>1, <3>2
  <2> QED BY <2>1, <2>4, <2>6 DEF NetsInv, Workloads!IsInjective
<1> QED BY <1>1, <1>3, <1>4, <1>5, <1>6 DEF Workloads!Network

LEMMA NetsStep == NetsInv /\ [Workloads!Next]_(Workloads!vars) => NetsInv'
<1> SUFFICES ASSUME NetsInv, [Workloads!Next]_(Workloads!vars) PROVE NetsInv'
  OBVIOUS
<1>1. CASE Workloads!Network
  BY <1>1, NetworkKeeps
<1>2. CASE \E k \in Client : Workloads!PruneEnds(k)
  BY <1>2, NetworkKeeps DEF Workloads!PruneEnds
<1>3. CASE UNCHANGED Workloads!nets
  BY <1>3 DEF Workloads!nets, NetsInv, Own, Workloads!NextAddress, Workloads!IsInjective
<1> QED BY <1>1, <1>2, <1>3 DEF Workloads!Next, Workloads!vars

LEMMA NetsInvariant == Workloads!Spec => []NetsInv
<1>1. Workloads!Init => NetsInv
  <2> SUFFICES ASSUME Workloads!Init PROVE NetsInv
    OBVIOUS
  <2>1. /\ name = [n \in {"bridge"} |-> n]
        /\ address = [n \in Workloads!AnyNet |-> << >>]
    BY DEF Workloads!Init
  <2>2. DOMAIN << >> = {}
    OBVIOUS
  <2>3. \A n \in Workloads!AnyNet : DOMAIN address[n] = {} /\ IsFiniteSet(DOMAIN address[n])
    BY <2>1, <2>2, FS_EmptySet
  <2> QED BY <2>1, <2>3 DEF NetsInv, Own, Workloads!IsInjective
<1> QED BY <1>1, NetsStep, PTL DEF Workloads!Spec

\* For any networks, names, containers and given addresses: as long as no endpoint
\* was taken from a network, two endpoints of it have one address only if a caller
\* gave one of them its own (NetworkManager.ConnectContainer, which computes the
\* number of endpoints plus two and compares a given address with no other).
THEOREM WorkloadsAddressesDiffer == Workloads!Spec => []AddressesDiffer
<1>1. NetsInv => AddressesDiffer
  BY DEF NetsInv, Own, AddressesDiffer, Workloads!AddressesDiffer
<1> QED BY <1>1, NetsInvariant, PTL

-----------------------------------------------------------------------------
(* Wsl2: what holds of a container as long as it is used with care.  At    *)
(* most one user acts on it, with a copy that is the record until its      *)
(* process is killed; a process that runs is the one that is about to be   *)
(* recorded, or is on record; and none runs any more once it is removed.   *)

Op(w, o, b) == doing[w] = Wsl2!Doing(o, b)
OnRecord(p) == [pid |-> p, running |-> TRUE]
Runs(p, b)  == p \in alive /\ owner[p] = b

Cared(b) ==
  /\ \A v, w \in User : doing[v].box = b /\ doing[w].box = b => v = w
  /\ \A w \in User : Op(w, "kill", b) \/ Op(w, "remove_kill", b) => copy[w][b] = record[b]
  /\ \A p \in Proc : Runs(p, b) =>
       /\ record[b] = OnRecord(p) \/ \E w \in User : Op(w, "persist", b)
       /\ \A w \in User : /\ Op(w, "persist", b) => copy[w][b] = OnRecord(p)
                          /\ ~Op(w, "remove_persist", b) /\ ~Op(w, "remove", b)

Ops == {"persist", "kill", "remove_kill", "remove_persist", "remove"}
Task == {Wsl2!Idle, Wsl2!Refresh} \cup {Wsl2!Doing(o, b) : o \in Ops, b \in Box}

WslTyped ==
  /\ dir \subseteq Box /\ misused \subseteq Box
  /\ record \in [Box -> Wsl2!Record \cup {Nil}]
  /\ copy \in [User -> [Box -> Wsl2!Record \cup {Nil}]]
  /\ doing \in [User -> Task]
  /\ owner \in [Proc -> Box \cup {Nil}]
  /\ alive \subseteq {p \in Proc : owner[p] \in Box}
  /\ \A w \in User, b \in Box : doing[w].box = b => copy[w][b] # Nil
  /\ \A b \in Box : record[b] # Nil => b \in dir

WslInv == WslTyped /\ \A b \in Box \ misused : Cared(b)

\* What a user does, or a box it does it to, is one of two kinds.
LEMMA TaskFields ==
  ASSUME NEW t \in Task
  PROVE  \/ t = Wsl2!Idle /\ t.box = Nil
         \/ t = Wsl2!Refresh /\ t.box = Nil
         \/ /\ t.box \in Box /\ t.op \in Ops /\ t = Wsl2!Doing(t.op, t.box)
            /\ t # Wsl2!Idle /\ t # Wsl2!Refresh
  BY Wsl2Assumption DEF Task, Ops, Wsl2!Idle, Wsl2!Refresh, Wsl2!Doing

LEMMA DoingFields ==
  ASSUME NEW o, NEW b PROVE Wsl2!Doing(o, b).op = o /\ Wsl2!Doing(o, b).box = b
  BY DEF Wsl2!Doing

\* A step that leaves a container, its record, the copies of who acts on it and
\* its processes alone, except that some may end.
LEMMA CaredFrame ==
  ASSUME NEW b, Cared(b), record'[b] = record[b],
         \A w \in User : doing[w].box = b \/ doing'[w].box = b =>
           doing'[w] = doing[w] /\ copy'[w][b] = copy[w][b],
         \A p \in Proc : Runs(p, b)' => Runs(p, b)
  PROVE  Cared(b)'
<1>1. \A w \in User, o \in Ops : Op(w, o, b)' => Op(w, o, b)
  BY DoingFields DEF Op
<1>2. \A w \in User : Op(w, "persist", b) => Op(w, "persist", b)'
  BY DoingFields DEF Op
<1>3. \A w \in User, o \in Ops : Op(w, o, b) => copy'[w][b] = copy[w][b]
  BY DoingFields DEF Op
<1>4. \A v, w \in User : doing'[v].box = b /\ doing'[w].box = b => v = w
  BY DEF Cared
<1>5. \A w \in User : Op(w, "kill", b)' \/ Op(w, "remove_kill", b)' => copy'[w][b] = record'[b]
  BY <1>1, <1>3 DEF Cared, Ops
<1>6. ASSUME NEW p \in Proc, Runs(p, b)'
      PROVE  /\ record'[b] = OnRecord(p) \/ \E w \in User : Op(w, "persist", b)'
             /\ \A w \in User : /\ Op(w, "persist", b)' => copy'[w][b] = OnRecord(p)
                                /\ ~Op(w, "remove_persist", b)' /\ ~Op(w, "remove", b)'
  BY <1>1, <1>2, <1>3, <1>6 DEF Cared, Ops
<1>7. \A p : OnRecord(p)' = OnRecord(p)
  BY DEF OnRecord
<1> QED BY <1>4, <1>5, <1>6, <1>7 DEF Cared

\* A user who acts on a container holds a copy of its record.
LEMMA TaskCopy ==
  ASSUME WslTyped, NEW w \in User, NEW o \in Ops, NEW b, Op(w, o, b)
  PROVE  b \in Box /\ doing[w].box = b /\ doing[w] # Wsl2!Idle /\ doing[w] # Wsl2!Refresh
         /\ copy[w][b] \in Wsl2!Record
<1>1. doing[w] \in Task /\ doing[w].box = b /\ doing[w].op = o
  BY DoingFields DEF WslTyped, Op
<1>2. doing[w] # Wsl2!Idle /\ doing[w] # Wsl2!Refresh
  BY <1>1 DEF Ops, Wsl2!Idle, Wsl2!Refresh
<1>3. b \in Box
  BY <1>1, <1>2, TaskFields
<1> QED BY <1>1, <1>2, <1>3 DEF WslTyped

\* After an operation its user does nothing, and holds no copy but those it had.
LEMMA EndsFrame ==
  ASSUME WslTyped, NEW u \in User, Wsl2!Ends(u)
  PROVE  /\ doing' \in [User -> Task] /\ doing'[u] \in {Wsl2!Idle, Wsl2!Refresh}
         /\ doing'[u].box = Nil
         /\ copy' \in [User -> [Box -> Wsl2!Record \cup {Nil}]]
         /\ \A w \in User \ {u} : doing'[w] = doing[w] /\ copy'[w] = copy[w]
<1>1. Wsl2!Idle.box = Nil /\ Wsl2!Refresh.box = Nil /\ {Wsl2!Idle, Wsl2!Refresh} \subseteq Task
  BY DEF Wsl2!Idle, Wsl2!Refresh, Task
<1>2. Wsl2!None \in [Box -> Wsl2!Record \cup {Nil}]
  BY DEF Wsl2!None
<1> QED BY <1>1, <1>2 DEF Wsl2!Ends, Wsl2!Then, WslTyped

\* Nobody acts on a container, and its record does not say it runs: no process does.
LEMMA NoneRuns ==
  ASSUME WslTyped, NEW b \in Box, Cared(b), \A w \in User : doing[w].box # b,
         ~record[b].running
  PROVE  \A p \in Proc : ~Runs(p, b)
<1>1. \A w \in User : ~Op(w, "persist", b)
  BY DoingFields DEF Op
<1>2. \A p : OnRecord(p).running = TRUE
  BY DEF OnRecord
<1> QED BY <1>1, <1>2 DEF Cared

-----------------------------------------------------------------------------
LEMMA ListKeeps ==
  ASSUME WslInv, NEW u \in User, doing[u] \in {Wsl2!Idle, Wsl2!Refresh}, Wsl2!List(u)
  PROVE  WslInv'
<1>1. PICK read \in SUBSET Box :
        copy' = [copy EXCEPT ![u] = [b \in Box |-> IF b \in read THEN record[b] ELSE Nil]]
  BY DEF Wsl2!List
<1>2. /\ doing' = [doing EXCEPT ![u] = Wsl2!Idle]
      /\ UNCHANGED <<dir, record, alive, owner, misused>>
  BY DEF Wsl2!List
<1>3. Wsl2!Idle \in Task /\ Wsl2!Idle.box = Nil /\ doing[u].box = Nil
  BY DEF Task, Wsl2!Idle, Wsl2!Refresh
<1>4. /\ doing' \in [User -> Task]
      /\ copy' \in [User -> [Box -> Wsl2!Record \cup {Nil}]]
  BY <1>1, <1>2, <1>3 DEF WslInv, WslTyped
<1>5. \A w \in User \ {u} : doing'[w] = doing[w] /\ copy'[w] = copy[w]
  BY <1>1, <1>2 DEF WslInv, WslTyped
<1>6. doing'[u].box = Nil
  BY <1>2, <1>3 DEF WslInv, WslTyped
<1>7. WslTyped'
  BY <1>2, <1>4, <1>5, <1>6, Wsl2Assumption DEF WslInv, WslTyped
<1>8. ASSUME NEW b \in Box \ misused PROVE Cared(b)'
  BY <1>2, <1>3, <1>5, <1>6, CaredFrame, Wsl2Assumption DEF WslInv, Runs
<1> QED BY <1>2, <1>7, <1>8 DEF WslInv

LEMMA RefreshFails ==
  ASSUME WslInv, NEW u \in User, doing[u] \in {Wsl2!Idle, Wsl2!Refresh},
         doing' = [doing EXCEPT ![u] = Wsl2!Idle],
         UNCHANGED <<dir, record, copy, alive, owner, misused>>
  PROVE  WslInv'
<1>1. Wsl2!Idle \in Task /\ Wsl2!Idle.box = Nil /\ doing[u].box = Nil
  BY DEF Task, Wsl2!Idle, Wsl2!Refresh
<1>2. /\ doing' \in [User -> Task] /\ doing'[u].box = Nil
      /\ \A w \in User \ {u} : doing'[w] = doing[w]
  BY <1>1 DEF WslInv, WslTyped
<1>3. WslTyped'
  BY <1>2, Wsl2Assumption DEF WslInv, WslTyped
<1>4. ASSUME NEW b \in Box \ misused PROVE Cared(b)'
  BY <1>1, <1>2, CaredFrame, Wsl2Assumption DEF WslInv, Runs
<1> QED BY <1>3, <1>4 DEF WslInv

\* Nothing was ever done with the new container.
LEMMA CreateKeeps ==
  ASSUME WslInv, NEW u \in User, NEW b \in Box, Wsl2!Create(u, b)
  PROVE  WslInv'
<1> DEFINE new == [pid |-> Nil, running |-> FALSE]
<1>1. /\ doing[u] = Wsl2!Idle /\ b \notin dir /\ b \notin misused
      /\ \A p \in Proc : owner[p] # b
      /\ \A w \in User : copy[w][b] = Nil
      /\ dir' = dir \cup {b}
      /\ record' = [record EXCEPT ![b] = new] \/ record' = record
      /\ Wsl2!Then(u) /\ UNCHANGED <<copy, alive, owner, misused>>
  BY DEF Wsl2!Create
<1>2. new \in Wsl2!Record
  BY DEF Wsl2!Record
<1> HIDE DEF new
<1>3. /\ record' \in [Box -> Wsl2!Record \cup {Nil}]
      /\ \A c \in Box \ {b} : record'[c] = record[c]
  BY <1>1, <1>2 DEF WslInv, WslTyped
<1>4. /\ {Wsl2!Idle, Wsl2!Refresh} \subseteq Task /\ doing[u].box = Nil
      /\ Wsl2!Idle.box = Nil /\ Wsl2!Refresh.box = Nil
  BY <1>1 DEF Task, Wsl2!Idle, Wsl2!Refresh
<1>5. /\ doing' \in [User -> Task] /\ doing'[u].box = Nil
      /\ \A w \in User \ {u} : doing'[w] = doing[w]
  BY <1>1, <1>4 DEF Wsl2!Then, WslInv, WslTyped
<1>6. WslTyped'
  BY <1>1, <1>3, <1>5, Wsl2Assumption DEF WslInv, WslTyped
<1>7. ASSUME NEW c \in Box \ misused PROVE Cared(c)'
  <2>1. CASE c = b
    <3>1. \A w \in User : doing'[w].box # b
      BY <1>1, <1>5, Wsl2Assumption DEF WslInv, WslTyped
    <3>2. \A w \in User, o \in Ops : ~Op(w, o, b)'
      BY <3>1, DoingFields DEF Op
    <3>3. \A p \in Proc : ~Runs(p, b)'
      BY <1>1 DEF Runs
    <3> QED BY <2>1, <3>1, <3>2, <3>3 DEF Cared, Ops
  <2>2. CASE c # b
    BY <1>1, <1>3, <1>4, <1>5, <2>2, CaredFrame, Wsl2Assumption DEF WslInv, Runs
  <2> QED BY <2>1, <2>2
<1> QED BY <1>1, <1>6, <1>7 DEF WslInv

\* A user turns to a container, or goes on with it, and changes at most its own
\* copy of that record; the others and their containers are not concerned.
OnlyCopy(u, b) ==
  /\ copy' \in [User -> [Box -> Wsl2!Record \cup {Nil}]]
  /\ copy'[u][b] # Nil
  /\ \A c \in Box \ {b} : copy'[u][c] = copy[u][c]
  /\ \A w \in User \ {u} : copy'[w] = copy[w]

LEMMA CopyChanges ==
  ASSUME WslTyped, NEW u \in User, NEW b \in Box, NEW r \in Wsl2!Record,
         copy' = [copy EXCEPT ![u][b] = r]
  PROVE  OnlyCopy(u, b) /\ copy'[u][b] = r
  BY Wsl2Assumption DEF OnlyCopy, WslTyped

LEMMA CopyStays ==
  ASSUME WslTyped, NEW u \in User, NEW b \in Box, copy[u][b] # Nil, copy' = copy
  PROVE  OnlyCopy(u, b)
  BY DEF OnlyCopy, WslTyped

LEMMA TurnsTo ==
  ASSUME WslTyped, NEW u \in User, NEW b \in Box, NEW o \in Ops,
         doing[u].box \in {Nil, b}, OnlyCopy(u, b),
         doing' = [doing EXCEPT ![u] = Wsl2!Doing(o, b)]
  PROVE  /\ doing' \in [User -> Task] /\ doing'[u] = Wsl2!Doing(o, b)
         /\ \A w \in User \ {u} : doing'[w] = doing[w]
         /\ \A w \in User, c \in Box : doing'[w].box = c => copy'[w][c] # Nil
         /\ \A w \in User, c \in Box \ {b} : doing[w].box = c \/ doing'[w].box = c =>
              doing'[w] = doing[w] /\ copy'[w][c] = copy[w][c]
<1>1. Wsl2!Doing(o, b) \in Task /\ Wsl2!Doing(o, b).box = b
  BY DoingFields DEF Task
<1>2. /\ doing' \in [User -> Task] /\ doing'[u] = Wsl2!Doing(o, b)
      /\ \A w \in User \ {u} : doing'[w] = doing[w]
  BY <1>1 DEF WslTyped
<1> QED BY <1>1, <1>2, Wsl2Assumption DEF WslTyped, OnlyCopy

\* A start that is made with care finds no process in the container.
LEMMA StartKeeps ==
  ASSUME WslInv, NEW u \in User, NEW b \in Box, NEW p \in Proc, Wsl2!Start(u, b, p)
  PROVE  WslInv'
<1>1. /\ doing[u] = Wsl2!Idle /\ copy[u][b] # Nil /\ owner[p] = Nil
      /\ owner' = [owner EXCEPT ![p] = b]
      /\ alive' \subseteq alive \cup {p}
      /\ copy' = [copy EXCEPT ![u][b] = OnRecord(p)]
      /\ doing' = [doing EXCEPT ![u] = Wsl2!Doing("persist", b)]
      /\ UNCHANGED <<dir, record>>
      /\ misused' = IF Wsl2!Unprotected(u, b) \/ copy[u][b].running THEN misused \cup {b} ELSE misused
  BY DEF Wsl2!Start, Wsl2!Launch, Wsl2!Holds, OnRecord
<1>2. OnRecord(p) \in Wsl2!Record /\ doing[u].box = Nil /\ "persist" \in Ops
  BY <1>1 DEF OnRecord, Wsl2!Record, Wsl2!Idle, Ops
<1>3. WslTyped
  BY DEF WslInv
<1>0. OnlyCopy(u, b) /\ copy'[u][b] = OnRecord(p)
  BY <1>1, <1>2, <1>3, CopyChanges
<1>4. /\ doing' \in [User -> Task] /\ doing'[u] = Wsl2!Doing("persist", b)
      /\ \A w \in User \ {u} : doing'[w] = doing[w]
      /\ \A w \in User, c \in Box : doing'[w].box = c => copy'[w][c] # Nil
      /\ \A w \in User, c \in Box \ {b} : doing[w].box = c \/ doing'[w].box = c =>
           doing'[w] = doing[w] /\ copy'[w][c] = copy[w][c]
  BY <1>0, <1>1, <1>2, <1>3, TurnsTo
<1>5. /\ owner' \in [Proc -> Box \cup {Nil}] /\ owner'[p] = b
      /\ \A q \in Proc \ {p} : owner'[q] = owner[q]
  BY <1>1, <1>3 DEF WslTyped
<1>6. alive' \subseteq {q \in Proc : owner'[q] \in Box}
  BY <1>1, <1>3, <1>5 DEF WslTyped
<1>7. WslTyped'
  BY <1>0, <1>1, <1>3, <1>4, <1>5, <1>6 DEF WslTyped, OnlyCopy
<1>8. ASSUME NEW c \in Box \ misused' PROVE Cared(c)'
  <2>0. c \notin misused /\ Cared(c)
    BY <1>1, <1>8 DEF WslInv
  <2>1. CASE c = b
    <3>1. ~Wsl2!Unprotected(u, b) /\ ~copy[u][b].running
      BY <1>1, <1>8, <2>1
    <3>2. ~record[b].running /\ \A w \in User : doing[w].box # b
      BY <3>1 DEF Wsl2!Unprotected
    <3>3. \A q \in Proc : ~Runs(q, b)
      BY <1>3, <2>0, <2>1, <3>2, NoneRuns
    <3>4. \A q \in Proc : Runs(q, b)' => q = p
      BY <1>1, <1>5, <3>3 DEF Runs
    <3>5. \A w \in User : doing'[w].box = b => w = u
      BY <1>4, <3>2
    <3>6. \A w \in User, o \in Ops : Op(w, o, b)' => w = u /\ o = "persist"
      BY <1>4, <3>5, DoingFields DEF Op
    <3>7. Op(u, "persist", b)' /\ OnRecord(p)' = OnRecord(p)
      BY <1>4 DEF Op, OnRecord
    <3> QED BY <1>0, <1>4, <2>1, <3>4, <3>5, <3>6, <3>7 DEF Cared, Ops
  <2>2. CASE c # b
    <3>1. \A q \in Proc : Runs(q, c)' => Runs(q, c)
      BY <1>1, <1>5, <2>2 DEF Runs
    <3> QED BY <1>1, <1>4, <2>0, <2>2, <3>1, CaredFrame
  <2> QED BY <2>1, <2>2
<1> QED BY <1>7, <1>8 DEF WslInv

\* A start whose pid was not read takes the container out of those used with care.
LEMMA StartUnreadKeeps ==
  ASSUME WslInv, NEW u \in User, NEW b \in Box, NEW p \in Proc, Wsl2!StartUnread(u, b, p)
  PROVE  WslInv'
<1>1. /\ doing[u] = Wsl2!Idle /\ owner[p] = Nil
      /\ owner' = [owner EXCEPT ![p] = b]
      /\ alive' \subseteq alive \cup {p}
      /\ Wsl2!Ends(u) \/ UNCHANGED <<doing, copy>>
      /\ UNCHANGED <<dir, record>>
      /\ misused' = misused \cup {b}
  BY DEF Wsl2!StartUnread, Wsl2!Launch, Wsl2!Holds
<1>2. WslTyped /\ doing[u].box = Nil /\ Wsl2!Idle \in Task
  BY <1>1 DEF WslInv, Wsl2!Idle, Task
<1>3. /\ doing' \in [User -> Task] /\ doing'[u].box = Nil
      /\ copy' \in [User -> [Box -> Wsl2!Record \cup {Nil}]]
      /\ \A w \in User \ {u} : doing'[w] = doing[w] /\ copy'[w] = copy[w]
  <2>1. CASE Wsl2!Ends(u)
    BY <1>2, <2>1, EndsFrame
  <2>2. CASE UNCHANGED <<doing, copy>>
    BY <1>2, <2>2 DEF WslTyped
  <2> QED BY <1>1, <2>1, <2>2
<1>4. /\ owner' \in [Proc -> Box \cup {Nil}] /\ owner'[p] = b
      /\ \A q \in Proc \ {p} : owner'[q] = owner[q]
  BY <1>1, <1>2 DEF WslTyped
<1>5. alive' \subseteq {q \in Proc : owner'[q] \in Box}
  BY <1>1, <1>2, <1>4 DEF WslTyped
<1>6. WslTyped'
  <2>1. Nil \notin Box
    BY Wsl2Assumption
  <2>2. \A w \in User, c \in Box : doing'[w].box = c => copy'[w][c] # Nil
    BY <1>2, <1>3, <2>1 DEF WslTyped
  <2>3. dir' \subseteq Box /\ misused' \subseteq Box /\ record' = record /\ dir' = dir
    BY <1>1, <1>2 DEF WslTyped
  <2> QED BY <1>2, <1>3, <1>4, <1>5, <2>2, <2>3 DEF WslTyped
<1>7. ASSUME NEW c \in Box \ misused' PROVE Cared(c)'
  <2>1. c # b /\ c \notin misused /\ Cared(c)
    BY <1>1, <1>7 DEF WslInv
  <2>2. \A q \in Proc : Runs(q, c)' => Runs(q, c)
    BY <1>1, <1>4, <2>1 DEF Runs
  <2> QED BY <1>1, <1>2, <1>3, <2>1, <2>2, CaredFrame, Wsl2Assumption
<1> QED BY <1>6, <1>7 DEF WslInv

\* Stop and Remove of a container that runs begin to kill its process; Remove
\* of another goes on to delete it.
LEMMA BeginKeeps ==
  ASSUME WslInv, NEW u \in User, NEW b \in Box, NEW o \in {"kill", "remove_kill", "remove"},
         Wsl2!Holds(u, b), o = "remove" => ~copy[u][b].running,
         doing' = [doing EXCEPT ![u] = Wsl2!Doing(o, b)],
         misused' = IF Wsl2!Unprotected(u, b) THEN misused \cup {b} ELSE misused,
         UNCHANGED <<dir, record, copy, alive, owner>>
  PROVE  WslInv'
<1>1. doing[u] = Wsl2!Idle /\ copy[u][b] # Nil /\ doing[u].box = Nil /\ o \in Ops
  BY DEF Wsl2!Holds, Wsl2!Idle, Ops
<1>2. WslTyped /\ copy[u][b] \in Wsl2!Record
  BY <1>1 DEF WslInv, WslTyped
<1>3. /\ doing' \in [User -> Task] /\ doing'[u] = Wsl2!Doing(o, b)
      /\ \A w \in User \ {u} : doing'[w] = doing[w]
      /\ \A w \in User, c \in Box : doing'[w].box = c => copy'[w][c] # Nil
      /\ \A w \in User, c \in Box \ {b} : doing[w].box = c \/ doing'[w].box = c =>
           doing'[w] = doing[w] /\ copy'[w][c] = copy[w][c]
  BY <1>1, <1>2, CopyStays, TurnsTo
<1>4. WslTyped'
  BY <1>2, <1>3 DEF WslTyped
<1>5. ASSUME NEW c \in Box \ misused' PROVE Cared(c)'
  <2>0. c \notin misused /\ Cared(c)
    BY <1>5 DEF WslInv
  <2>1. CASE c = b
    <3>1. copy[u][b] = record[b] /\ \A w \in User : doing[w].box # b
      BY <1>5, <2>1 DEF Wsl2!Unprotected
    <3>2. \A w \in User : doing'[w].box = b => w = u
      BY <1>3, <3>1
    <3>3. \A w \in User, x \in Ops : Op(w, x, b)' => w = u /\ x = o
      BY <1>3, <3>2, DoingFields DEF Op
    <3>4. \A w \in User : ~Op(w, "persist", b)
      BY <3>1, DoingFields DEF Op
    <3>5. \A p \in Proc : Runs(p, b) => record[b] = OnRecord(p) /\ o # "remove"
      BY <1>2, <2>0, <2>1, <3>1, <3>4, NoneRuns DEF Cared
    <3>6. \A p \in Proc : (Runs(p, b)' <=> Runs(p, b)) /\ OnRecord(p)' = OnRecord(p)
      BY DEF Runs, OnRecord
    <3> QED BY <2>1, <3>1, <3>2, <3>3, <3>5, <3>6 DEF Cared, Ops
  <2>2. CASE c # b
    <3>1. \A q \in Proc : Runs(q, c)' => Runs(q, c)
      BY DEF Runs
    <3> QED BY <1>3, <2>0, <2>2, <3>1, CaredFrame
  <2> QED BY <2>1, <2>2
<1> QED BY <1>4, <1>5 DEF WslInv

LEMMA StopKeeps ==
  ASSUME WslInv, NEW u \in User, NEW b \in Box, Wsl2!Stop(u, b)
  PROVE  WslInv'
<1>1. CASE copy[u][b].running
  BY <1>1, BeginKeeps DEF Wsl2!Stop
<1>2. CASE ~copy[u][b].running
  <2>1. /\ Wsl2!Ends(u) /\ doing[u] = Wsl2!Idle
        /\ UNCHANGED <<dir, record, alive, owner, misused>>
    BY <1>2 DEF Wsl2!Stop, Wsl2!Holds
  <2>2. /\ WslTyped /\ doing[u].box = Nil
    BY <2>1 DEF WslInv, Wsl2!Idle
  <2>3. /\ doing' \in [User -> Task] /\ doing'[u].box = Nil
        /\ copy' \in [User -> [Box -> Wsl2!Record \cup {Nil}]]
        /\ \A w \in User \ {u} : doing'[w] = doing[w] /\ copy'[w] = copy[w]
    BY <2>1, <2>2, EndsFrame
  <2>4. WslTyped'
    BY <2>1, <2>2, <2>3, Wsl2Assumption DEF WslTyped
  <2>5. ASSUME NEW c \in Box \ misused PROVE Cared(c)'
    BY <2>1, <2>2, <2>3, CaredFrame, Wsl2Assumption DEF WslInv, Runs
  <2> QED BY <2>1, <2>4, <2>5 DEF WslInv
<1> QED BY <1>1, <1>2

LEMMA RemoveBegins ==
  ASSUME WslInv, NEW u \in User, NEW b \in Box, Wsl2!Remove(u, b)
  PROVE  WslInv'
<1>1. CASE copy[u][b].running
  BY <1>1, BeginKeeps DEF Wsl2!Remove
<1>2. CASE ~copy[u][b].running
  BY <1>2, BeginKeeps DEF Wsl2!Remove
<1> QED BY <1>1, <1>2

\* The process that is killed is the only one.
LEMMA KillKeeps ==
  ASSUME WslInv, NEW u \in User, NEW b \in Box, NEW o \in {"kill", "remove_kill"},
         NEW next \in {"persist", "remove_persist"}, Op(u, o, b), Wsl2!Kill(u, b, next),
         UNCHANGED <<dir, record, owner, misused>>
  PROVE  WslInv'
<1> DEFINE r == [copy[u][b] EXCEPT !.running = FALSE]
<1>1. WslTyped /\ copy[u][b] \in Wsl2!Record /\ doing[u].box = b /\ o \in Ops /\ next \in Ops
  BY TaskCopy DEF WslInv, Ops
<1>2. /\ alive' = alive \ {copy[u][b].pid}
      /\ copy' = [copy EXCEPT ![u][b] = r]
      /\ doing' = [doing EXCEPT ![u] = Wsl2!Doing(next, b)]
  BY DEF Wsl2!Kill
<1>3. r \in Wsl2!Record
  BY <1>1 DEF Wsl2!Record
<1> HIDE DEF r
<1>4. OnlyCopy(u, b)
  BY <1>1, <1>2, <1>3, CopyChanges
<1>5. /\ doing' \in [User -> Task] /\ doing'[u] = Wsl2!Doing(next, b)
      /\ \A w \in User \ {u} : doing'[w] = doing[w]
      /\ \A w \in User, c \in Box : doing'[w].box = c => copy'[w][c] # Nil
      /\ \A w \in User, c \in Box \ {b} : doing[w].box = c \/ doing'[w].box = c =>
           doing'[w] = doing[w] /\ copy'[w][c] = copy[w][c]
  BY <1>1, <1>2, <1>4, TurnsTo
<1>6. WslTyped'
  BY <1>1, <1>2, <1>4, <1>5 DEF WslTyped, OnlyCopy
<1>7. ASSUME NEW c \in Box \ misused PROVE Cared(c)'
  <2>0. Cared(c)
    BY DEF WslInv
  <2>1. CASE c = b
    <3>1. \A w \in User : doing[w].box = b => w = u
      BY <1>1, <2>0, <2>1 DEF Cared
    <3>2. copy[u][b] = record[b]
      BY <2>0, <2>1 DEF Cared
    <3>3. \A w \in User : ~Op(w, "persist", b)
      BY <3>1, DoingFields DEF Op
    <3>4. \A p \in Proc : Runs(p, b) => copy[u][b] = OnRecord(p)
      BY <2>0, <2>1, <3>2, <3>3 DEF Cared
    <3>5. \A p \in Proc : ~Runs(p, b)'
      <4> SUFFICES ASSUME NEW p \in Proc, Runs(p, b)' PROVE FALSE
        OBVIOUS
      <4>1. Runs(p, b) /\ p # copy[u][b].pid
        BY <1>2 DEF Runs
      <4>2. copy[u][b] = OnRecord(p) /\ OnRecord(p).pid = p
        BY <3>4, <4>1 DEF OnRecord
      <4> QED BY <4>1, <4>2
    <3>6. \A w \in User : doing'[w].box = b => w = u
      BY <1>5, <3>1
    <3>7. \A w \in User, x \in Ops : Op(w, x, b)' => x = next
      BY <1>5, <3>6, DoingFields DEF Op
    <3> QED BY <2>1, <3>5, <3>6, <3>7 DEF Cared, Ops
  <2>2. CASE c # b
    <3>1. \A q \in Proc : Runs(q, c)' => Runs(q, c)
      BY <1>2 DEF Runs
    <3> QED BY <1>5, <2>0, <2>2, <3>1, CaredFrame
  <2> QED BY <2>1, <2>2
<1> QED BY <1>6, <1>7 DEF WslInv

LEMMA KilledKeeps ==
  ASSUME WslInv, NEW u \in User, NEW b \in Box, Wsl2!Killed(u, b)
  PROVE  WslInv'
<1>1. CASE Op(u, "kill", b) /\ Wsl2!Kill(u, b, "persist")
  BY <1>1, KillKeeps DEF Wsl2!Killed
<1>2. CASE Op(u, "remove_kill", b) /\ Wsl2!Kill(u, b, "remove_persist")
  BY <1>2, KillKeeps DEF Wsl2!Killed
<1> QED BY <1>1, <1>2 DEF Wsl2!Killed, Op

\* The record that is written names the process that runs, or none runs.
LEMMA PersistedKeeps ==
  ASSUME WslInv, NEW u \in User, NEW b \in Box, Wsl2!Persisted(u, b)
  PROVE  WslInv'
<1>1. WslTyped
  BY DEF WslInv
<1>2. /\ UNCHANGED <<dir, alive, owner>>
      /\ \/ b \in dir /\ record' = [record EXCEPT ![b] = copy[u][b]] /\ misused' = misused
         \/ misused' = misused \cup {b} /\ record' = record
  BY DEF Wsl2!Persisted
<1>3. ASSUME NEW o \in {"persist", "remove_persist"}, Op(u, o, b) 
      PROVE  /\ doing[u].box = b /\ copy[u][b] \in Wsl2!Record
             /\ record' \in [Box -> Wsl2!Record \cup {Nil}]
             /\ \A c \in Box \ {b} : record'[c] = record[c]
             /\ \A c \in Box : record'[c] # Nil => c \in dir
             /\ b \notin misused' => record'[b] = copy[u][b]
  <2>1. copy[u][b] \in Wsl2!Record /\ doing[u].box = b
    BY <1>1, <1>3, TaskCopy DEF Ops
  <2> QED BY <1>1, <1>2, <2>1 DEF WslTyped
<1>4. CASE Op(u, "persist", b) /\ Wsl2!Ends(u)
  <2>1. /\ doing' \in [User -> Task] /\ doing'[u].box = Nil
        /\ copy' \in [User -> [Box -> Wsl2!Record \cup {Nil}]]
        /\ \A w \in User \ {u} : doing'[w] = doing[w] /\ copy'[w] = copy[w]
    BY <1>1, <1>4, EndsFrame
  <2>2. WslTyped'
    BY <1>1, <1>2, <1>3, <1>4, <2>1, Wsl2Assumption DEF WslTyped
  <2>3. ASSUME NEW c \in Box \ misused' PROVE Cared(c)'
    <3>0. Cared(c) /\ c \notin misused
      BY <1>2, <2>3 DEF WslInv
    <3>1. CASE c = b
      <4>1. \A w \in User : doing'[w].box # b
        BY <1>3, <1>4, <2>1, <3>0, <3>1, Wsl2Assumption DEF Cared
      <4>2. \A w \in User, x \in Ops : ~Op(w, x, b)'
        BY <4>1, DoingFields DEF Op
      <4>3. \A p \in Proc : Runs(p, b)' => record'[b] = OnRecord(p)
        BY <1>2, <1>3, <1>4, <2>3, <3>0, <3>1 DEF Cared, Runs
      <4>4. \A p : OnRecord(p)' = OnRecord(p)
        BY DEF OnRecord
      <4> QED BY <3>1, <4>1, <4>2, <4>3, <4>4 DEF Cared, Ops
    <3>2. CASE c # b
      <4>1. \A q \in Proc : Runs(q, c)' => Runs(q, c)
        BY <1>2 DEF Runs
      <4> QED BY <1>3, <1>4, <2>1, <3>0, <3>2, <4>1, CaredFrame, Wsl2Assumption
    <3> QED BY <3>1, <3>2
  <2> QED BY <2>2, <2>3 DEF WslInv
<1>5. CASE /\ Op(u, "remove_persist", b) /\ copy' = copy
           /\ doing' = [doing EXCEPT ![u] = Wsl2!Doing("remove", b)]
  <2>0. copy[u][b] # Nil /\ "remove" \in Ops
    BY <1>3, <1>5, Wsl2Assumption DEF Ops
  <2>1. /\ doing' \in [User -> Task] /\ doing'[u] = Wsl2!Doing("remove", b)
        /\ \A w \in User \ {u} : doing'[w] = doing[w]
        /\ \A w \in User, c \in Box : doing'[w].box = c => copy'[w][c] # Nil
        /\ \A w \in User, c \in Box \ {b} : doing[w].box = c \/ doing'[w].box = c =>
             doing'[w] = doing[w] /\ copy'[w][c] = copy[w][c]
    BY <1>1, <1>3, <1>5, <2>0, CopyStays, TurnsTo
  <2>2. WslTyped'
    BY <1>1, <1>2, <1>3, <1>5, <2>1 DEF WslTyped
  <2>3. ASSUME NEW c \in Box \ misused' PROVE Cared(c)'
    <3>0. Cared(c) /\ c \notin misused
      BY <1>2, <2>3 DEF WslInv
    <3>1. CASE c = b
      <4>1. \A w \in User : doing'[w].box = b => w = u
        BY <1>3, <1>5, <2>1, <3>0, <3>1 DEF Cared
      <4>2. \A w \in User, x \in Ops : Op(w, x, b)' => x = "remove"
        BY <2>1, <4>1, DoingFields DEF Op
      <4>3. \A p \in Proc : ~Runs(p, b)'
        BY <1>2, <1>5, <3>0, <3>1 DEF Cared, Runs
      <4> QED BY <3>1, <4>1, <4>2, <4>3 DEF Cared, Ops
    <3>2. CASE c # b
      <4>1. \A q \in Proc : Runs(q, c)' => Runs(q, c)
        BY <1>2 DEF Runs
      <4> QED BY <1>3, <1>5, <2>1, <3>0, <3>2, <4>1, CaredFrame
    <3> QED BY <3>1, <3>2
  <2> QED BY <2>2, <2>3 DEF WslInv
<1> QED BY <1>4, <1>5 DEF Wsl2!Persisted, Op

LEMMA RemovedKeeps ==
  ASSUME WslInv, NEW u \in User, NEW b \in Box, Wsl2!Removed(u, b)
  PROVE  WslInv'
<1>1. /\ Op(u, "remove", b) /\ Wsl2!Ends(u) /\ WslTyped
      /\ UNCHANGED <<alive, owner, misused>>
      /\ \/ dir' = dir \ {b} /\ record' = [record EXCEPT ![b] = Nil]
         \/ UNCHANGED <<dir, record>>
  BY DEF Wsl2!Removed, Op, WslInv
<1>2. doing[u].box = b
  BY <1>1, DoingFields DEF Op
<1>3. /\ doing' \in [User -> Task] /\ doing'[u].box = Nil
      /\ copy' \in [User -> [Box -> Wsl2!Record \cup {Nil}]]
      /\ \A w \in User \ {u} : doing'[w] = doing[w] /\ copy'[w] = copy[w]
  BY <1>1, EndsFrame
<1>4. /\ record' \in [Box -> Wsl2!Record \cup {Nil}] /\ dir' \subseteq Box
      /\ \A c \in Box \ {b} : record'[c] = record[c]
      /\ \A c \in Box : record'[c] # Nil => c \in dir'
  BY <1>1 DEF WslTyped
<1>5. WslTyped'
  <2>1. \A w \in User, c \in Box : doing'[w].box = c => copy'[w][c] # Nil
    BY <1>1, <1>3, Wsl2Assumption DEF WslTyped
  <2>2. misused' \subseteq Box /\ owner' \in [Proc -> Box \cup {Nil}]
        /\ alive' \subseteq {p \in Proc : owner'[p] \in Box}
    BY <1>1 DEF WslTyped
  <2> QED BY <1>3, <1>4, <2>1, <2>2 DEF WslTyped
<1>6. ASSUME NEW c \in Box \ misused PROVE Cared(c)'
  <2>0. Cared(c) /\ \A q \in Proc : Runs(q, c)' => Runs(q, c)
    BY <1>1 DEF WslInv, Runs
  <2>1. CASE c = b
    <3>1. \A w \in User : doing'[w].box # b
      BY <1>2, <1>3, <2>0, <2>1, Wsl2Assumption DEF Cared
    <3>2. \A w \in User, x \in Ops : ~Op(w, x, b)'
      BY <3>1, DoingFields DEF Op
    <3>3. \A p \in Proc : ~Runs(p, b)'
      BY <1>1, <2>0, <2>1 DEF Cared
    <3> QED BY <2>1, <3>1, <3>2, <3>3 DEF Cared, Ops
  <2>2. CASE c # b
    BY <1>2, <1>3, <1>4, <2>0, <2>2, CaredFrame, Wsl2Assumption
  <2> QED BY <2>1, <2>2
<1> QED BY <1>1, <1>5, <1>6 DEF WslInv

LEMMA ExitKeeps ==
  ASSUME WslInv, NEW p \in Proc, Wsl2!Exit(p)
  PROVE  WslInv'
<1>1. alive' \subseteq alive /\ UNCHANGED <<dir, record, copy, doing, owner, misused>>
  BY DEF Wsl2!Exit
<1>2. WslTyped'
  BY <1>1 DEF WslInv, WslTyped
<1>3. ASSUME NEW b \in Box \ misused PROVE Cared(b)'
  BY <1>1, CaredFrame DEF WslInv, Runs
<1> QED BY <1>1, <1>2, <1>3 DEF WslInv

\* Who is interrupted leaves the container it acts on, if any, uncared for.
LEMMA QuitKeeps ==
  ASSUME WslInv, NEW u \in User, Wsl2!Quit(u)
  PROVE  WslInv'
<1>1. /\ copy' = [copy EXCEPT ![u] = Wsl2!None]
      /\ doing' = [doing EXCEPT ![u] = Wsl2!Idle]
      /\ misused' = IF doing[u].box = Nil THEN misused ELSE misused \cup {doing[u].box}
      /\ UNCHANGED <<dir, record, alive, owner>>
  BY DEF Wsl2!Quit
<1>2. /\ Wsl2!Idle \in Task /\ Wsl2!Idle.box = Nil
      /\ Wsl2!None \in [Box -> Wsl2!Record \cup {Nil}]
  BY DEF Task, Wsl2!Idle, Wsl2!None
<1>3. WslTyped
  BY DEF WslInv
<1>4. /\ doing' \in [User -> Task] /\ doing'[u].box = Nil
      /\ copy' \in [User -> [Box -> Wsl2!Record \cup {Nil}]]
      /\ \A w \in User \ {u} : doing'[w] = doing[w] /\ copy'[w] = copy[w]
  BY <1>1, <1>2, <1>3 DEF WslTyped
<1>5. doing[u].box \in Box \cup {Nil}
  BY <1>3, TaskFields DEF WslTyped
<1>6. misused' \subseteq Box /\ misused \subseteq misused'
  BY <1>1, <1>3, <1>5 DEF WslTyped
<1>7. WslTyped'
  <2>1. \A w \in User, c \in Box : doing'[w].box = c => copy'[w][c] # Nil
    BY <1>3, <1>4, Wsl2Assumption DEF WslTyped
  <2> QED BY <1>1, <1>3, <1>4, <1>6, <2>1 DEF WslTyped
<1>8. ASSUME NEW b \in Box \ misused' PROVE Cared(b)'
  <2>1. Cared(b) /\ doing[u].box # b
    BY <1>1, <1>6, <1>8, Wsl2Assumption DEF WslInv
  <2> QED BY <1>1, <1>4, <2>1, CaredFrame, Wsl2Assumption DEF Runs
<1> QED BY <1>7, <1>8 DEF WslInv

LEMMA WslStep == WslInv /\ [Wsl2!Next]_(Wsl2!vars) => WslInv'
<1> SUFFICES ASSUME WslInv, [Wsl2!Next]_(Wsl2!vars) PROVE WslInv'
  OBVIOUS
<1>1. ASSUME NEW u \in User, Wsl2!CommandList(u) PROVE WslInv'
  BY <1>1, ListKeeps DEF Wsl2!CommandList
<1>2. ASSUME NEW u \in User, Wsl2!Update(u) PROVE WslInv'
  <2>1. CASE doing[u] \in {Wsl2!Idle, Wsl2!Refresh} /\ Wsl2!refresh(u)
    BY <2>1, ListKeeps, RefreshFails DEF Wsl2!refresh
  <2>2. ASSUME NEW b \in Box, \/ Wsl2!createContainer(u, b) \/ Wsl2!startContainer(u, b)
                              \/ Wsl2!stopContainer(u, b) \/ Wsl2!removeContainer(u, b)
        PROVE  WslInv'
    BY <2>2, CreateKeeps, StartKeeps, StartUnreadKeeps, StopKeeps, RemoveBegins
       DEF Wsl2!createContainer, Wsl2!startContainer, Wsl2!stopContainer, Wsl2!removeContainer
  <2> QED BY <1>2, <2>1, <2>2 DEF Wsl2!Update
<1>3. ASSUME NEW u \in User, Wsl2!Quit(u) PROVE WslInv'
  BY <1>3, QuitKeeps
<1>4. ASSUME NEW u \in User, NEW b \in Box,
             \/ Wsl2!CommandCreate(u, b) \/ Wsl2!CommandStop(u, b) \/ Wsl2!CommandRemove(u, b)
             \/ \E p \in Proc : Wsl2!CommandStart(u, b, p)
      PROVE  WslInv'
  BY <1>4, CreateKeeps, StartKeeps, StartUnreadKeeps, StopKeeps, RemoveBegins
     DEF Wsl2!CommandCreate, Wsl2!CommandStop, Wsl2!CommandRemove, Wsl2!CommandStart
<1>5. ASSUME NEW u \in User, NEW b \in Box,
             Wsl2!Killed(u, b) \/ Wsl2!Persisted(u, b) \/ Wsl2!Removed(u, b)
      PROVE  WslInv'
  BY <1>5, KilledKeeps, PersistedKeeps, RemovedKeeps
<1>6. ASSUME NEW p \in Proc, Wsl2!Exit(p) PROVE WslInv'
  BY <1>6, ExitKeeps
<1>7. CASE UNCHANGED Wsl2!vars
  BY <1>7 DEF Wsl2!vars, WslInv, WslTyped, Cared, Op, Runs, OnRecord
<1> QED BY <1>1, <1>2, <1>3, <1>4, <1>5, <1>6, <1>7 DEF Wsl2!Next

LEMMA WslInvariant == Wsl2!Spec => []WslInv
<1>1. Wsl2!Init => WslInv
  <2> SUFFICES ASSUME Wsl2!Init PROVE WslInv
    OBVIOUS
  <2>1. Wsl2!Idle \in Task /\ Wsl2!Idle.box = Nil
    BY DEF Task, Wsl2!Idle
  <2>2. WslTyped
    BY <2>1, Wsl2Assumption DEF Wsl2!Init, Wsl2!None, WslTyped
  <2>3. \A b \in Box, w \in User : doing[w].box # b
    BY <2>1, Wsl2Assumption DEF Wsl2!Init
  <2>4. \A b \in Box, w \in User, o \in Ops : ~Op(w, o, b)
    BY <2>3, DoingFields DEF Op
  <2>5. \A p \in Proc, b \in Box : ~Runs(p, b)
    BY DEF Wsl2!Init, Runs
  <2> QED BY <2>2, <2>3, <2>4, <2>5 DEF WslInv, Cared, Ops
<1> QED BY <1>1, WslStep, PTL DEF Wsl2!Spec

\* For any containers, processes, commands and interfaces: a process that runs in
\* a container that is used by one at a time, with a fresh listing, and not
\* started twice, is the one on the record, or is about to be recorded
\* (WSL2Runtime.StartContainer, StopContainer, persistState).
THEOREM Wsl2RunningRecorded == Wsl2!Spec => []RunningRecorded
<1>1. WslInv => RunningRecorded
  <2> SUFFICES ASSUME WslInv, NEW p \in alive, owner[p] \notin misused
               PROVE  \/ record[owner[p]] = [pid |-> p, running |-> TRUE]
                      \/ \E u \in User : /\ doing[u] = Wsl2!Doing("persist", owner[p])
                                         /\ copy[u][owner[p]].pid = p
                                         /\ copy[u][owner[p]].running
    BY DEF RunningRecorded, Wsl2!RunningRecorded
  <2>1. p \in Proc /\ owner[p] \in Box \ misused /\ Runs(p, owner[p]) /\ Cared(owner[p])
    BY DEF WslInv, WslTyped, Runs
  <2>2. CASE record[owner[p]] = OnRecord(p)
    BY <2>2 DEF OnRecord
  <2>3. CASE \E u \in User : Op(u, "persist", owner[p])
    <3>1. PICK u \in User : Op(u, "persist", owner[p])
      BY <2>3
    <3>2. copy[u][owner[p]] = OnRecord(p)
      BY <2>1, <3>1 DEF Cared
    <3>3. copy[u][owner[p]].pid = p /\ copy[u][owner[p]].running
      BY <3>2 DEF OnRecord
    <3> QED BY <3>1, <3>3 DEF Op
  <2> QED BY <2>1, <2>2, <2>3 DEF Cared
<1> QED BY <1>1, WslInvariant, PTL

-----------------------------------------------------------------------------
(* Policies: the list is sorted, so the first policy that matches is one   *)
(* of the highest priority; and of what passed, the entries that can be    *)
(* the first of twice as many as the limit are older than the bucket by    *)
(* more than a minute.                                                     *)

\* The least of a set of numbers.
LEMMA LeastOf ==
  ASSUME NEW S \in SUBSET Nat, S # {}
  PROVE  Policies!Min(S) \in S /\ \A y \in S : Policies!Min(S) <= y
<1> DEFINE Less == {ss \in Nat \X Nat : ss[1] < ss[2]}
<1>1. IsWellFoundedOn(Less, Nat)
  BY NatLessThanWellFounded DEF OpToRel
<1> HIDE DEF Less
<1>2. PICK x \in S : \A y \in S : <<y, x>> \notin Less
  BY <1>1, WFMin
<1>3. \A y \in S : x <= y
  <2> TAKE y \in S
  <2>1. ~(y < x)
    BY <1>2 DEF Less
  <2> QED BY <2>1
<1> QED BY <1>3 DEF Policies!Min

\* A sequence without its n-th element.
LEMMA WithoutOne ==
  ASSUME NEW S, NEW s \in Seq(S), NEW n \in 1..Len(s)
  PROVE  LET t == SubSeq(s, 1, n - 1) \o SubSeq(s, n + 1, Len(s))
         IN  /\ t \in Seq(S)
             /\ Len(t) = Len(s) - 1
             /\ \A m \in 1..Len(t) : t[m] = s[IF m < n THEN m ELSE m + 1]
<1> DEFINE a == SubSeq(s, 1, n - 1)
           b == SubSeq(s, n + 1, Len(s))
           t == a \o b
<1>1. /\ a \in Seq(S) /\ Len(a) = n - 1
      /\ \A m \in 1..(n - 1) : a[m] = s[m]
  OBVIOUS
<1>2. /\ b \in Seq(S) /\ Len(b) = Len(s) - n
      /\ \A m \in 1..(Len(s) - n) : b[m] = s[n + m]
  OBVIOUS
<1> HIDE DEF a, b
<1>3. t \in Seq(S) /\ Len(t) = Len(s) - 1
  <2>1. a \in Seq(S) /\ b \in Seq(S) /\ Len(a) + Len(b) = Len(s) - 1
    BY <1>1, <1>2
  <2>2. t \in Seq(S) /\ Len(t) = Len(a) + Len(b)
    BY ONLY <2>1
  <2> QED BY <2>1, <2>2
<1>4. \A m \in 1..Len(t) : t[m] = IF m <= n - 1 THEN a[m] ELSE b[m - (n - 1)]
  BY <1>1, <1>2
<1> HIDE DEF t
<1>5. ASSUME NEW m \in 1..Len(t)
      PROVE  t[m] = s[IF m < n THEN m ELSE m + 1]
  <2>1. CASE m < n
    BY <1>1, <1>3, <1>4, <2>1
  <2>2. CASE ~(m < n)
    <3>1. m - (n - 1) \in 1..(Len(s) - n) /\ n + (m - (n - 1)) = m + 1
      BY <1>3, <2>2
    <3>2. t[m] = b[m - (n - 1)]
      BY <1>4, <2>2
    <3> QED BY <1>2, <2>2, <3>1, <3>2
  <2> QED BY <2>1, <2>2
<1> QED BY <1>3, <1>5 DEF a, b, t

OneEach(list) == \A m, n \in DOMAIN list : list[m].id = list[n].id => m = n
Falling(list) == \A m, n \in DOMAIN list : m < n => list[m].priority >= list[n].priority

PolicyList ==
  /\ policies \in Seq(Policies!Policy)
  /\ OneEach(policies)
  /\ Falling(policies)

\* Entries of passed up to this one are from before the bucket.
Before == Len(passed) - count

Limiter ==
  /\ limited \in BOOLEAN
  /\ time \in 1..LastTick
  /\ lastReset \in 0..time
  /\ count \in 0..MaxPerMin
  /\ passed \in Seq(Nat)
  /\ count <= Len(passed)
  /\ lastReset = 0 <=> count = 0
  /\ lastReset = 0 => Len(passed) = 0

Windows == \A j \in 1..Len(passed) :
  /\ passed[j] <= time
  /\ j <= Before + 1 => passed[j] <= lastReset
  /\ j <= Before + 1 - MaxPerMin => passed[j] + Minute < lastReset

Spread == \A n \in DOMAIN passed :
  n + 2 * MaxPerMin - 1 \in DOMAIN passed => passed[n + 2 * MaxPerMin - 1] - passed[n] > Minute

PoliciesInv == PolicyList /\ Limiter /\ Windows /\ Spread

\* Sorting leaves one policy an ID.
LEMMA SortedKeeps ==
  ASSUME NEW list \in Seq(Policies!Policy), OneEach(list), policies' \in Policies!Sorted(list)
  PROVE  PolicyList'
<1>1. PICK p \in [DOMAIN list -> DOMAIN list] :
        /\ Policies!IsInjective(p)
        /\ \A m, n \in DOMAIN list : m < n => list[p[m]].priority >= list[p[n]].priority
        /\ policies' = [n \in DOMAIN list |-> list[p[n]]]
  BY DEF Policies!Sorted
<1>2. DOMAIN list = 1..Len(list) /\ Len(list) \in Nat
  OBVIOUS
<1>3. policies' \in Seq(Policies!Policy) /\ DOMAIN policies' = DOMAIN list
  BY <1>1, <1>2
<1>4. OneEach(policies')
  <2> SUFFICES ASSUME NEW m \in DOMAIN list, NEW n \in DOMAIN list,
                      list[p[m]].id = list[p[n]].id
               PROVE  m = n
    BY <1>1, <1>3 DEF OneEach
  <2>1. p[m] = p[n]
    BY <1>1 DEF OneEach
  <2> QED BY <1>1, <2>1 DEF Policies!IsInjective
<1>5. Falling(policies')
  BY <1>1, <1>3 DEF Falling
<1> QED BY <1>3, <1>4, <1>5 DEF PolicyList, OneEach, Falling

LEMMA AddPolicyKeeps ==
  ASSUME PolicyList, NEW p \in Policies!Policy, Policies!AddPolicy(p)
  PROVE  PolicyList'
<1>1. ASSUME NEW n \in DOMAIN policies, policies[n].id = p.id,
             policies' \in Policies!Sorted([policies EXCEPT ![n] = p])
      PROVE  PolicyList'
  <2>1. [policies EXCEPT ![n] = p] \in Seq(Policies!Policy)
    BY DEF PolicyList
  <2>2. OneEach([policies EXCEPT ![n] = p])
    BY <1>1 DEF PolicyList, OneEach
  <2> QED BY <1>1, <2>1, <2>2, SortedKeeps
<1>2. ASSUME \A n \in DOMAIN policies : policies[n].id # p.id,
             policies' \in Policies!Sorted(Append(policies, p))
      PROVE  PolicyList'
  <2>1. Append(policies, p) \in Seq(Policies!Policy)
    BY DEF PolicyList
  <2>2. OneEach(Append(policies, p))
    BY <1>2 DEF PolicyList, OneEach
  <2> QED BY <1>2, <2>1, <2>2, SortedKeeps
<1> QED BY <1>1, <1>2 DEF Policies!AddPolicy

LEMMA RemovePolicyKeeps ==
  ASSUME PolicyList, NEW i \in Id, Policies!RemovePolicy(i)
  PROVE  PolicyList'
<1>1. PICK n \in DOMAIN policies : policies' = Policies!RemoveAt(policies, n)
  BY DEF Policies!RemovePolicy
<1>2. policies \in Seq(Policies!Policy) /\ n \in 1..Len(policies) /\ Len(policies) \in Nat
  BY DEF PolicyList
<1>3. /\ policies' \in Seq(Policies!Policy)
      /\ Len(policies') = Len(policies) - 1
      /\ \A m \in 1..Len(policies') : policies'[m] = policies[IF m < n THEN m ELSE m + 1]
  BY <1>1, <1>2, WithoutOne DEF Policies!RemoveAt
<1> DEFINE old(m) == IF m < n THEN m ELSE m + 1
<1>4. \A m \in DOMAIN policies' : old(m) \in DOMAIN policies /\ policies'[m] = policies[old(m)]
  BY <1>2, <1>3
<1>5. \A l, m \in DOMAIN policies' : /\ l < m => old(l) < old(m)
                                     /\ old(l) = old(m) => l = m
  BY <1>2, <1>3
<1> HIDE DEF old
<1>6. OneEach(policies')
  BY <1>4, <1>5 DEF PolicyList, OneEach
<1>7. Falling(policies')
  BY <1>4, <1>5 DEF PolicyList, Falling
<1> QED BY <1>3, <1>6, <1>7 DEF PolicyList, OneEach, Falling

LEMMA TickKeeps ==
  ASSUME Limiter, Windows, Spread, Policies!Tick
  PROVE  (Limiter /\ Windows /\ Spread)'
<1>1. /\ time' = time + 1 /\ time < LastTick
      /\ UNCHANGED <<limited, count, lastReset, passed>>
  BY DEF Policies!Tick
<1>2. Limiter'
  BY <1>1, PoliciesAssumption DEF Limiter
<1>3. Windows' /\ Spread'
  BY <1>1 DEF Limiter, Windows, Spread, Before
<1> QED BY <1>2, <1>3

\* A request that passes closes no span of twice the limit within a minute.
LEMMA EvaluateKeeps ==
  ASSUME Limiter, Windows, Spread, Policies!Evaluate
  PROVE  (Limiter /\ Windows /\ Spread)'
<1> DEFINE over == lastReset = 0 \/ time - lastReset > Minute
           used == IF over THEN 0 ELSE count
<1>1. /\ MaxPerMin \in Nat /\ MaxPerMin >= 1 /\ Minute \in Nat
      /\ time \in Nat /\ time >= 1 /\ lastReset \in Nat /\ lastReset <= time
      /\ count \in Nat /\ count <= MaxPerMin /\ count <= Len(passed)
      /\ passed \in Seq(Nat) /\ Len(passed) \in Nat /\ DOMAIN passed = 1..Len(passed)
      /\ lastReset = 0 <=> count = 0
      /\ lastReset = 0 => Len(passed) = 0
  BY PoliciesAssumption DEF Limiter
<1>2. /\ lastReset' = IF over THEN time ELSE lastReset
      /\ UNCHANGED <<limited, time>>
  BY DEF Policies!Evaluate
<1>3. CASE used >= MaxPerMin
  <2>1. ~over /\ lastReset' = lastReset
    BY <1>1, <1>2, <1>3
  <2>2. UNCHANGED <<limited, time, count, lastReset, passed>>
    BY <1>2, <1>3, <2>1 DEF Policies!Evaluate
  <2> QED BY <2>2 DEF Limiter, Windows, Spread, Before
<1>4. CASE ~(used >= MaxPerMin)
  <2>1. count' = used + 1 /\ passed' = Append(passed, time)
    BY <1>4 DEF Policies!Evaluate
  <2> DEFINE L == Len(passed)
  <2>2. /\ passed' \in Seq(Nat) /\ Len(passed') = L + 1 /\ DOMAIN passed' = 1..(L + 1)
        /\ passed'[L + 1] = time
        /\ \A j \in 1..L : passed'[j] = passed[j] /\ passed[j] \in Nat
    BY <1>1, <2>1
  <2>3. used \in Nat /\ used < MaxPerMin /\ used <= count
    BY <1>1, <1>4
  <2>4. count' \in 0..MaxPerMin /\ count' <= Len(passed') /\ count' # 0
    BY <1>1, <2>1, <2>2, <2>3
  <2>5. lastReset' \in 0..time /\ lastReset' # 0
    BY <1>1, <1>2
  <2>6. Limiter'
    BY <1>2, <2>2, <2>4, <2>5 DEF Limiter
  \* What was in the old bucket's time, seen from the new bucket.
  <2>7. over => /\ lastReset' = time /\ count' = 1
                /\ \A j \in 1..L : j <= L + 1 - MaxPerMin => passed[j] + Minute < time
    <3> SUFFICES ASSUME over, NEW j \in 1..L, j <= L + 1 - MaxPerMin
                 PROVE  passed[j] + Minute < time
      BY <1>2, <2>1
    <3>1. j <= L - count + 1
      BY <1>1
    <3>2. passed[j] <= lastReset
      BY <3>1 DEF Windows, Before
    <3>3. lastReset # 0 /\ time - lastReset > Minute
      BY <1>1
    <3> QED BY ONLY <1>1, <2>2, <3>2, <3>3
  <2>8. ~over => /\ lastReset' = lastReset /\ count' = count + 1 /\ count >= 1
    BY <1>1, <1>2, <2>1
  <2>9. \A j \in 1..L : passed[j] <= time
    BY DEF Windows
  <2>10. \A j \in 1..L : /\ j <= L - count + 1 => passed[j] <= lastReset
                         /\ j <= L - count + 1 - MaxPerMin => passed[j] + Minute < lastReset
    BY DEF Windows, Before
  <2>11. Windows'
    <3>0. Before' = L + 1 - count' /\ count' \in Nat
      BY <1>1, <2>2, <2>4 DEF Before
    <3> SUFFICES ASSUME NEW j \in 1..(L + 1)
                 PROVE  /\ passed'[j] <= time
                        /\ j <= L + 1 - count' + 1 => passed'[j] <= lastReset'
                        /\ j <= L + 1 - count' + 1 - MaxPerMin => passed'[j] + Minute < lastReset'
      BY <1>2, <2>2, <3>0 DEF Windows
    <3>1. CASE j = L + 1
      <4>1. passed'[j] = time
        BY <3>1, <2>2
      <4>2. CASE over
        <5>1. lastReset' = time /\ count' = 1
          BY <4>2, <2>7
        <5> QED BY ONLY <1>1, <3>1, <4>1, <5>1
      <4>3. CASE ~over
        <5>1. lastReset' = lastReset /\ count' = count + 1 /\ count >= 1
          BY <4>3, <2>8
        <5> QED BY ONLY <1>1, <3>1, <4>1, <5>1
      <4> QED BY <4>2, <4>3
    <3>2. CASE j # L + 1
      <4>1. j \in 1..L /\ passed'[j] = passed[j] /\ passed[j] \in Nat /\ passed[j] <= time
        BY <1>1, <3>2, <2>2, <2>9
      <4>2. CASE over
        <5>1. lastReset' = time /\ count' = 1
          BY <4>2, <2>7
        <5>2. j <= L + 1 - MaxPerMin => passed[j] + Minute < time
          BY <4>1, <4>2, <2>7
        <5> QED BY ONLY <1>1, <4>1, <5>1, <5>2
      <4>3. CASE ~over
        <5>1. lastReset' = lastReset /\ count' = count + 1
          BY <4>3, <2>8
        <5>2. /\ j <= L - count + 1 => passed[j] <= lastReset
              /\ j <= L - count + 1 - MaxPerMin => passed[j] + Minute < lastReset
          BY <4>1, <2>10
        <5> QED BY ONLY <1>1, <4>1, <5>1, <5>2
      <4> QED BY <4>2, <4>3
    <3> QED BY <3>1, <3>2
  <2>12. Spread'
    <3> DEFINE span == 2 * MaxPerMin - 1
    <3>0. span \in Nat /\ span >= MaxPerMin
      BY <1>1
    <3> SUFFICES ASSUME NEW n \in 1..(L + 1), n + span \in 1..(L + 1)
                 PROVE  passed'[n + span] - passed'[n] > Minute
      BY <1>1, <2>2 DEF Spread
    <3>1. CASE n + span \in 1..L
      <4>1. n \in 1..L
        BY ONLY <1>1, <3>0, <3>1
      <4>2. passed'[n + span] = passed[n + span] /\ passed'[n] = passed[n]
        BY <2>2, <3>1, <4>1
      <4>3. n \in DOMAIN passed /\ n + 2 * MaxPerMin - 1 \in DOMAIN passed
        BY <1>1, <3>1, <4>1
      <4> QED BY <1>1, <4>2, <4>3 DEF Spread
    <3>2. CASE n + span = L + 1
      <4>1. n \in 1..L /\ n <= L + 1 - MaxPerMin
        BY ONLY <1>1, <3>0, <3>2
      <4>2. passed'[n + span] = time /\ passed'[n] = passed[n] /\ passed[n] \in Nat
        BY <2>2, <3>2, <4>1
      <4>3. passed[n] + Minute < time
        <5>1. CASE over
          BY <4>1, <5>1, <2>7
        <5>2. CASE ~over
          <6>1. count < MaxPerMin
            BY <5>2, <2>3
          <6>2. n <= L - count + 1 - MaxPerMin
            BY ONLY <1>1, <3>2, <6>1
          <6>3. passed[n] + Minute < lastReset
            BY <4>1, <6>2, <2>10
          <6> QED BY ONLY <1>1, <4>2, <6>3
        <5> QED BY <5>1, <5>2
      <4> QED BY ONLY <1>1, <4>2, <4>3
    <3>3. n + span \in 1..L \/ n + span = L + 1
      BY ONLY <1>1, <3>0, n + span \in 1..(L + 1)
    <3> QED BY <3>1, <3>2, <3>3
  <2> QED BY <2>6, <2>11, <2>12
<1> QED BY <1>3, <1>4

LEMMA PoliciesStep == PoliciesInv /\ [Policies!Next]_(Policies!vars) => PoliciesInv'
<1> SUFFICES ASSUME PoliciesInv, [Policies!Next]_(Policies!vars) PROVE PoliciesInv'
  OBVIOUS
<1>1. ASSUME UNCHANGED Policies!bucket PROVE (Limiter /\ Windows /\ Spread)'
  BY <1>1 DEF Policies!bucket, PoliciesInv, Limiter, Windows, Spread, Before
<1>2. ASSUME UNCHANGED policies PROVE PolicyList'
  BY <1>2 DEF PoliciesInv, PolicyList, OneEach, Falling
<1>3. ASSUME NEW p \in Policies!Policy, Policies!AddPolicy(p) PROVE PoliciesInv'
  BY <1>1, <1>3, AddPolicyKeeps DEF PoliciesInv, Policies!AddPolicy
<1>4. ASSUME NEW i \in Id, Policies!RemovePolicy(i) PROVE PoliciesInv'
  BY <1>1, <1>4, RemovePolicyKeeps DEF PoliciesInv, Policies!RemovePolicy
<1>5. CASE Policies!SetLimit
  BY <1>2, <1>5 DEF Policies!SetLimit, PoliciesInv, Limiter, Windows, Spread, Before
<1>6. CASE Policies!Tick
  BY <1>2, <1>6, TickKeeps DEF Policies!Tick, PoliciesInv
<1>7. CASE Policies!Evaluate
  BY <1>2, <1>7, EvaluateKeeps DEF Policies!Evaluate, PoliciesInv
<1>8. CASE UNCHANGED Policies!vars
  BY <1>1, <1>2, <1>8 DEF Policies!vars, PoliciesInv
<1> QED BY <1>3, <1>4, <1>5, <1>6, <1>7, <1>8 DEF Policies!Next

LEMMA PoliciesInvariant == Policies!Spec => []PoliciesInv
<1>1. Policies!Init => PoliciesInv
  <2> SUFFICES ASSUME Policies!Init PROVE PoliciesInv
    OBVIOUS
  <2>1. PolicyList
    BY DEF Policies!Init, PolicyList, OneEach, Falling
  <2>2. limited = FALSE /\ time = 1 /\ count = 0 /\ lastReset = 0
        /\ passed = <<>> /\ Len(passed) = 0
    BY DEF Policies!Init
  <2>3. passed \in Seq(Nat) /\ DOMAIN passed = {}
    BY <2>2
  <2>4. Limiter
    <3>1. limited \in BOOLEAN /\ (lastReset = 0 <=> count = 0)
      BY <2>2
    <3>2. /\ time \in 1..LastTick /\ lastReset \in 0..time /\ count \in 0..MaxPerMin
          /\ count <= Len(passed)
      BY ONLY <2>2, PoliciesAssumption
    <3> QED BY <2>2, <2>3, <3>1, <3>2 DEF Limiter
  <2>5. Windows /\ Spread
    BY <2>2, <2>3 DEF Windows, Spread
  <2> QED BY <2>1, <2>4, <2>5 DEF PoliciesInv
<1> QED BY <1>1, PoliciesStep, PTL DEF Policies!Spec

\* The decision is that of a matching policy of the highest priority.
LEMMA Decided ==
  ASSUME PolicyList, NEW r \in Request
  PROVE  LET all == {policies[n] : n \in {m \in DOMAIN policies : Policies!Matches(policies[m], r)}}
             top == {p \in all : \A q \in all : q.priority <= p.priority}
         IN  IF all = {} THEN Policies!Decision(r) = Policies!Deny
             ELSE \E p \in top :
                    Policies!Decision(r) = [effect |-> p.rules[Policies!First(p, r)].effect,
                                            by |-> {p.id}]
<1> DEFINE matching == {n \in DOMAIN policies : Policies!Matches(policies[n], r)}
           all == {policies[n] : n \in matching}
           top == {p \in all : \A q \in all : q.priority <= p.priority}
           p0 == policies[Policies!Min(matching)]
<1>1. Policies!Decision(r) =
        IF matching = {} THEN Policies!Deny
        ELSE [effect |-> p0.rules[Policies!First(p0, r)].effect, by |-> {p0.id}]
  BY DEF Policies!Decision
<1>2. CASE matching = {}
  BY <1>1, <1>2
<1>3. CASE matching # {}
  <2>1. matching \in SUBSET Nat /\ \A n \in matching : policies[n].priority \in Int
    <3>1. \A n \in DOMAIN policies : n \in Nat /\ policies[n] \in Policies!Policy
      BY DEF PolicyList
    <3>2. \A p \in Policies!Policy : p.priority \in Int
      BY PoliciesAssumption DEF Policies!Policy
    <3> QED BY <3>1, <3>2
  <2>2. /\ Policies!Min(matching) \in matching
        /\ \A n \in matching : Policies!Min(matching) <= n
    BY <1>3, <2>1, LeastOf
  <2>3. \A n \in matching : policies[n].priority <= p0.priority
    <3> TAKE n \in matching
    <3>1. CASE n = Policies!Min(matching)
      BY <3>1, <2>1
    <3>2. CASE n # Policies!Min(matching)
      <4>1. Policies!Min(matching) < n
        BY <3>2, <2>1, <2>2
      <4> QED BY <4>1, <2>1, <2>2 DEF PolicyList, Falling
    <3> QED BY <3>1, <3>2
  <2>4. p0 \in top
    BY <2>2, <2>3
  <2>5. all # {}
    BY <2>2
  <2>6. Policies!Decision(r) = [effect |-> p0.rules[Policies!First(p0, r)].effect, by |-> {p0.id}]
    BY <1>1, <1>3
  <2> HIDE DEF p0, top, all
  <2> QED BY <2>4, <2>5, <2>6 DEF all, top
<1> QED BY <1>2, <1>3

LEMMA PolicyDecides == PoliciesInv => Policies!PolicyRight
<1> SUFFICES ASSUME PoliciesInv PROVE Policies!PolicyRight
  OBVIOUS
<1>1. \A p, q \in Policies!Range(policies) : p.id = q.id => p = q
  BY DEF PoliciesInv, PolicyList, OneEach, Policies!Range
<1>2. Spread
  BY DEF PoliciesInv
<1> QED BY <1>1, <1>2, Decided DEF PoliciesInv, Spread, Policies!PolicyRight

-----------------------------------------------------------------------------
(* Rules: a rule's counts are the outcomes under its ID since it was added *)
(* and the loop of Evaluate holds, after n rules, the best of those n.     *)

\* Of the numbers in fit up to n, the one of the highest grade, and the least
\* of these.
Leading(fit, grade, n) ==
  {x \in fit : x <= n /\ \A m \in fit \ {x} :
                 m <= n => grade[x] > grade[m] \/ (grade[x] = grade[m] /\ x < m)}

LEMMA SomeLeads ==
  ASSUME NEW L \in Nat, NEW fit \in SUBSET (1..L), NEW grade \in [1..L -> Int],
         NEW n \in 0..L, NEW k \in fit, k <= n
  PROVE  Leading(fit, grade, n) # {}
<1> DEFINE Bad == {m \in 0..L : Leading(fit, grade, m) = {} /\ \E x \in fit : x <= m}
<1>1. Bad = {}
  <2> SUFFICES ASSUME Bad # {} PROVE FALSE
    OBVIOUS
  <2>1. PICK m \in Bad : \A l \in Bad : m <= l
    <3>1. Bad \in SUBSET Nat
      OBVIOUS
    <3> HIDE DEF Bad
    <3> QED BY <3>1, LeastOf
  <2>2. PICK x \in fit : x <= m
    OBVIOUS
  <2>3. m \in 1..L /\ m - 1 \in 0..L /\ m - 1 \notin Bad
    <3>1. m \in 0..L /\ x \in 1..L /\ m # 0
      BY <2>2
    <3>2. m \in 1..L /\ m - 1 \in 0..L /\ ~(m <= m - 1)
      BY ONLY <3>1, L \in Nat
    <3> HIDE DEF Bad
    <3> QED BY <2>1, <3>2
  <2>4. CASE \E y \in fit : y <= m - 1
    <3>1. PICK y \in Leading(fit, grade, m - 1) : TRUE
      BY <2>3, <2>4
    <3>2. /\ y \in fit /\ y \in 1..L /\ y <= m - 1 /\ grade[y] \in Int
          /\ \A z \in fit \ {y} : z <= m - 1 => grade[y] > grade[z] \/ (grade[y] = grade[z] /\ y < z)
          /\ \A z \in fit : z \in 1..L /\ grade[z] \in Int
      BY <3>1 DEF Leading
    <3>3. CASE m \in fit /\ grade[m] > grade[y]
      <4>1. ASSUME NEW z \in fit \ {m}, z <= m PROVE grade[m] > grade[z]
        <5>1. z \in 1..L /\ z <= m - 1 /\ grade[z] \in Int /\ grade[m] \in Int
          BY <2>3, <3>2, <4>1
        <5>2. z # y => grade[y] > grade[z] \/ grade[y] = grade[z]
          BY <3>2, <5>1
        <5> QED BY ONLY <3>2, <3>3, <5>1, <5>2
      <4>2. m <= m
        BY <2>3
      <4>3. m \in Leading(fit, grade, m)
        BY <3>3, <4>1, <4>2 DEF Leading
      <4> QED BY <4>3
    <3>4. CASE ~(m \in fit /\ grade[m] > grade[y])
      <4>1. \A z \in fit \ {y} : z <= m => grade[y] > grade[z] \/ (grade[y] = grade[z] /\ y < z)
        BY <2>3, <3>2, <3>4
      <4>2. y \in Leading(fit, grade, m)
        BY <2>3, <3>2, <4>1 DEF Leading
      <4> QED BY <4>2
    <3> QED BY <3>3, <3>4
  <2>5. CASE ~\E y \in fit : y <= m - 1
    <3>1. \A y \in fit : y <= m => y = m
      BY <2>3, <2>5
    <3>2. m \in fit /\ \A z \in fit \ {m} : ~(z <= m)
      BY <2>2, <3>1
    <3>3. m <= m /\ \A z \in fit \ {m} :
            z <= m => grade[m] > grade[z] \/ (grade[m] = grade[z] /\ m < z)
      BY <2>3, <3>2
    <3>4. m \in Leading(fit, grade, m)
      BY <3>2, <3>3 DEF Leading
    <3> QED BY <3>4
  <2> QED BY <2>4, <2>5
<1> QED BY <1>1

Takes(fit, grade, n) ==
  n \in fit /\ \A x \in Leading(fit, grade, n - 1) : grade[n] > grade[x]

\* One more number either leads or changes nothing.
LEMMA LeadingStep ==
  ASSUME NEW L \in Nat, NEW fit \in SUBSET (1..L), NEW grade \in [1..L -> Int], NEW n \in 1..L
  PROVE  /\ Takes(fit, grade, n) => Leading(fit, grade, n) = {n}
         /\ ~Takes(fit, grade, n) => Leading(fit, grade, n) = Leading(fit, grade, n - 1)
<1>0. /\ \A z \in fit : z \in 1..L /\ grade[z] \in Int
      /\ n - 1 \in 0..L
  OBVIOUS
<1>1. CASE Takes(fit, grade, n)
  <2>1. \A z \in fit : z <= n - 1 => grade[n] > grade[z]
    <3> SUFFICES ASSUME NEW z \in fit, z <= n - 1 PROVE grade[n] > grade[z]
      OBVIOUS
    <3>1. PICK x \in Leading(fit, grade, n - 1) : TRUE
      BY <1>0, SomeLeads
    <3>2. x \in fit /\ (z # x => grade[x] > grade[z] \/ grade[x] = grade[z])
      BY <3>1 DEF Leading
    <3>3. grade[n] > grade[x]
      BY <1>1, <3>1 DEF Takes
    <3>4. n \in fit
      BY <1>1 DEF Takes
    <3> QED BY <1>0, <3>2, <3>3, <3>4
  <2>2. n \in Leading(fit, grade, n)
    BY <1>0, <1>1, <2>1 DEF Leading, Takes
  <2>3. \A z \in Leading(fit, grade, n) : z = n
    BY <1>0, <1>1, <2>1 DEF Leading, Takes
  <2>4. Leading(fit, grade, n) = {n}
    BY <2>2, <2>3
  <2> QED BY <1>1, <2>4
<1>2. CASE n \notin fit
  <2>1. \A z \in fit : z <= n <=> z <= n - 1
    BY <1>0, <1>2
  <2>2. \A z : z \in Leading(fit, grade, n) <=> z \in Leading(fit, grade, n - 1)
    BY <2>1 DEF Leading
  <2>3. Leading(fit, grade, n) = Leading(fit, grade, n - 1)
    BY <2>2
  <2> QED BY <1>2, <2>3 DEF Takes
<1>3. CASE n \in fit /\ \E x \in Leading(fit, grade, n - 1) : ~(grade[n] > grade[x])
  <2>1. PICK x \in Leading(fit, grade, n - 1) : ~(grade[n] > grade[x])
    BY <1>3
  <2>2. /\ x \in fit /\ x <= n - 1
        /\ \A z \in fit \ {x} : z <= n - 1 => grade[x] > grade[z] \/ (grade[x] = grade[z] /\ x < z)
    BY <2>1 DEF Leading
  <2>3. x \in Leading(fit, grade, n)
    BY <1>0, <1>3, <2>1, <2>2 DEF Leading
  <2>4. \A z \in Leading(fit, grade, n - 1) : z = x
    BY <1>0, <2>2 DEF Leading
  <2>5. \A z \in Leading(fit, grade, n) : z = x
    BY <1>0, <2>2, <2>3 DEF Leading
  <2>6. Leading(fit, grade, n) = {x}
    BY <2>3, <2>5
  <2>7. Leading(fit, grade, n - 1) = {x}
    BY <2>1, <2>4
  <2>8. ~Takes(fit, grade, n)
    BY <2>1 DEF Takes
  <2> QED BY <2>6, <2>7, <2>8
<1> QED BY <1>1, <1>2, <1>3 DEF Takes

-----------------------------------------------------------------------------
LEMMA RuleBounds == Top \in Nat /\ MaxCount \in Nat /\ Nil \notin Rules!RuleID
BY RulesAssumption

LEMMA ReplacedIn ==
  ASSUME NEW S, NEW q \in Seq(S), NEW k, NEW x, x \in S \/ k \notin DOMAIN q
  PROVE  [q EXCEPT ![k] = x] \in Seq(S)
<1>1. /\ Len(q) \in Nat /\ DOMAIN q = 1..Len(q)
      /\ \A n \in 1..Len(q) : q[n] \in S
  OBVIOUS
<1>2. CASE k \notin DOMAIN q
  <2>1. [q EXCEPT ![k] = x] = q
    BY <1>2
  <2> QED BY <2>1
<1>3. CASE k \in DOMAIN q
  <2> DEFINE new == [n \in 1..Len(q) |-> IF n = k THEN x ELSE q[n]]
  <2>1. [q EXCEPT ![k] = x] = new
    BY <1>1
  <2>2. \A n \in 1..Len(q) : new[n] \in S
    BY <1>1, <1>3
  <2> HIDE DEF new
  <2>3. new \in Seq(S)
    <3>1. new = [n \in 1..Len(q) |-> new[n]]
      BY DEF new
    <3> QED BY <1>1, <2>2, <3>1
  <2> QED BY <2>1, <2>3
<1> QED BY <1>2, <1>3

RuleRow == [id : Rules!RuleID, priority : Int, enabled : BOOLEAN,
            conditions : Seq(Rules!Condition), auto : BOOLEAN, good : Nat, bad : Nat]

\* What the loop of Evaluate computes.
LEMMA EvaluateBest ==
  ASSUME rules \in Seq(RuleRow), NEW event \in Rules!Events
  PROVE  LET fit == {n \in DOMAIN rules : rules[n].enabled /\ Rules!matchesEvent(rules[n], event)}
             better(m, n) == \/ rules[m].priority > rules[n].priority
                             \/ rules[m].priority = rules[n].priority /\ m < n
         IN  Rules!Evaluate(event) =
               {rules[n] : n \in {x \in fit : \A m \in fit \ {x} : better(x, m)}}
<1> DEFINE L == Len(rules)
           fit == {n \in DOMAIN rules : rules[n].enabled /\ Rules!matchesEvent(rules[n], event)}
           grade == [n \in 1..L |-> rules[n].priority]
           Turn(best) == [n \in 0..L |->
             IF n = 0 THEN {}
             ELSE IF /\ rules[n].enabled /\ Rules!matchesEvent(rules[n], event)
                     /\ \A b \in best[n - 1] : rules[n].priority > b.priority
               THEN {rules[n]} ELSE best[n - 1]]
           led == [n \in 0..L |-> {rules[x] : x \in Leading(fit, grade, n)}]
           best0 == CHOOSE best : best = Turn(best)
<1>1. Rules!Evaluate(event) = best0[L]
  BY DEF Rules!Evaluate
<1>2. /\ L \in Nat /\ fit \in SUBSET (1..L) /\ grade \in [1..L -> Int]
      /\ \A n \in 1..L :
           n \in fit <=> rules[n].enabled /\ Rules!matchesEvent(rules[n], event)
  <2>1. L \in Nat /\ DOMAIN rules = 1..L /\ \A n \in 1..L : rules[n] \in RuleRow
    OBVIOUS
  <2>2. \A r \in RuleRow : r.priority \in Int
    BY DEF RuleRow
  <2>3. grade \in [1..L -> Int]
    BY <2>1, <2>2
  <2>4. fit \in SUBSET (1..L)
    BY <2>1
  <2>5. \A n \in 1..L : n \in fit <=> rules[n].enabled /\ Rules!matchesEvent(rules[n], event)
    BY <2>1
  <2> QED BY <2>1, <2>3, <2>4, <2>5
<1>3. led = Turn(led)
  <2> SUFFICES ASSUME NEW n \in 0..L PROVE led[n] = Turn(led)[n]
    OBVIOUS
  <2>1. CASE n = 0
    <3>1. Leading(fit, grade, n) = {}
      BY <1>2, <2>1 DEF Leading
    <3> QED BY <2>1, <3>1
  <2>2. CASE n # 0
    <3>1. n \in 1..L /\ n - 1 \in 0..L
      BY <1>2, <2>2
    <3> DEFINE lead == Leading(fit, grade, n - 1)
    <3>2. lead \in SUBSET (1..L)
      BY <1>2 DEF Leading
    <3>3. (\A b \in led[n - 1] : rules[n].priority > b.priority)
            <=> (\A x \in lead : grade[n] > grade[x])
      <4>1. led[n - 1] = {rules[x] : x \in lead}
        BY <3>1
      <4>2. grade[n] = rules[n].priority /\ \A x \in lead : grade[x] = rules[x].priority
        BY <3>1, <3>2
      <4> QED BY <4>1, <4>2
    <3>4. /\ Takes(fit, grade, n) => Leading(fit, grade, n) = {n}
          /\ ~Takes(fit, grade, n) => Leading(fit, grade, n) = lead
      <4>1. L \in Nat /\ fit \in SUBSET (1..L) /\ grade \in [1..L -> Int] /\ n \in 1..L
        BY <1>2, <3>1
      <4> HIDE DEF fit, grade, L
      <4> QED BY ONLY <4>1, LeadingStep, SMTT(30)
    <3>7. Takes(fit, grade, n) <=> n \in fit /\ \A x \in lead : grade[n] > grade[x]
      BY DEF Takes
    <3>5. led[n] = {rules[x] : x \in Leading(fit, grade, n)} /\ led[n - 1] = {rules[x] : x \in lead}
      BY <3>1
    <3>6. Turn(led)[n] = IF /\ n \in fit /\ \A b \in led[n - 1] : rules[n].priority > b.priority
                             THEN {rules[n]} ELSE led[n - 1]
      BY <1>2, <2>2, <3>1
    <3> HIDE DEF led, lead, Turn, fit, grade
    <3> QED BY <3>3, <3>4, <3>5, <3>6, <3>7
  <2> QED BY <2>1, <2>2
<1>4. best0 = Turn(best0)
  BY <1>3
<1>5. ASSUME NEW n \in 0..L PROVE best0[n] = led[n]
  <2> DEFINE Bad == {m \in 0..L : best0[m] # led[m]}
  <2>1. Bad = {}
    <3> SUFFICES ASSUME Bad # {} PROVE FALSE
      OBVIOUS
    <3>1. PICK m \in Bad : \A l \in Bad : m <= l
      <4>1. Bad \in SUBSET Nat
        OBVIOUS
      <4> HIDE DEF Bad
      <4> QED BY <4>1, LeastOf
    <3>2. m \in 0..L /\ best0[m] = Turn(best0)[m] /\ led[m] = Turn(led)[m]
      BY <1>3, <1>4
    <3>3. m # 0
      BY <3>1, <3>2
    <3>4. m - 1 \in 0..L /\ best0[m - 1] = led[m - 1]
      <4>1. m - 1 \in 0..L /\ ~(m <= m - 1)
        BY ONLY <1>2, <3>2, <3>3
      <4>2. m - 1 \notin Bad
        <5> HIDE DEF Bad
        <5> QED BY <3>1, <4>1
      <4> HIDE DEF best0, led
      <4> QED BY <4>1, <4>2
    <3>5. Turn(best0)[m] = Turn(led)[m]
      BY <3>2, <3>4
    <3> QED BY <3>1, <3>2, <3>5
  <2> QED BY <2>1
<1>6. Rules!Evaluate(event) = {rules[x] : x \in Leading(fit, grade, L)}
  <2>1. L \in 0..L
    BY ONLY <1>2
  <2>2. best0[L] = led[L]
    BY <1>5, <2>1
  <2>3. led[L] = {rules[x] : x \in Leading(fit, grade, L)}
    BY <2>1
  <2> HIDE DEF best0, led, fit, grade, L
  <2> QED BY <1>1, <2>2, <2>3
<1>7. Leading(fit, grade, L) =
        {x \in fit : \A m \in fit \ {x} : \/ rules[x].priority > rules[m].priority
                                          \/ rules[x].priority = rules[m].priority /\ x < m}
  <2>1. \A x \in fit : x <= L /\ grade[x] = rules[x].priority
    BY <1>2
  <2> HIDE DEF fit, grade
  <2> QED BY <2>1 DEF Leading
<1> QED BY <1>6, <1>7

\* The counts of a rule, and the history of its ID.
RuleTable ==
  /\ rules \in Seq(RuleRow)
  /\ OneEach(rules)
  /\ \A n \in DOMAIN rules : rules[n].good + rules[n].bad <= MaxCount

Counted ==
  /\ since \in [Rules!RuleID -> [good : Nat, bad : Nat]]
  /\ \A n \in DOMAIN rules : /\ since[rules[n].id].good = rules[n].good
                             /\ since[rules[n].id].bad = rules[n].bad

Directed ==
  /\ way \in [Rules!RuleID -> {"none", "tighten", "relax"}]
  /\ \A i \in Rules!RuleID : way[i] = "tighten" => since[i].bad > 0

Earned ==
  /\ earned \subseteq [id : Rules!RuleID, good : 0..MaxCount, bad : 0..MaxCount]
  /\ \A e \in earned : e.good >= Streak /\ e.bad = 0

\* What a call of TuneThresholds has read of a rule still holds of it.
CallsRight ==
  /\ tuning \in [Tuner -> Rules!Call]
  /\ \A t \in Tuner :
       /\ tuning[t].move = "tighten" => /\ tuning[t].of \in Rules!RuleID
                                        /\ since[tuning[t].of].bad > 0
       /\ tuning[t].at = "promote" => \E e \in earned : e.id = tuning[t].of

RulesInv == RuleTable /\ Counted /\ Directed /\ Earned /\ CallsRight

LEMMA BetweenRules ==
  ASSUME NEW left \in SUBSET Rules!RuleID
  PROVE  /\ Rules!Going(left) \in Rules!Call /\ Rules!Going(left).move = "none"
         /\ Rules!Going(left).at = "next" /\ Rules!Idle \in Rules!Call
         /\ Rules!Idle.move = "none" /\ Rules!Idle.at = "idle"
<1>1. /\ Rules!Idle = [at |-> "idle", left |-> {}, of |-> Nil, total |-> 0,
                       move |-> "none", next |-> 0]
      /\ Rules!Going(left) = [at |-> "next", left |-> left, of |-> Nil, total |-> 0,
                              move |-> "none", next |-> 0]
  BY DEF Rules!Going, Rules!Idle, Rules!Stage
<1>2. 0 \in 0..MaxCount /\ 0 \in Nat
  BY RuleBounds
<1> QED BY <1>1, <1>2 DEF Rules!Call

LEMMA NewRow == \A r \in Written : /\ Rules!New(r) \in RuleRow
                                   /\ Rules!New(r).id = r.id /\ r.id \in Rules!RuleID
                                   /\ Rules!New(r).good = 0 /\ Rules!New(r).bad = 0
BY RulesAssumption DEF Rules!New, RuleRow, Rules!RuleID

LEMMA ForgottenKeeps ==
  ASSUME RulesInv, NEW i \in Rules!RuleID, Rules!Forgotten(i)
  PROVE  /\ Directed' /\ Earned' /\ CallsRight'
         /\ since' = [since EXCEPT ![i] = [good |-> 0, bad |-> 0]]
         /\ since' \in [Rules!RuleID -> [good : Nat, bad : Nat]]
<1>1. /\ Directed' /\ Earned'
      /\ since' = [since EXCEPT ![i] = [good |-> 0, bad |-> 0]]
      /\ since' \in [Rules!RuleID -> [good : Nat, bad : Nat]]
      /\ earned' = {e \in earned : e.id # i}
  BY DEF Rules!Forgotten, RulesInv, Directed, Earned, Counted
<1>2. tuning' = [t \in Tuner |->
        IF tuning[t].of = i
        THEN Rules!Going(tuning[t].left \ {i})
        ELSE [tuning[t] EXCEPT !.left = @ \ {i}]]
  BY DEF Rules!Forgotten
<1>3. ASSUME NEW t \in Tuner
      PROVE  /\ tuning'[t] \in Rules!Call
             /\ tuning'[t].move = "tighten" => /\ tuning'[t].of \in Rules!RuleID
                                               /\ since'[tuning'[t].of].bad > 0
             /\ tuning'[t].at = "promote" => \E e \in earned' : e.id = tuning'[t].of
  <2>1. /\ tuning[t] \in Rules!Call /\ tuning[t].left \ {i} \in SUBSET Rules!RuleID
        /\ tuning[t].move = "tighten" => /\ tuning[t].of \in Rules!RuleID
                                         /\ since[tuning[t].of].bad > 0
        /\ tuning[t].at = "promote" => \E e \in earned : e.id = tuning[t].of
    BY DEF RulesInv, CallsRight, Rules!Call
  <2>2. CASE tuning[t].of = i
    <3>1. tuning'[t] = Rules!Going(tuning[t].left \ {i})
      BY <1>2, <2>2
    <3>2. tuning'[t] \in Rules!Call /\ tuning'[t].move = "none" /\ tuning'[t].at = "next"
      BY <2>1, <3>1, BetweenRules
    <3> QED BY <3>2
  <2>3. CASE tuning[t].of # i
    <3>1. tuning'[t] = [tuning[t] EXCEPT !.left = @ \ {i}]
      BY <1>2, <2>3
    <3>2. /\ tuning'[t] \in Rules!Call /\ tuning'[t].of = tuning[t].of
          /\ tuning'[t].at = tuning[t].at /\ tuning'[t].move = tuning[t].move
      BY <2>1, <3>1 DEF Rules!Call
    <3>3. tuning[t].of \in Rules!RuleID => since'[tuning[t].of] = since[tuning[t].of]
      BY <1>1, <2>3 DEF RulesInv, Counted
    <3> QED BY <1>1, <2>1, <2>3, <3>2, <3>3
  <2> QED BY <2>2, <2>3
<1>4. CallsRight'
  <2>1. tuning' \in [Tuner -> Rules!Call]
    BY <1>2, <1>3
  <2> QED BY <1>3, <2>1 DEF CallsRight
<1> QED BY <1>1, <1>4

LEMMA RowFacts ==
  ASSUME RulesInv
  PROVE  /\ rules \in Seq(RuleRow) /\ Len(rules) \in Nat /\ DOMAIN rules = 1..Len(rules)
         /\ OneEach(rules)
         /\ \A m \in DOMAIN rules : /\ rules[m] \in RuleRow
                                    /\ rules[m].good \in Nat /\ rules[m].bad \in Nat
                                    /\ rules[m].id \in Rules!RuleID
                                    /\ rules[m].good + rules[m].bad <= MaxCount
<1>1. rules \in Seq(RuleRow) /\ OneEach(rules)
      /\ \A m \in DOMAIN rules : rules[m].good + rules[m].bad <= MaxCount
  BY DEF RulesInv, RuleTable
<1>2. Len(rules) \in Nat /\ DOMAIN rules = 1..Len(rules)
      /\ \A m \in DOMAIN rules : rules[m] \in RuleRow
  BY <1>1
<1>3. \A r \in RuleRow : r.good \in Nat /\ r.bad \in Nat /\ r.id \in Rules!RuleID
  BY DEF RuleRow
<1> QED BY <1>1, <1>2, <1>3

LEMMA AddRuleKeeps ==
  ASSUME RulesInv, NEW r \in Written, Rules!AddRule(r)
  PROVE  RulesInv'
<1>1. /\ rules \in Seq(RuleRow) /\ Len(rules) \in Nat /\ DOMAIN rules = 1..Len(rules)
      /\ OneEach(rules) /\ r.id \in Rules!RuleID
      /\ \A n \in DOMAIN rules : /\ rules[n].good + rules[n].bad <= MaxCount
                                 /\ rules[n].id \in Rules!RuleID
  BY NewRow, RowFacts
<1>2. /\ Directed' /\ Earned' /\ CallsRight'
      /\ since' = [since EXCEPT ![r.id] = [good |-> 0, bad |-> 0]]
      /\ since' \in [Rules!RuleID -> [good : Nat, bad : Nat]]
  BY <1>1, ForgottenKeeps DEF Rules!AddRule
<1>3. PICK new \in RuleRow : /\ new = Rules!New(r)
                             /\ new.id = r.id /\ new.good = 0 /\ new.bad = 0
  BY NewRow
<1>4. PICK n \in 1..(Len(rules) + 1) :
        /\ rules' \in Seq(RuleRow)
        /\ n \in DOMAIN rules' /\ rules'[n] = new
        /\ \A m \in DOMAIN rules' \ {n} : m \in DOMAIN rules /\ rules'[m] = rules[m] /\ rules[m].id # r.id
  <2>1. CASE Rules!At(r.id) = {}
    <3>1. rules' = Append(rules, new)
      BY <2>1, <1>3 DEF Rules!AddRule
    <3>2. \A m \in DOMAIN rules : rules[m].id # r.id
      BY <2>1 DEF Rules!At
    <3>3. /\ rules' \in Seq(RuleRow) /\ DOMAIN rules' = 1..(Len(rules) + 1)
          /\ rules'[Len(rules) + 1] = new
          /\ \A m \in 1..Len(rules) : rules'[m] = rules[m]
      BY <1>1, <1>3, <3>1
    <3> QED BY <1>1, <3>2, <3>3
  <2>2. CASE Rules!At(r.id) # {}
    <3>1. PICK n \in Rules!At(r.id) : rules' = [rules EXCEPT ![n] = new]
      BY <2>2, <1>3 DEF Rules!AddRule
    <3>2. n \in DOMAIN rules /\ rules[n].id = r.id /\ n \in 1..(Len(rules) + 1)
      BY <1>1, <3>1 DEF Rules!At
    <3>3. rules' \in Seq(RuleRow) /\ DOMAIN rules' = DOMAIN rules
      BY <1>1, <1>3, <3>1, <3>2
    <3> QED BY <1>1, <3>1, <3>2, <3>3 DEF OneEach
  <2> QED BY <2>1, <2>2
<1>5. RuleTable'
  <2>1. OneEach(rules')
    BY <1>3, <1>4, <1>1 DEF OneEach
  <2>2. \A m \in DOMAIN rules' : rules'[m].good + rules'[m].bad <= MaxCount
    BY <1>1, <1>3, <1>4, RulesAssumption
  <2> QED BY <1>4, <2>1, <2>2 DEF RuleTable, OneEach
<1>6. Counted'
  BY <1>1, <1>2, <1>3, <1>4 DEF RulesInv, Counted
<1> QED BY <1>2, <1>5, <1>6 DEF RulesInv

LEMMA RemoveRuleKeeps ==
  ASSUME RulesInv, NEW i \in Rules!RuleID, Rules!RemoveRule(i)
  PROVE  RulesInv'
<1>1. /\ rules \in Seq(RuleRow) /\ Len(rules) \in Nat /\ DOMAIN rules = 1..Len(rules)
      /\ OneEach(rules)
      /\ \A m \in DOMAIN rules : /\ rules[m].good + rules[m].bad <= MaxCount
                                 /\ rules[m].id \in Rules!RuleID
  BY RowFacts
<1>2. /\ Directed' /\ Earned' /\ CallsRight'
      /\ since' = [since EXCEPT ![i] = [good |-> 0, bad |-> 0]]
      /\ since' \in [Rules!RuleID -> [good : Nat, bad : Nat]]
  BY ForgottenKeeps DEF Rules!RemoveRule
<1>3. PICK n \in DOMAIN rules : rules[n].id = i /\ rules' = Rules!RemoveAt(rules, n)
  BY DEF Rules!RemoveRule, Rules!At
<1>4. /\ rules' \in Seq(RuleRow)
      /\ Len(rules') = Len(rules) - 1
      /\ \A m \in 1..Len(rules') : rules'[m] = rules[IF m < n THEN m ELSE m + 1]
  BY <1>1, <1>3, WithoutOne DEF Rules!RemoveAt
<1> DEFINE old(m) == IF m < n THEN m ELSE m + 1
<1>5. \A m \in DOMAIN rules' : old(m) \in DOMAIN rules \ {n} /\ rules'[m] = rules[old(m)]
  BY <1>1, <1>3, <1>4
<1>6. \A l, m \in DOMAIN rules' : old(l) = old(m) => l = m
  BY <1>1, <1>4
<1> HIDE DEF old
<1>7. OneEach(rules')
  BY <1>1, <1>5, <1>6 DEF OneEach
<1>8. RuleTable'
  BY <1>1, <1>4, <1>5, <1>7 DEF RuleTable, OneEach
<1>9. \A m \in DOMAIN rules' : rules'[m].id # i
  BY <1>1, <1>3, <1>5 DEF OneEach
<1>10. Counted'
  BY <1>1, <1>2, <1>5, <1>9 DEF RulesInv, Counted
<1> QED BY <1>2, <1>8, <1>10 DEF RulesInv

LEMMA UpdateStatsKeeps ==
  ASSUME RulesInv, NEW i \in Rules!RuleID, NEW succeeded \in BOOLEAN,
         Rules!UpdateStats(i, succeeded)
  PROVE  RulesInv'
<1>1. /\ rules \in Seq(RuleRow) /\ DOMAIN rules = 1..Len(rules)
      /\ OneEach(rules)
      /\ \A m \in DOMAIN rules : /\ rules[m] \in RuleRow
                                 /\ rules[m].good \in Nat /\ rules[m].bad \in Nat
                                 /\ rules[m].id \in Rules!RuleID
                                 /\ rules[m].good + rules[m].bad <= MaxCount
  BY RowFacts
<1>2. PICK n \in DOMAIN rules :
        /\ rules[n].id = i
        /\ rules[n].good + rules[n].bad < MaxCount
        /\ rules' = IF succeeded THEN [rules EXCEPT ![n].good = @ + 1]
                                 ELSE [rules EXCEPT ![n].bad = @ + 1]
  BY DEF Rules!UpdateStats, Rules!At
<1>3. /\ since' = IF succeeded THEN [since EXCEPT ![i].good = @ + 1]
                               ELSE [since EXCEPT ![i].bad = @ + 1]
      /\ way' = [way EXCEPT ![i] = "none"]
      /\ earned' = earned /\ tuning' = tuning
  BY DEF Rules!UpdateStats
<1> DEFINE g == IF succeeded THEN rules[n].good + 1 ELSE rules[n].good
           b == IF succeeded THEN rules[n].bad ELSE rules[n].bad + 1
<1>4. g \in Nat /\ b \in Nat /\ g + b <= MaxCount /\ b >= rules[n].bad
  <2>1. /\ rules[n].good \in Nat /\ rules[n].bad \in Nat
        /\ rules[n].good + rules[n].bad < MaxCount /\ MaxCount \in Nat
    BY <1>1, <1>2, RuleBounds
  <2>2. CASE succeeded
    BY ONLY <2>1, <2>2
  <2>3. CASE ~succeeded
    BY ONLY <2>1, <2>3
  <2> QED BY <2>2, <2>3
<1>5. /\ DOMAIN rules' = DOMAIN rules /\ rules' \in Seq(RuleRow)
      /\ \A m \in DOMAIN rules \ {n} : rules'[m] = rules[m]
      /\ rules'[n].id = i /\ rules'[n].good = g /\ rules'[n].bad = b
  <2>1. CASE succeeded
    <3>1. rules' = [rules EXCEPT ![n].good = g]
      BY <1>2, <2>1
    <3>2. [rules[n] EXCEPT !.good = g] \in RuleRow
      BY <1>1, <1>2, <1>4 DEF RuleRow
    <3>3. /\ [rules[n] EXCEPT !.good = g].id = i /\ [rules[n] EXCEPT !.good = g].good = g
          /\ [rules[n] EXCEPT !.good = g].bad = b
      BY <1>1, <1>2, <2>1 DEF RuleRow
    <3>4. rules' = [rules EXCEPT ![n] = [rules[n] EXCEPT !.good = g]]
      BY <3>1
    <3> HIDE DEF g, b
    <3> QED BY <1>1, <3>2, <3>3, <3>4
  <2>2. CASE ~succeeded
    <3>1. rules' = [rules EXCEPT ![n].bad = b]
      BY <1>2, <2>2
    <3>2. [rules[n] EXCEPT !.bad = b] \in RuleRow
      BY <1>1, <1>2, <1>4 DEF RuleRow
    <3>3. /\ [rules[n] EXCEPT !.bad = b].id = i /\ [rules[n] EXCEPT !.bad = b].bad = b
          /\ [rules[n] EXCEPT !.bad = b].good = g
      BY <1>1, <1>2, <2>2 DEF RuleRow
    <3>4. rules' = [rules EXCEPT ![n] = [rules[n] EXCEPT !.bad = b]]
      BY <3>1
    <3> HIDE DEF g, b
    <3> QED BY <1>1, <3>2, <3>3, <3>4
  <2> QED BY <2>1, <2>2
<1>6. /\ since \in [Rules!RuleID -> [good : Nat, bad : Nat]]
      /\ since[i].good = rules[n].good /\ since[i].bad = rules[n].bad
  BY <1>2 DEF RulesInv, Counted
<1>7. since' = [since EXCEPT ![i] = [good |-> g, bad |-> b]]
  <2>1. since[i] \in [good : Nat, bad : Nat]
    BY <1>1, <1>2, <1>6
  <2>2. CASE succeeded
    <3>1. [since[i] EXCEPT !.good = @ + 1] = [good |-> g, bad |-> b]
      BY <1>6, <2>1, <2>2
    <3> QED BY <1>3, <2>2, <3>1
  <2>3. CASE ~succeeded
    <3>1. [since[i] EXCEPT !.bad = @ + 1] = [good |-> g, bad |-> b]
      BY <1>6, <2>1, <2>3
    <3> QED BY <1>3, <2>3, <3>1
  <2> QED BY <2>2, <2>3
<1> HIDE DEF g, b
<1>8. RuleTable'
  <2>1. OneEach(rules')
    BY <1>1, <1>2, <1>5 DEF OneEach
  <2>2. \A m \in DOMAIN rules' : rules'[m].good + rules'[m].bad <= MaxCount
    BY <1>1, <1>4, <1>5
  <2> QED BY <1>5, <2>1, <2>2 DEF RuleTable, OneEach
<1>9. Counted'
  <2>1. since' \in [Rules!RuleID -> [good : Nat, bad : Nat]]
    BY <1>4, <1>6, <1>7
  <2>2. since'[i].good = g /\ since'[i].bad = b
    BY <1>6, <1>7
  <2>3. ASSUME NEW m \in DOMAIN rules \ {n}
        PROVE  /\ since'[rules[m].id].good = rules[m].good
               /\ since'[rules[m].id].bad = rules[m].bad
    <3>1. rules[m].id # i /\ rules[m].id \in Rules!RuleID
      BY <1>1, <1>2 DEF OneEach
    <3>2. since[rules[m].id].good = rules[m].good /\ since[rules[m].id].bad = rules[m].bad
      BY DEF RulesInv, Counted
    <3> QED BY <1>6, <1>7, <3>1, <3>2
  <2> QED BY <1>5, <2>1, <2>2, <2>3 DEF Counted
<1>10. Directed'
  BY <1>3, <1>4, <1>6, <1>7 DEF RulesInv, Directed
<1>11. Earned'
  BY <1>3 DEF RulesInv, Earned
<1>12. CallsRight'
  <2>1. \A x \in Rules!RuleID : since[x].bad > 0 => since'[x].bad > 0
    BY <1>1, <1>4, <1>6, <1>7
  <2> QED BY <1>3, <2>1 DEF RulesInv, CallsRight
<1> QED BY <1>8, <1>9, <1>10, <1>11, <1>12 DEF RulesInv

\* A poor rule has a failure: less than seven in ten is less than all.
LEMMA PoorFails ==
  ASSUME NEW r \in RuleRow, Rules!Poor(r)
  PROVE  r.bad > 0
BY DEF RuleRow, Rules!Poor

\* A rule is changed, but neither its ID nor its counts.
LEMMA RowChanges ==
  ASSUME RulesInv, NEW n \in DOMAIN rules, NEW new \in RuleRow,
         new.id = rules[n].id, new.good = rules[n].good, new.bad = rules[n].bad,
         rules' = [rules EXCEPT ![n] = new], since' = since
  PROVE  RuleTable' /\ Counted'
<1>1. /\ rules \in Seq(RuleRow) /\ DOMAIN rules = 1..Len(rules)
      /\ OneEach(rules)
      /\ \A m \in DOMAIN rules : rules[m].good + rules[m].bad <= MaxCount
  BY RowFacts
<1>2. OneEach(rules')
  BY <1>1 DEF OneEach
<1>3. \A m \in DOMAIN rules' : rules'[m].good + rules'[m].bad <= MaxCount
  BY <1>1
<1>4. rules' \in Seq(RuleRow)
  BY <1>1
<1>5. Counted'
  BY <1>1 DEF RulesInv, Counted
<1> QED BY <1>2, <1>3, <1>4, <1>5 DEF RuleTable, OneEach

\* A call of TuneThresholds goes on.
LEMMA CallGoesOn ==
  ASSUME RulesInv, NEW t \in Tuner, NEW call \in Rules!Call,
         tuning' = [tuning EXCEPT ![t] = call], since' = since, earned \subseteq earned',
         call.move = "tighten" => call.of \in Rules!RuleID /\ since[call.of].bad > 0,
         call.at = "promote" => \E e \in earned' : e.id = call.of
  PROVE  CallsRight'
<1>1. tuning' \in [Tuner -> Rules!Call]
  BY DEF RulesInv, CallsRight
<1>2. tuning'[t] = call /\ \A x \in Tuner : x # t => tuning'[x] = tuning[x]
  BY DEF RulesInv, CallsRight
<1>3. \A x \in Tuner :
        /\ tuning'[x].move = "tighten" => /\ tuning'[x].of \in Rules!RuleID
                                          /\ since'[tuning'[x].of].bad > 0
        /\ tuning'[x].at = "promote" => \E e \in earned' : e.id = tuning'[x].of
  BY <1>2 DEF RulesInv, CallsRight
<1> QED BY <1>1, <1>3 DEF CallsRight

LEMMA UntouchedKept ==
  ASSUME RulesInv, UNCHANGED <<rules, since>>
  PROVE  RuleTable' /\ Counted'
BY DEF RulesInv, RuleTable, OneEach, Counted

\* What a call is, and the rule it is at.
LEMMA CallFacts ==
  ASSUME RulesInv, NEW t \in Tuner
  PROVE  /\ tuning[t] \in Rules!Call
         /\ tuning[t].move = "tighten" => /\ tuning[t].of \in Rules!RuleID
                                          /\ since[tuning[t].of].bad > 0
         /\ tuning[t].at = "promote" => \E e \in earned : e.id = tuning[t].of
BY DEF RulesInv, CallsRight

LEMMA ReadKeeps ==
  ASSUME RulesInv, NEW t \in Tuner, NEW n \in DOMAIN rules,
         Rules!ReadTotal(t, n) \/ Rules!ReadRate(t, n)
  PROVE  RulesInv'
<1>1. /\ UNCHANGED <<rules, earned, since, way>>
      /\ RuleTable' /\ Counted' /\ Directed' /\ Earned'
  BY UntouchedKept DEF Rules!ReadTotal, Rules!ReadRate, RulesInv, Directed, Earned
<1>2. /\ rules[n] \in RuleRow /\ rules[n].id \in Rules!RuleID
      /\ rules[n].good \in Nat /\ rules[n].bad \in Nat
      /\ rules[n].good + rules[n].bad <= MaxCount
      /\ since[rules[n].id].bad = rules[n].bad
  BY RowFacts DEF RulesInv, Counted
<1>3. ASSUME Rules!ReadTotal(t, n) PROVE CallsRight'
  <2> DEFINE total == rules[n].good + rules[n].bad
             left == tuning[t].left \ {rules[n].id}
             taken == Rules!Stage("rate", left, rules[n].id, total)
  <2>1. tuning' = [tuning EXCEPT ![t] = IF total < Few THEN Rules!Going(left) ELSE taken]
    BY <1>3 DEF Rules!ReadTotal
  <2>2. left \in SUBSET Rules!RuleID /\ total \in 0..MaxCount
    BY <1>2, CallFacts, RulesAssumption DEF Rules!Call
  <2>3. taken \in Rules!Call /\ taken.move = "none" /\ taken.at = "rate"
    BY <1>2, <2>2 DEF Rules!Stage, Rules!Call
  <2>4. /\ Rules!Going(left) \in Rules!Call /\ Rules!Going(left).move = "none"
        /\ Rules!Going(left).at = "next"
    BY <2>2, BetweenRules
  <2> HIDE DEF taken, left, total
  <2> QED BY <1>1, <2>1, <2>3, <2>4, CallGoesOn
<1>4. ASSUME Rules!ReadRate(t, n) PROVE CallsRight'
  <2> DEFINE move == IF Rules!Poor(rules[n]) /\ tuning[t].total >= Some THEN "tighten"
                     ELSE IF Rules!Fine(rules[n]) /\ tuning[t].total >= Many THEN "relax" ELSE "none"
             call == [tuning[t] EXCEPT !.at = "tune", !.move = move, !.next = 1]
  <2>1. tuning' = [tuning EXCEPT ![t] = call] /\ tuning[t].of = rules[n].id
    BY <1>4 DEF Rules!ReadRate
  <2>2. move \in {"none", "tighten", "relax"} /\ (move = "tighten" => rules[n].bad > 0)
    BY <1>2, PoorFails
  <2> HIDE DEF move
  <2>3. /\ call \in Rules!Call /\ call.move = move /\ call.at = "tune"
        /\ call.of = rules[n].id
    BY <2>1, <2>2, CallFacts DEF Rules!Call
  <2> HIDE DEF call
  <2> QED BY <1>1, <1>2, <2>1, <2>2, <2>3, CallGoesOn
<1> QED BY <1>1, <1>3, <1>4 DEF RulesInv

LEMMA TuneConditionKeeps ==
  ASSUME RulesInv, NEW t \in Tuner, NEW n \in DOMAIN rules, Rules!TuneCondition(t, n)
  PROVE  RulesInv'
<1> DEFINE r == rules[n]
           at == tuning[t].next
           c == r.conditions[at]
           changed == IF tuning[t].move = "tighten" THEN Rules!Tightened(c) ELSE Rules!Relaxed(c)
           new == [r EXCEPT !.conditions = [@ EXCEPT ![at] = changed]]
           call == [tuning[t] EXCEPT !.next = @ + 1]
<1>1. /\ tuning[t].of = r.id /\ tuning[t].move # "none" /\ at <= Len(r.conditions)
      /\ tuning' = [tuning EXCEPT ![t] = call]
      /\ \/ UNCHANGED <<rules, way>>
         \/ /\ rules' = [rules EXCEPT ![n] = new]
            /\ way' = [way EXCEPT ![r.id] = tuning[t].move]
      /\ UNCHANGED <<earned, since>>
  BY DEF Rules!TuneCondition
<1>2. /\ r \in RuleRow /\ r.id \in Rules!RuleID /\ tuning[t] \in Rules!Call
      /\ tuning[t].move = "tighten" => since[r.id].bad > 0
      /\ tuning[t].at = "promote" => \E e \in earned : e.id = tuning[t].of
  BY <1>1, RowFacts, CallFacts
<1>3. CallsRight'
  <2>1. /\ call \in Rules!Call /\ call.move = tuning[t].move /\ call.at = tuning[t].at
        /\ call.of = r.id
    BY <1>1, <1>2 DEF Rules!Call
  <2> HIDE DEF call, r
  <2> QED BY <1>1, <1>2, <2>1, CallGoesOn
<1>4. Earned'
  BY <1>1 DEF RulesInv, Earned
<1>5. CASE UNCHANGED <<rules, way>>
  <2>1. RuleTable' /\ Counted' /\ Directed'
    BY <1>1, <1>5, UntouchedKept DEF RulesInv, Directed
  <2> QED BY <1>3, <1>4, <2>1 DEF RulesInv
<1>6. CASE /\ rules' = [rules EXCEPT ![n] = new]
           /\ way' = [way EXCEPT ![r.id] = tuning[t].move]
  <2>1. Directed'
    <3>1. tuning[t].move \in {"none", "tighten", "relax"}
      BY <1>2 DEF Rules!Call
    <3> HIDE DEF r
    <3> QED BY <1>1, <1>2, <1>6, <3>1 DEF RulesInv, Directed
  <2>2. changed \in Rules!Condition \/ at \notin DOMAIN r.conditions
    <3> SUFFICES ASSUME at \in DOMAIN r.conditions PROVE changed \in Rules!Condition
      OBVIOUS
    <3>1. c \in Rules!Condition
      BY <1>2 DEF RuleRow
    <3>2. \A v \in 0..Top : Rules!Lower(v) \in 0..Top /\ Rules!Higher(v) \in 0..Top
      BY RulesAssumption DEF Rules!Lower, Rules!Higher
    <3> HIDE DEF c
    <3> QED BY <3>1, <3>2 DEF Rules!Tightened, Rules!Relaxed, Rules!Condition
  <2> HIDE DEF changed
  <2>3. [r.conditions EXCEPT ![at] = changed] \in Seq(Rules!Condition)
    <3>1. r.conditions \in Seq(Rules!Condition)
      BY <1>2 DEF RuleRow
    <3> QED BY <2>2, <3>1, ReplacedIn
  <2>4. new \in RuleRow /\ new.id = r.id /\ new.good = r.good /\ new.bad = r.bad
    BY <1>2, <2>3 DEF RuleRow
  <2> HIDE DEF new
  <2>5. RuleTable' /\ Counted'
    BY <1>1, <1>6, <2>4, RowChanges
  <2> QED BY <1>3, <1>4, <2>1, <2>5 DEF RulesInv
<1> QED BY <1>1, <1>5, <1>6

LEMMA ReadStreakKeeps ==
  ASSUME RulesInv, NEW t \in Tuner, NEW n \in DOMAIN rules, Rules!ReadStreak(t, n)
  PROVE  RulesInv'
<1> DEFINE r == rules[n]
           row == [id |-> r.id, good |-> since[r.id].good, bad |-> since[r.id].bad]
           call == [tuning[t] EXCEPT !.at = "promote"]
<1>1. /\ UNCHANGED <<rules, since, way>> /\ tuning[t].of = r.id
      /\ IF Rules!Promotable(r)
         THEN tuning' = [tuning EXCEPT ![t] = call] /\ earned' = earned \cup {row}
         ELSE tuning' = [tuning EXCEPT ![t] = Rules!Going(tuning[t].left)] /\ earned' = earned
  BY DEF Rules!ReadStreak
<1>2. RuleTable' /\ Counted' /\ Directed'
  BY <1>1, UntouchedKept DEF RulesInv, Directed
<1>3. /\ r.id \in Rules!RuleID /\ r.good \in Nat /\ r.bad \in Nat
      /\ r.good + r.bad <= MaxCount
      /\ since[r.id].good = r.good /\ since[r.id].bad = r.bad
      /\ tuning[t] \in Rules!Call /\ tuning[t].left \in SUBSET Rules!RuleID
      /\ tuning[t].move = "tighten" => since[r.id].bad > 0
  BY <1>1, RowFacts, CallFacts DEF RulesInv, Counted, Rules!Call
<1>4. CASE Rules!Promotable(r)
  <2>1. r.good >= Streak /\ r.bad = 0
    BY <1>4 DEF Rules!Promotable
  <2>2. row \in [id : Rules!RuleID, good : 0..MaxCount, bad : 0..MaxCount]
        /\ row.id = r.id /\ row.good >= Streak /\ row.bad = 0
    BY <1>3, <2>1, RulesAssumption
  <2>3. /\ call \in Rules!Call /\ call.move = tuning[t].move /\ call.of = r.id
    BY <1>1, <1>3 DEF Rules!Call
  <2> HIDE DEF row, call, r
  <2>4. Earned'
    BY <1>1, <1>4, <2>2 DEF RulesInv, Earned
  <2>5. CallsRight'
    <3>1. /\ tuning' = [tuning EXCEPT ![t] = call] /\ since' = since /\ earned \subseteq earned'
          /\ row \in earned'
      BY <1>1, <1>4
    <3> QED BY <1>3, <2>2, <2>3, <3>1, CallGoesOn
  <2> QED BY <1>2, <2>4, <2>5 DEF RulesInv
<1>5. CASE ~Rules!Promotable(r)
  <2> HIDE DEF row, call, r
  <2>1. Earned'
    BY <1>1, <1>5 DEF RulesInv, Earned
  <2>2. CallsRight'
    BY <1>1, <1>3, <1>5, BetweenRules, CallGoesOn
  <2> QED BY <1>2, <2>1, <2>2 DEF RulesInv
<1> QED BY <1>4, <1>5

LEMMA PromoteKeeps ==
  ASSUME RulesInv, NEW t \in Tuner, NEW n \in DOMAIN rules, Rules!Promote(t, n)
  PROVE  RulesInv'
<1> DEFINE new == [rules[n] EXCEPT !.auto = TRUE]
<1>1. /\ rules' = [rules EXCEPT ![n] = new]
      /\ tuning' = [tuning EXCEPT ![t] = Rules!Going(tuning[t].left)]
      /\ UNCHANGED <<earned, since, way>>
  BY DEF Rules!Promote
<1>2. rules[n] \in RuleRow /\ tuning[t].left \in SUBSET Rules!RuleID
  BY RowFacts, CallFacts DEF Rules!Call
<1>3. /\ new \in RuleRow /\ new.id = rules[n].id
      /\ new.good = rules[n].good /\ new.bad = rules[n].bad
  BY <1>2 DEF RuleRow
<1> HIDE DEF new
<1>4. RuleTable' /\ Counted'
  BY <1>1, <1>3, RowChanges
<1>5. Directed' /\ Earned'
  BY <1>1 DEF RulesInv, Directed, Earned
<1>6. CallsRight'
  BY <1>1, <1>2, BetweenRules, CallGoesOn
<1> QED BY <1>4, <1>5, <1>6 DEF RulesInv

LEMMA CallKeeps ==
  ASSUME RulesInv, NEW t \in Tuner, Rules!TuneThresholds(t) \/ Rules!TuneEnds(t)
  PROVE  RulesInv'
<1>1. /\ UNCHANGED <<rules, earned, since, way>>
      /\ RuleTable' /\ Counted' /\ Directed' /\ Earned'
  BY UntouchedKept DEF Rules!TuneThresholds, Rules!TuneEnds, RulesInv, Directed, Earned
<1>2. {r.id : r \in Rules!Range(rules)} \in SUBSET Rules!RuleID
  BY RowFacts DEF Rules!Range
<1>3. \/ tuning' = [tuning EXCEPT ![t] = Rules!Going({r.id : r \in Rules!Range(rules)})]
      \/ tuning' = [tuning EXCEPT ![t] = Rules!Idle]
  BY DEF Rules!TuneThresholds, Rules!TuneEnds
<1>4. CallsRight'
  <2> DEFINE ids == {r.id : r \in Rules!Range(rules)}
  <2> HIDE DEF ids
  <2> QED BY <1>1, <1>2, <1>3, BetweenRules, CallGoesOn DEF ids
<1> QED BY <1>1, <1>4 DEF RulesInv

LEMMA TuneKeeps ==
  ASSUME RulesInv, NEW t \in Tuner, Rules!Tune(t)
  PROVE  RulesInv'
BY CallKeeps, ReadKeeps, TuneConditionKeeps, ReadStreakKeeps, PromoteKeeps DEF Rules!Tune

LEMMA RulesStep == RulesInv /\ [Rules!Next]_(Rules!vars) => RulesInv'
<1> SUFFICES ASSUME RulesInv, [Rules!Next]_(Rules!vars) PROVE RulesInv'
  OBVIOUS
<1>1. CASE UNCHANGED Rules!vars
  BY <1>1 DEF Rules!vars, RulesInv, RuleTable, OneEach, Counted, Directed, Earned, CallsRight
<1>2. CASE Rules!Next
  BY <1>2, AddRuleKeeps, RemoveRuleKeeps, UpdateStatsKeeps, TuneKeeps DEF Rules!Next
<1> QED BY <1>1, <1>2

LEMMA RulesInvariant == Rules!Spec => []RulesInv
<1>1. Rules!Init => RulesInv
  <2> SUFFICES ASSUME Rules!Init PROVE RulesInv
    OBVIOUS
  <2>1. RuleTable /\ Counted /\ Directed /\ Earned
    BY DEF Rules!Init, RuleTable, OneEach, Counted, Directed, Earned
  <2>2. CallsRight
    BY BetweenRules DEF Rules!Init, CallsRight
  <2> QED BY <2>1, <2>2 DEF RulesInv
<1> QED BY <1>1, RulesStep, PTL DEF Rules!Spec

LEMMA SummariesRight == RulesInv => Rules!SummariesAnswered
<1> SUFFICES ASSUME RulesInv, NEW metrics \in Rules!Metrics, NEW r \in Rules!Range(rules)
             PROVE  Rules!matchesSummary(r, metrics) <=>
                      /\ Rules!matchesEvent(r, [type |-> Nil, words |-> Word, metrics |-> metrics])
                      /\ \A n \in DOMAIN r.conditions : r.conditions[n].type = Nil
  BY DEF Rules!SummariesAnswered, Rules!EvaluateSummary
<1>1. r.conditions \in Seq(Rules!Condition)
  BY RowFacts DEF Rules!Range, RuleRow
<1>2. \A n \in DOMAIN r.conditions : r.conditions[n].word # Nil => r.conditions[n].word \in Word
  <2>1. \A n \in DOMAIN r.conditions : r.conditions[n] \in Rules!Condition
    BY <1>1
  <2>2. \A c \in Rules!Condition : c.word # Nil => c.word \in Word
    BY DEF Rules!Condition
  <2> QED BY <2>1, <2>2
<1> QED BY <1>2 DEF Rules!matchesSummary, Rules!matchesEvent

\* The order operators, as a tightened or a relaxed threshold meets them.
LEMMA StepMoves ==
  ASSUME NEW v \in Nat, NEW x \in 0..Top
  PROVE  /\ Rules!Lower(x) \in Int /\ Rules!Higher(x) \in Int /\ v \in Int /\ x \in Int
         /\ Rules!Lower(x) <= x /\ x <= Rules!Higher(x)
BY RulesAssumption DEF Rules!Lower, Rules!Higher

LEMMA OperatorMoves ==
  ASSUME NEW v \in Int, NEW low \in Int, NEW x \in Int, NEW high \in Int, low <= x, x <= high
  PROVE  /\ \A op \in {">", ">="} :
              /\ Rules!evalOperator(v, op, x) => Rules!evalOperator(v, op, low)
              /\ Rules!evalOperator(v, op, high) => Rules!evalOperator(v, op, x)
         /\ \A op \in {"<", "<="} :
              /\ Rules!evalOperator(v, op, x) => Rules!evalOperator(v, op, high)
              /\ Rules!evalOperator(v, op, low) => Rules!evalOperator(v, op, x)
<1>1. ASSUME NEW y \in Int
      PROVE  /\ Rules!evalOperator(v, ">", y) <=> v > y
             /\ Rules!evalOperator(v, ">=", y) <=> v >= y
             /\ Rules!evalOperator(v, "<", y) <=> v < y
             /\ Rules!evalOperator(v, "<=", y) <=> v <= y
  <2>1. /\ Rules!evalOperator(v, ">", y) = (v > y)
        /\ Rules!evalOperator(v, ">=", y) = (v >= y)
        /\ Rules!evalOperator(v, "<", y) = (v < y)
        /\ Rules!evalOperator(v, "<=", y) = (v <= y)
    BY DEF Rules!evalOperator
  <2> QED BY <2>1
<1>2. /\ v > x => v > low
      /\ v > high => v > x
      /\ v >= x => v >= low
      /\ v >= high => v >= x
      /\ v < x => v < high
      /\ v < low => v < x
      /\ v <= x => v <= high
      /\ v <= low => v <= x
  OBVIOUS
<1>3. ASSUME NEW op \in {">", ">="}
      PROVE  /\ Rules!evalOperator(v, op, x) => Rules!evalOperator(v, op, low)
             /\ Rules!evalOperator(v, op, high) => Rules!evalOperator(v, op, x)
  <2>1. CASE op = ">"
    BY <1>1, <1>2, <2>1
  <2>2. CASE op = ">="
    BY <1>1, <1>2, <2>2
  <2> QED BY <2>1, <2>2
<1>4. ASSUME NEW op \in {"<", "<="}
      PROVE  /\ Rules!evalOperator(v, op, x) => Rules!evalOperator(v, op, high)
             /\ Rules!evalOperator(v, op, low) => Rules!evalOperator(v, op, x)
  <2>1. CASE op = "<"
    BY <1>1, <1>2, <2>1
  <2>2. CASE op = "<="
    BY <1>1, <1>2, <2>2
  <2> QED BY <2>1, <2>2
<1> QED BY <1>3, <1>4

LEMMA TuningMoves == RulesInv => Rules!TuningDirected
<1> SUFFICES ASSUME RulesInv, NEW n \in DOMAIN rules, NEW m \in DOMAIN rules[n].conditions,
                    NEW v \in Rules!Value,
                    rules[n].conditions[m].op \in {">", ">=", "<", "<="}
             PROVE  LET c == rules[n].conditions[m]
                        fires(d) == Rules!evalOperator(v, d.op, d.value)
                    IN  (fires(c) => fires(Rules!Tightened(c))) /\ (fires(Rules!Relaxed(c)) => fires(c))
  BY DEF Rules!TuningDirected
<1> DEFINE c == rules[n].conditions[m]
<1>1. c \in Rules!Condition
  BY RowFacts DEF RuleRow
<1>2. v \in Nat /\ c.value \in 0..Top
  BY <1>1, RulesAssumption DEF Rules!Condition, Rules!Value
<1> DEFINE x == c.value
           low == Rules!Lower(x)
           high == Rules!Higher(x)
<1>3. /\ low \in Int /\ high \in Int /\ v \in Int /\ x \in Int /\ low <= x /\ x <= high
  BY <1>2, StepMoves
<1>4. /\ Rules!Tightened(c).op = c.op
      /\ Rules!Tightened(c).value = IF Rules!Upper(c) THEN low ELSE high
      /\ Rules!Relaxed(c).op = c.op
      /\ Rules!Relaxed(c).value = IF Rules!Upper(c) THEN high ELSE low
  BY <1>1 DEF Rules!Tightened, Rules!Relaxed, Rules!Condition
<1>5. c.op \in {">", ">="} \/ (c.op \in {"<", "<="} /\ ~Rules!Upper(c))
  BY DEF Rules!Upper
<1>6. c.op \in {">", ">="} => Rules!Upper(c)
  BY DEF Rules!Upper
<1> HIDE DEF low, high, x, c
<1>7. /\ \A op \in {">", ">="} :
           /\ Rules!evalOperator(v, op, x) => Rules!evalOperator(v, op, low)
           /\ Rules!evalOperator(v, op, high) => Rules!evalOperator(v, op, x)
      /\ \A op \in {"<", "<="} :
           /\ Rules!evalOperator(v, op, x) => Rules!evalOperator(v, op, high)
           /\ Rules!evalOperator(v, op, low) => Rules!evalOperator(v, op, x)
  BY <1>3, OperatorMoves
<1>8. /\ Rules!evalOperator(v, c.op, x) =>
           Rules!evalOperator(v, Rules!Tightened(c).op, Rules!Tightened(c).value)
      /\ Rules!evalOperator(v, Rules!Relaxed(c).op, Rules!Relaxed(c).value) =>
           Rules!evalOperator(v, c.op, x)
  BY <1>4, <1>5, <1>6, <1>7
<1> QED BY <1>8 DEF c, x

LEMMA RulesDecide == RulesInv => Rules!RulesRight
<1> SUFFICES ASSUME RulesInv PROVE Rules!RulesRight
  OBVIOUS
<1>1. rules \in Seq(RuleRow)
      /\ \A m, n \in DOMAIN rules : rules[m].id = rules[n].id => m = n
  BY DEF RulesInv, RuleTable, OneEach
<1>2. Rules!EventsAnswered
  BY <1>1, EvaluateBest DEF Rules!EventsAnswered
<1>3. Rules!TuningEarned
  BY DEF RulesInv, Directed, Earned, CallsRight, Rules!TuningEarned
<1> QED BY <1>2, <1>3, SummariesRight, TuningMoves DEF Rules!RulesRight

\* A request within its limit is answered by a matching policy of the highest
\* priority, and fewer than twice the limit pass within a minute (policy/engine.go,
\* rate_limiter.go).  An event goes to the first of the best rules that match, with
\* any conditions, operators and metrics there or not; a summary to those without a
\* type of event, whatever their words (RuleEngine.Evaluate, EvaluateSummary).  With
\* any number of calls of TuneThresholds under way, which hold no lock while rules
\* are replaced and outcomes counted, a promotion is decided at a streak without a
\* failure, and a threshold tightened under an ID that failed, by the outcomes that
\* were reported under the ID since the rule was added.
THEOREM DecisionsHold == Policies!Spec /\ Rules!Spec => []DecisionsRight
<1>1. PoliciesInv /\ RulesInv => DecisionsRight
  BY PolicyDecides, RulesDecide DEF DecisionsRight
<1> QED BY <1>1, PoliciesInvariant, RulesInvariant, PTL

-----------------------------------------------------------------------------
(* Relations: a recursive function is what its equation says when the      *)
(* calls in it go down a well-founded order: to be proved for each one.    *)

\* The order of the calls: by one number, then by another.
Less(one, two, y, x) == one[y] < one[x] \/ (one[y] = one[x] /\ two[y] < two[x])

LEMMA LessMinimal ==
  ASSUME NEW X, NEW one \in [X -> Nat], NEW two \in [X -> Nat],
         NEW S \in SUBSET X, S # {}
  PROVE  \E m \in S : \A y \in S : ~Less(one, two, y, m)
<1>1. \A T \in SUBSET Nat : T # {} => \E i \in T : \A j \in T : i <= j
  BY LeastOf
<1>2. PICK m1 \in S : \A y \in S : one[m1] <= one[y]
  <2> DEFINE T == {one[y] : y \in S}
  <2>1. T # {} /\ T \in SUBSET Nat
    OBVIOUS
  <2> HIDE DEF T
  <2>2. PICK i \in T : \A j \in T : i <= j
    BY <1>1, <2>1
  <2> USE DEF T
  <2> QED BY <2>2
<1> DEFINE S2 == {y \in S : one[y] = one[m1]}
<1>3. PICK m \in S2 : \A y \in S2 : two[m] <= two[y]
  <2> DEFINE T == {two[y] : y \in S2}
  <2>1. T # {} /\ T \in SUBSET Nat
    OBVIOUS
  <2>2. PICK i \in T : \A j \in T : i <= j
    BY <1>1, <2>1
  <2> QED BY <2>2
<1>4. ASSUME NEW y \in S, Less(one, two, y, m) PROVE FALSE
  <2>1. one[y] \in Nat /\ two[y] \in Nat /\ one[m] \in Nat /\ two[m] \in Nat /\ one[m1] \in Nat
    OBVIOUS
  <2>2. one[m] = one[m1] /\ one[m1] <= one[y]
    BY <1>2, <1>3
  <2>3. one[y] = one[m] => y \in S2
    BY <2>2
  <2> QED BY <1>3, <1>4, <2>1, <2>2, <2>3 DEF Less
<1> QED BY <1>3, <1>4

\* A body F that asks the function only below its argument has a fixed point.
Descends(X, Y, one, two, F) ==
  /\ one \in [X -> Nat] /\ two \in [X -> Nat] /\ F \in [[X -> Y] \X X -> Y]
  /\ \A g, h \in [X -> Y], x \in X :
       (\A y \in X : Less(one, two, y, x) => g[y] = h[y]) => F[<<g, x>>] = F[<<h, x>>]
FixedPoint(X, Y, F, f) == f \in [X -> Y] /\ \A x \in X : f[x] = F[<<f, x>>]

LEMMA Recursion ==
  ASSUME NEW X, NEW Y, NEW one, NEW two, NEW F, Y # {}, Descends(X, Y, one, two, F)
  PROVE  \E f : FixedPoint(X, Y, F, f)
<1>0. PICK y0 \in Y : TRUE
  OBVIOUS
<1> USE DEF Descends, FixedPoint
<1> DEFINE Below(y, x) == Less(one, two, y, x)
           Good(g, x) == \A y \in X : y = x \/ Below(y, x) => g[y] = F[<<g, y>>]
           G == [x \in X |-> CHOOSE g \in [X -> Y] : Good(g, x)]
           H(D) == [y \in X |-> IF y \in D THEN G[y][y] ELSE y0]
<1>00. one \in [X -> Nat] /\ two \in [X -> Nat] /\ F \in [[X -> Y] \X X -> Y]
  OBVIOUS
<1>1. \A x, y, z \in X : Below(x, y) /\ Below(y, z) => Below(x, z)
  BY DEF Less
<1>2. \A x \in X : ~Below(x, x)
  BY DEF Less
<1>3. ASSUME NEW S \in SUBSET X, S # {} PROVE \E m \in S : \A y \in S : ~Below(y, m)
  BY <1>3, LessMinimal
<1>4. \A g, h \in [X -> Y], x \in X :
        (\A y \in X : Below(y, x) => g[y] = h[y]) => F[<<g, x>>] = F[<<h, x>>]
  OBVIOUS
<1> HIDE DEF Below, Descends
<1> USE <1>00
<1>5. ASSUME NEW g \in [X -> Y], NEW h \in [X -> Y], NEW x \in X, Good(g, x), Good(h, x)
      PROVE  g[x] = h[x]
  <2> DEFINE S == {y \in X : (y = x \/ Below(y, x)) /\ g[y] # h[y]}
  <2> SUFFICES ASSUME S # {} PROVE FALSE
    OBVIOUS
  <2>1. PICK m \in S : \A y \in S : ~Below(y, m)
    BY <1>3
  <2>2. \A y \in X : Below(y, m) => g[y] = h[y]
    BY <1>1, <2>1
  <2>3. F[<<g, m>>] = F[<<h, m>>]
    BY <1>4, <2>2
  <2> QED BY <1>5, <2>1, <2>3
<1>6. ASSUME NEW D \in SUBSET X, \A y \in X, x \in D : Below(y, x) => y \in D,
             \A x \in D : \E g \in [X -> Y] : Good(g, x)
      PROVE  H(D) \in [X -> Y] /\ \A x \in D : H(D)[x] = F[<<H(D), x>>]
  <2>1. \A x \in D : G[x] \in [X -> Y] /\ Good(G[x], x)
    BY <1>6
  <2> HIDE DEF G, Good
  <2>2. H(D) \in [X -> Y] /\ \A x \in D : H(D)[x] = G[x][x]
    BY <2>1
  <2>3. ASSUME NEW x \in D, NEW y \in X, Below(y, x) PROVE H(D)[y] = G[x][y]
    <3>1. y \in D
      BY <1>6, <2>3
    <3>2. Good(G[x], y)
      BY <1>1, <2>1, <2>3 DEF Good
    <3>3. G[x] \in [X -> Y] /\ G[y] \in [X -> Y] /\ Good(G[y], y)
      BY <2>1, <3>1
    <3>4. G[y][y] = G[x][y]
      BY <1>5, <3>2, <3>3
    <3> QED BY <2>2, <3>1, <3>4
  <2>4. ASSUME NEW x \in D PROVE H(D)[x] = F[<<H(D), x>>]
    <3> HIDE DEF H
    <3>1. F[<<H(D), x>>] = F[<<G[x], x>>]
      BY <1>4, <2>1, <2>2, <2>3
    <3> QED BY <2>1, <2>2, <3>1 DEF Good
  <2> QED BY <2>2, <2>4
<1>7. ASSUME NEW x \in X PROVE \E g \in [X -> Y] : Good(g, x)
  <2> DEFINE S == {z \in X : \A g \in [X -> Y] : ~Good(g, z)}
  <2> SUFFICES ASSUME S # {} PROVE FALSE
    OBVIOUS
  <2>1. PICK m \in S : \A y \in S : ~Below(y, m)
    BY <1>3
  <2> DEFINE D == {y \in X : Below(y, m)}
             h == [H(D) EXCEPT ![m] = F[<<H(D), m>>]]
  <2>2. H(D) \in [X -> Y] /\ \A y \in D : H(D)[y] = F[<<H(D), y>>]
    <3> HIDE DEF H, G
    <3> QED BY <1>1, <1>6, <2>1
  <2> HIDE DEF H
  <2>3. h \in [X -> Y] /\ \A y \in X : Below(y, m) => h[y] = H(D)[y]
    BY <1>2, <2>1, <2>2
  <2>4. h[m] = F[<<H(D), m>>]
    BY <2>1, <2>2
  <2> HIDE DEF h
  <2>5. ASSUME NEW y \in X, Below(y, m) PROVE F[<<h, y>>] = F[<<H(D), y>>]
    <3>1. \A z \in X : Below(z, y) => h[z] = H(D)[z]
      BY <1>1, <2>3, <2>5
    <3> HIDE DEF D
    <3> QED BY <1>4, <2>2, <2>3, <3>1
  <2>6. F[<<h, m>>] = F[<<H(D), m>>]
    <3> HIDE DEF D
    <3> QED BY <1>4, <2>2, <2>3
  <2>7. Good(h, m)
    BY <2>2, <2>3, <2>4, <2>5, <2>6
  <2> QED BY <2>1, <2>3, <2>7
<1>8. H(X) \in [X -> Y] /\ \A x \in X : H(X)[x] = F[<<H(X), x>>]
  <2> HIDE DEF H, G, Good
  <2> QED BY <1>6, <1>7
<1> QED BY <1>8

-----------------------------------------------------------------------------
(* Relations: Collects.  The entities still to be got decrease, or the     *)
(* ones still to be looked at do.                                          *)

RelTyped == entities \subseteq Entity /\ rel \in [Entity -> Seq(Relations!Relationship)]

Looked(s) == CHOOSE f \in s.todo : TRUE
New(s)    == Looked(s) \notin s.impacted /\ Relations!DependsOn(Looked(s), s.of)
Deeper(s) == [of |-> Looked(s), todo |-> entities, impacted |-> s.impacted \cup {Looked(s)}]
Found(h, s) == IF New(s) THEN h[Deeper(s)] ELSE s.impacted
Further(s, got) == [of |-> s.of, todo |-> s.todo \ {Looked(s)}, impacted |-> got]
CollectsBody(h, s) == IF s.todo = {} THEN s.impacted ELSE h[Further(s, Found(h, s))]

\* The same, as long as nothing that was got is forgotten.
CollectsGuarded(h, s) ==
  IF s.todo = {} \/ ~(s.impacted \subseteq Found(h, s)) THEN s.impacted
  ELSE h[Further(s, Found(h, s))]

ToFind == [s \in Relations!Impact |-> Cardinality(entities \ s.impacted)]
ToLook == [s \in Relations!Impact |-> Cardinality(s.todo)]
Sooner(x, s) == Less(ToFind, ToLook, x, s)

LEMMA FewerLeft ==
  ASSUME NEW S, IsFiniteSet(S), NEW A \in SUBSET S, NEW B \in SUBSET S, A \subseteq B
  PROVE  /\ Cardinality(S \ A) \in Nat /\ Cardinality(S \ B) \in Nat
         /\ Cardinality(S \ B) <= Cardinality(S \ A)
         /\ A # B => Cardinality(S \ B) < Cardinality(S \ A)
<1>1. IsFiniteSet(S \ A) /\ S \ B \in SUBSET (S \ A)
  BY FS_Subset
<1>2. /\ IsFiniteSet(S \ B) /\ Cardinality(S \ B) <= Cardinality(S \ A)
      /\ Cardinality(S \ B) = Cardinality(S \ A) => S \ A = S \ B
  BY <1>1, FS_Subset
<1>3. Cardinality(S \ A) \in Nat /\ Cardinality(S \ B) \in Nat
  BY <1>1, <1>2, FS_CardinalityType
<1>4. A # B => S \ A # S \ B
  OBVIOUS
<1> QED BY <1>2, <1>3, <1>4

LEMMA ImpactMeasured ==
  ASSUME RelTyped
  PROVE  /\ ToFind \in [Relations!Impact -> Nat]
         /\ ToLook \in [Relations!Impact -> Nat]
<1>1. ASSUME NEW s \in Relations!Impact
      PROVE  Cardinality(entities \ s.impacted) \in Nat /\ Cardinality(s.todo) \in Nat
  <2>1. IsFiniteSet(entities) /\ s.todo \subseteq entities
    BY RelationsAssumption, FS_Subset DEF RelTyped, Relations!Impact
  <2> QED BY <2>1, FS_Subset, FS_CardinalityType
<1> QED BY <1>1 DEF ToFind, ToLook

\* The two calls are of the type, and come sooner.
LEMMA CollectsDown ==
  ASSUME RelTyped, NEW s \in Relations!Impact, s.todo # {}
  PROVE  /\ Looked(s) \in s.todo /\ Looked(s) \in entities
         /\ New(s) => Deeper(s) \in Relations!Impact /\ Sooner(Deeper(s), s)
         /\ \A got \in SUBSET entities : s.impacted \subseteq got =>
              Further(s, got) \in Relations!Impact /\ Sooner(Further(s, got), s)
<1>0. /\ s.of \in Entity /\ s.todo \subseteq entities /\ s.impacted \subseteq entities
      /\ entities \subseteq Entity /\ IsFiniteSet(entities)
  BY RelationsAssumption, FS_Subset DEF Relations!Impact, RelTyped
<1>1. Looked(s) \in s.todo
  BY DEF Looked
<1>2. ASSUME New(s) PROVE Deeper(s) \in Relations!Impact /\ Sooner(Deeper(s), s)
  <2>1. Deeper(s) \in Relations!Impact
    BY <1>0, <1>1 DEF Deeper, Relations!Impact
  <2>2. Deeper(s).impacted = s.impacted \cup {Looked(s)} /\ Looked(s) \notin s.impacted
    BY <1>2 DEF Deeper, New
  <2>3. Cardinality(entities \ Deeper(s).impacted) < Cardinality(entities \ s.impacted)
    BY <1>0, <1>1, <2>2, FewerLeft
  <2> QED BY <2>1, <2>3 DEF Sooner, Less, ToFind
<1>3. ASSUME NEW got \in SUBSET entities, s.impacted \subseteq got
      PROVE  Further(s, got) \in Relations!Impact /\ Sooner(Further(s, got), s)
  <2> DEFINE t == Further(s, got)
  <2>1. /\ t \in Relations!Impact /\ t.impacted = got
        /\ t.todo = s.todo \ {Looked(s)}
    BY <1>0 DEF Further, Relations!Impact
  <2>2. /\ Cardinality(entities \ got) <= Cardinality(entities \ s.impacted)
        /\ Cardinality(entities \ got) \in Nat /\ Cardinality(entities \ s.impacted) \in Nat
    BY <1>0, <1>3, FewerLeft
  <2>3. IsFiniteSet(s.todo)
    BY <1>0, RelationsAssumption, FS_Subset
  <2>4. Cardinality(s.todo \ {Looked(s)}) < Cardinality(s.todo)
    BY <1>1, <2>3, FS_Subset, FS_RemoveElement, FS_CardinalityType
  <2> HIDE DEF t
  <2>5. /\ ToFind[t] <= ToFind[s] /\ ToLook[t] < ToLook[s]
        /\ ToFind[t] \in Nat /\ ToFind[s] \in Nat
    BY <2>1, <2>2, <2>4 DEF ToFind, ToLook
  <2> QED BY <2>1, <2>5 DEF Sooner, Less, t
<1> QED BY <1>0, <1>1, <1>2, <1>3

\* A claim about every argument holds when it holds of each one of which it
\* holds sooner.
LEMMA ImpactInduction ==
  ASSUME RelTyped, NEW C \in SUBSET Relations!Impact,
         \A s \in Relations!Impact : (\A x \in Relations!Impact : Sooner(x, s) => x \in C) => s \in C
  PROVE  \A s \in Relations!Impact : s \in C
<1> SUFFICES ASSUME Relations!Impact \ C # {} PROVE FALSE
  OBVIOUS
<1>1. PICK m \in Relations!Impact \ C :
        \A y \in Relations!Impact \ C : ~Less(ToFind, ToLook, y, m)
  <2> DEFINE S == Relations!Impact \ C
  <2>1. S \in SUBSET Relations!Impact
    OBVIOUS
  <2> HIDE DEF S
  <2>2. S # {}
    BY DEF S
  <2>3. \E m \in S : \A y \in S : ~Less(ToFind, ToLook, y, m)
    BY <2>1, <2>2, ImpactMeasured, LessMinimal
  <2> QED BY <2>3 DEF S
<1> QED BY <1>1 DEF Sooner

LEMMA CollectsExists ==
  ASSUME RelTyped
  PROVE  \E h : h = [s \in Relations!Impact |-> CollectsBody(h, s)]
<1> DEFINE X == Relations!Impact
           Y == SUBSET entities
           F == [p \in [X -> Y] \X X |-> CollectsGuarded(p[1], p[2])]
<1>1. ASSUME NEW h \in [X -> Y], NEW s \in X
      PROVE  /\ s.todo # {} => Found(h, s) \in Y
             /\ CollectsGuarded(h, s) \in Y /\ F[<<h, s>>] = CollectsGuarded(h, s)
  <2>0. s.impacted \in Y
    BY DEF Relations!Impact
  <2>1. CASE s.todo = {}
    BY <2>0, <2>1 DEF CollectsGuarded
  <2>2. CASE s.todo # {}
    <3>1. Found(h, s) \in Y
      BY <2>0, <2>2, CollectsDown DEF Found
    <3> QED BY <2>0, <2>2, <3>1, CollectsDown DEF CollectsGuarded
  <2> QED BY <2>1, <2>2
<1>2. ASSUME NEW g \in [X -> Y], NEW h \in [X -> Y], NEW s \in X,
             \A y \in X : Less(ToFind, ToLook, y, s) => g[y] = h[y]
      PROVE  F[<<g, s>>] = F[<<h, s>>]
  <2> SUFFICES CollectsGuarded(g, s) = CollectsGuarded(h, s)
    BY <1>1
  <2>1. CASE s.todo = {}
    BY <2>1 DEF CollectsGuarded
  <2>2. CASE s.todo # {}
    <3>1. Found(g, s) = Found(h, s) /\ Found(g, s) \in Y
      BY <1>1, <1>2, <2>2, CollectsDown DEF Found, Sooner
    <3> QED BY <1>2, <2>2, <3>1, CollectsDown DEF CollectsGuarded, Sooner
  <2> QED BY <2>1, <2>2
<1>3. F \in [[X -> Y] \X X -> Y] /\ {} \in Y
  BY <1>1
<1>4. PICK h : FixedPoint(X, Y, F, h)
  <2>1. ToFind \in [X -> Nat] /\ ToLook \in [X -> Nat]
    BY ImpactMeasured
  <2> HIDE DEF X, Y, F
  <2>2. Descends(X, Y, ToFind, ToLook, F) /\ Y # {}
    BY <1>2, <1>3, <2>1 DEF Descends
  <2> QED BY <2>2, Recursion
<1>5. h \in [X -> Y] /\ \A s \in X : h[s] = CollectsGuarded(h, s)
  BY <1>1, <1>4 DEF FixedPoint
<1> HIDE DEF F
<1>6. \A s \in X : s.impacted \subseteq h[s]
  <2> DEFINE C == {s \in X : s.impacted \subseteq h[s]}
  <2>1. ASSUME NEW s \in X, \A x \in X : Sooner(x, s) => x \in C PROVE s \in C
    <3>1. CASE s.todo = {} \/ ~(s.impacted \subseteq Found(h, s))
      BY <1>5, <3>1 DEF CollectsGuarded
    <3>2. CASE s.todo # {} /\ s.impacted \subseteq Found(h, s)
      <4> DEFINE t == Further(s, Found(h, s))
      <4>1. t \in X /\ Sooner(t, s)
        BY <1>1, <1>5, <3>2, CollectsDown
      <4>2. t.impacted \subseteq h[t]
        BY <2>1, <4>1
      <4>3. t.impacted = Found(h, s) /\ h[s] = h[t]
        BY <1>5, <3>2 DEF CollectsGuarded, Further
      <4> QED BY <3>2, <4>2, <4>3
    <3> QED BY <3>1, <3>2
  <2> HIDE DEF C
  <2>2. \A s \in X : s \in C
    BY <2>1, ImpactInduction DEF C
  <2> QED BY <2>2 DEF C
<1>7. ASSUME NEW s \in X PROVE h[s] = CollectsBody(h, s)
  <2>1. CASE s.todo = {}
    BY <1>5, <2>1 DEF CollectsGuarded, CollectsBody
  <2>2. CASE s.todo # {}
    <3>1. s.impacted \subseteq Found(h, s)
      <4>1. CASE New(s)
        <5>1. Deeper(s).impacted \subseteq h[Deeper(s)]
          BY <1>6, <2>2, <4>1, CollectsDown
        <5> QED BY <4>1, <5>1 DEF Found, Deeper
      <4>2. CASE ~New(s)
        BY <4>2 DEF Found
      <4> QED BY <4>1, <4>2
    <3> QED BY <1>5, <2>2, <3>1 DEF CollectsGuarded, CollectsBody
  <2> QED BY <2>1, <2>2
<1>8. h = [s \in X |-> CollectsBody(h, s)]
  BY <1>5, <1>7
<1> QED BY <1>8

LEMMA CollectsEquation ==
  ASSUME RelTyped, NEW s \in Relations!Impact
  PROVE  Relations!Collects[s] = CollectsBody(Relations!Collects, s)
<1> DEFINE P(g) == g = [x \in Relations!Impact |-> CollectsBody(g, x)]
<1>1. P(CHOOSE g : P(g))
  <2>1. \E h : P(h)
    BY CollectsExists
  <2> HIDE DEF P
  <2> QED BY <2>1
<1>2. Relations!Collects = CHOOSE g : P(g)
  BY DEF Relations!Collects, P, CollectsBody, Found, Further, New, Deeper, Looked
<1>3. P(Relations!Collects)
  BY <1>1, <1>2
<1>4. \A g : P(g) => g[s] = CollectsBody(g, s)
  OBVIOUS
<1> HIDE DEF P
<1> QED BY <1>3, <1>4

\* What Collects returns has what was there before and the entities that
\* depend, by one step or by more, on what it started from.
LEMMA CollectsAdds ==
  ASSUME RelTyped, NEW s \in Relations!Impact
  PROVE  s.impacted \subseteq Relations!Collects[s] /\ Relations!Collects[s] \subseteq entities
<1> DEFINE X == Relations!Impact
           h == Relations!Collects
           C == {x \in X : x.impacted \subseteq h[x] /\ h[x] \subseteq entities}
<1>1. ASSUME NEW x \in X, \A y \in X : Sooner(y, x) => y \in C PROVE x \in C
  <2>0. x.impacted \subseteq entities
    BY DEF Relations!Impact
  <2>1. CASE x.todo = {}
    BY <2>0, <2>1, CollectsEquation DEF CollectsBody
  <2>2. CASE x.todo # {}
    <3>1. x.impacted \subseteq Found(h, x) /\ Found(h, x) \subseteq entities
      <4>1. CASE New(x)
        <5>1. Deeper(x) \in C
          BY <1>1, <2>2, <4>1, CollectsDown
        <5> QED BY <4>1, <5>1 DEF Found, Deeper
      <4>2. CASE ~New(x)
        BY <2>0, <4>2 DEF Found
      <4> QED BY <4>1, <4>2
    <3> DEFINE t == Further(x, Found(h, x))
    <3>2. t \in C
      BY <1>1, <2>2, <3>1, CollectsDown
    <3>3. t.impacted = Found(h, x)
      BY DEF Further
    <3>4. h[x] = h[t]
      BY <2>2, CollectsEquation DEF CollectsBody
    <3> QED BY <3>1, <3>2, <3>3, <3>4
  <2> QED BY <2>1, <2>2
<1> HIDE DEF C
<1>2. s \in C
  BY <1>1, ImpactInduction DEF C
<1> QED BY <1>2 DEF C

Dependents(x) == {f \in entities : Relations!DependsOn(f, x)}

LEMMA CollectsWithin ==
  ASSUME RelTyped, NEW W, NEW s \in Relations!Impact,
         s.impacted \subseteq W, \A y \in {s.of} \cup W : Dependents(y) \subseteq W
  PROVE  Relations!Collects[s] \subseteq W
<1> DEFINE X == Relations!Impact
           h == Relations!Collects
           Closed(x) == x.impacted \subseteq W /\ \A y \in {x.of} \cup W : Dependents(y) \subseteq W
           C == {x \in X : Closed(x) => h[x] \subseteq W}
<1>1. ASSUME NEW x \in X, \A y \in X : Sooner(y, x) => y \in C PROVE x \in C
  <2> SUFFICES ASSUME Closed(x) PROVE h[x] \subseteq W
    OBVIOUS
  <2>1. CASE x.todo = {}
    BY <2>1, CollectsEquation DEF CollectsBody
  <2>2. CASE x.todo # {}
    <3>1. x.impacted \subseteq Found(h, x) /\ Found(h, x) \subseteq entities /\ Found(h, x) \subseteq W
      <4>1. CASE New(x)
        <5>1. Deeper(x) \in X /\ Deeper(x) \in C
          BY <1>1, <2>2, <4>1, CollectsDown
        <5>2. Looked(x) \in W
          BY <2>2, <4>1, CollectsDown DEF New, Dependents
        <5>3. Closed(Deeper(x))
          BY <5>2 DEF Deeper
        <5>4. Deeper(x).impacted \subseteq h[Deeper(x)] /\ h[Deeper(x)] \subseteq entities
          BY <5>1, CollectsAdds
        <5>5. x.impacted \subseteq Deeper(x).impacted
          BY DEF Deeper
        <5> HIDE DEF Closed
        <5> QED BY <4>1, <5>1, <5>3, <5>4, <5>5 DEF Found
      <4>2. CASE ~New(x)
        BY <4>2 DEF Found, Relations!Impact
      <4> QED BY <4>1, <4>2
    <3> DEFINE t == Further(x, Found(h, x))
    <3>2. t \in C
      BY <1>1, <2>2, <3>1, CollectsDown
    <3>3. Closed(t)
      BY <3>1 DEF Further
    <3>4. h[x] = h[t]
      BY <2>2, CollectsEquation DEF CollectsBody
    <3> QED BY <3>2, <3>3, <3>4
  <2> QED BY <2>1, <2>2
<1> HIDE DEF C
<1>2. s \in C
  BY <1>1, ImpactInduction DEF C
<1> QED BY <1>2 DEF C

LEMMA CollectsAll ==
  ASSUME RelTyped, NEW s \in Relations!Impact
  PROVE  /\ Dependents(s.of) \cap s.todo \subseteq Relations!Collects[s]
         /\ \A y \in Relations!Collects[s] \ s.impacted : Dependents(y) \subseteq Relations!Collects[s]
<1> DEFINE X == Relations!Impact
           h == Relations!Collects
           Whole(x) == /\ Dependents(x.of) \cap x.todo \subseteq h[x]
                     /\ \A y \in h[x] \ x.impacted : Dependents(y) \subseteq h[x]
           C == {x \in X : Whole(x)}
<1>1. ASSUME NEW x \in X, \A y \in X : Sooner(y, x) => y \in C PROVE Whole(x)
  <2>1. CASE x.todo = {}
    <3>1. h[x] = x.impacted
      BY <2>1, CollectsEquation DEF CollectsBody
    <3> QED BY <2>1, <3>1
  <2>2. CASE x.todo # {}
    <3> DEFINE k == Found(h, x)
               t == Further(x, k)
    <3>1. /\ x.impacted \subseteq k /\ k \subseteq entities
          /\ \A y \in k \ x.impacted : Dependents(y) \subseteq k
          /\ Looked(x) \in Dependents(x.of) => Looked(x) \in k
      <4>1. CASE New(x)
        <5>1. Deeper(x) \in X /\ Whole(Deeper(x))
          BY <1>1, <2>2, <4>1, CollectsDown
        <5>2. Deeper(x).impacted \subseteq h[Deeper(x)] /\ h[Deeper(x)] \subseteq entities
          BY <5>1, CollectsAdds
        <5>3. k = h[Deeper(x)]
          BY <4>1 DEF Found
        <5>4. /\ Deeper(x).of = Looked(x) /\ Deeper(x).todo = entities
              /\ Deeper(x).impacted = x.impacted \cup {Looked(x)}
          BY DEF Deeper
        <5>5. Dependents(Looked(x)) \subseteq k
          BY <5>1, <5>3, <5>4 DEF Dependents
        <5> QED BY <5>1, <5>2, <5>3, <5>4, <5>5
      <4>2. CASE ~New(x)
        <5>1. k = x.impacted /\ x.impacted \subseteq entities
          BY <4>2 DEF Found, Relations!Impact
        <5>2. Looked(x) \in Dependents(x.of) => Looked(x) \in k
          BY <4>2, <5>1 DEF New, Dependents
        <5> QED BY <5>1, <5>2
      <4> QED BY <4>1, <4>2
    <3> HIDE DEF k
    <3>2. t \in X /\ Whole(t)
      BY <1>1, <2>2, <3>1, CollectsDown
    <3>3. t.impacted = k /\ t.of = x.of /\ t.todo = x.todo \ {Looked(x)}
      BY DEF Further
    <3>4. h[x] = h[t]
      BY <2>2, CollectsEquation DEF CollectsBody, k
    <3>5. k \subseteq h[t]
      BY <3>2, <3>3, CollectsAdds
    <3> HIDE DEF t, h
    <3> QED BY <3>1, <3>2, <3>3, <3>4, <3>5
  <2> QED BY <2>1, <2>2
<1> HIDE DEF Whole
<1>2. \A x \in X : (\A y \in X : Sooner(y, x) => y \in C) => x \in C
  BY <1>1
<1>3. s \in C
  BY <1>2, ImpactInduction
<1> USE DEF Whole
<1> QED BY <1>3

\* From e to t along depends_on.
Leads(e, t) == \A reach \in SUBSET Entity :
  (\A y \in {e} \cup reach, x \in Entity :
     y \in entities /\ Relations!DependsOn(y, x) => x \in reach) => t \in reach

LEMMA ImpactedRight ==
  ASSUME RelTyped, NEW e \in Entity
  PROVE  Relations!Impacted(e) = {f \in entities : Leads(f, e)}
<1> DEFINE s == [of |-> e, todo |-> entities, impacted |-> {}]
           got == Relations!Collects[s]
<1>1. s \in Relations!Impact /\ s.of = e /\ s.todo = entities /\ s.impacted = {}
  BY DEF Relations!Impact
<1>2. got \subseteq entities /\ \A y \in {e} \cup got : Dependents(y) \subseteq got
  BY <1>1, CollectsAdds, CollectsAll DEF Dependents
<1>3. ASSUME NEW W, \A y \in {e} \cup W : Dependents(y) \subseteq W PROVE got \subseteq W
  BY <1>1, <1>3, CollectsWithin
<1>4. Relations!Impacted(e) = got
  BY DEF Relations!Impacted
<1> HIDE DEF got, s
<1>5. ASSUME NEW f \in got PROVE Leads(f, e)
  <2> SUFFICES ASSUME NEW reach \in SUBSET Entity, e \notin reach,
                      \A y \in {f} \cup reach, x \in Entity :
                        y \in entities /\ Relations!DependsOn(y, x) => x \in reach
               PROVE  FALSE
    BY DEF Leads
  <2> DEFINE W == entities \ ({f} \cup reach)
  <2>1. \A y \in {e} \cup W : Dependents(y) \subseteq W
    BY DEF Dependents, RelTyped
  <2> QED BY <1>3, <1>5, <2>1
<1>6. ASSUME NEW f \in entities, Leads(f, e), f \notin got PROVE FALSE
  <2> DEFINE reach == Entity \ ({e} \cup got)
  <2>1. \A y \in {f} \cup reach, x \in Entity :
          y \in entities /\ Relations!DependsOn(y, x) => x \in reach
    BY <1>2, <1>6 DEF Dependents
  <2> QED BY <1>6, <2>1 DEF Leads
<1> QED BY <1>2, <1>4, <1>5, <1>6

-----------------------------------------------------------------------------
(* Relations: Builds.  The depth decreases, or the relationships that are  *)
(* left do.                                                                *)

Target(s) == rel[s.at][s.n].to
Down(s)   == s.depth > 0 /\ Target(s) \in entities \ s.nodes
Under(s)  == [at |-> Target(s), depth |-> s.depth - 1, n |-> 1, nodes |-> s.nodes \cup {Target(s)}]
Reached(h, s) == IF Down(s) THEN h[Under(s)] ELSE s.nodes
Beside(s, nodes) == [at |-> s.at, depth |-> s.depth, n |-> s.n + 1, nodes |-> nodes]
BuildsBody(h, s) == IF s.n > Len(rel[s.at]) THEN s.nodes ELSE h[Beside(s, Reached(h, s))]

Depth   == [s \in Relations!Build |-> s.depth]
Left    == [s \in Relations!Build |-> IF s.n > Len(rel[s.at]) THEN 0 ELSE Len(rel[s.at]) + 1 - s.n]
Lower(x, s) == Less(Depth, Left, x, s)

LEMMA BuildMeasured ==
  ASSUME RelTyped
  PROVE  Depth \in [Relations!Build -> Nat] /\ Left \in [Relations!Build -> Nat]
<1>1. ASSUME NEW s \in Relations!Build
      PROVE  s.depth \in Nat /\ s.n \in Nat /\ Len(rel[s.at]) \in Nat
  BY DEF RelTyped, Relations!Build
<1> QED BY <1>1 DEF Depth, Left

LEMMA BuildsDown ==
  ASSUME RelTyped, NEW s \in Relations!Build, ~(s.n > Len(rel[s.at]))
  PROVE  /\ s.n \in DOMAIN rel[s.at] /\ Target(s) \in Entity
         /\ Down(s) => Under(s) \in Relations!Build /\ Lower(Under(s), s)
         /\ \A nodes \in SUBSET entities :
              Beside(s, nodes) \in Relations!Build /\ Lower(Beside(s, nodes), s)
<1>0. /\ s.at \in entities /\ s.at \in Entity /\ s.nodes \subseteq entities
      /\ s.depth \in Nat /\ s.n \in Nat \ {0}
      /\ rel[s.at] \in Seq(Relations!Relationship) /\ Len(rel[s.at]) \in Nat
  BY DEF RelTyped, Relations!Build
<1>1. s.n \in 1..Len(rel[s.at])
  BY <1>0
<1>2. s.n \in DOMAIN rel[s.at] /\ rel[s.at][s.n] \in Relations!Relationship
  BY <1>0, <1>1
<1>3. Target(s) \in Entity
  BY <1>2 DEF Target, Relations!Relationship
<1>4. ASSUME Down(s) PROVE Under(s) \in Relations!Build /\ Lower(Under(s), s)
  <2>1. Target(s) \in entities /\ s.depth - 1 \in Nat /\ s.depth - 1 < s.depth
    BY <1>0, <1>4 DEF Down
  <2>2. Under(s) \in Relations!Build /\ Under(s).depth = s.depth - 1
    BY <1>0, <2>1 DEF Under, Relations!Build
  <2> QED BY <2>1, <2>2 DEF Lower, Less, Depth
<1>5. ASSUME NEW nodes \in SUBSET entities
      PROVE  Beside(s, nodes) \in Relations!Build /\ Lower(Beside(s, nodes), s)
  <2> DEFINE t == Beside(s, nodes)
  <2>1. t \in Relations!Build /\ t.depth = s.depth /\ t.at = s.at /\ t.n = s.n + 1
    BY <1>0 DEF Beside, Relations!Build
  <2> HIDE DEF t
  <2>2. Depth[t] = Depth[s] /\ Left[t] < Left[s]
    BY <1>0, <1>1, <2>1 DEF Depth, Left
  <2> QED BY <2>1, <2>2 DEF Lower, Less, t
<1> QED BY <1>2, <1>3, <1>4, <1>5

LEMMA BuildInduction ==
  ASSUME RelTyped, NEW C \in SUBSET Relations!Build,
         \A s \in Relations!Build : (\A x \in Relations!Build : Lower(x, s) => x \in C) => s \in C
  PROVE  \A s \in Relations!Build : s \in C
<1> DEFINE S == Relations!Build \ C
<1> SUFFICES ASSUME S # {} PROVE FALSE
  OBVIOUS
<1>1. S \in SUBSET Relations!Build
  OBVIOUS
<1> HIDE DEF S
<1>2. \E m \in S : \A y \in S : ~Less(Depth, Left, y, m)
  BY <1>1, BuildMeasured, LessMinimal
<1> QED BY <1>2 DEF Lower, S

LEMMA BuildsExists ==
  ASSUME RelTyped
  PROVE  \E h : h = [s \in Relations!Build |-> BuildsBody(h, s)]
<1> DEFINE X == Relations!Build
           Y == SUBSET entities
           F == [p \in [X -> Y] \X X |-> BuildsBody(p[1], p[2])]
<1>1. ASSUME NEW h \in [X -> Y], NEW s \in X
      PROVE  /\ ~(s.n > Len(rel[s.at])) => Reached(h, s) \in Y
             /\ BuildsBody(h, s) \in Y /\ F[<<h, s>>] = BuildsBody(h, s)
  <2>0. s.nodes \in Y
    BY DEF Relations!Build
  <2>1. CASE s.n > Len(rel[s.at])
    BY <2>0, <2>1 DEF BuildsBody
  <2>2. CASE ~(s.n > Len(rel[s.at]))
    <3>1. Reached(h, s) \in Y
      BY <2>0, <2>2, BuildsDown DEF Reached
    <3> QED BY <2>0, <2>2, <3>1, BuildsDown DEF BuildsBody
  <2> QED BY <2>1, <2>2
<1>2. ASSUME NEW g \in [X -> Y], NEW h \in [X -> Y], NEW s \in X,
             \A y \in X : Less(Depth, Left, y, s) => g[y] = h[y]
      PROVE  F[<<g, s>>] = F[<<h, s>>]
  <2> SUFFICES BuildsBody(g, s) = BuildsBody(h, s)
    BY <1>1
  <2>1. CASE s.n > Len(rel[s.at])
    BY <2>1 DEF BuildsBody
  <2>2. CASE ~(s.n > Len(rel[s.at]))
    <3>1. Reached(g, s) = Reached(h, s) /\ Reached(g, s) \in Y
      BY <1>1, <1>2, <2>2, BuildsDown DEF Reached, Lower
    <3> QED BY <1>2, <2>2, <3>1, BuildsDown DEF BuildsBody, Lower
  <2> QED BY <2>1, <2>2
<1>3. F \in [[X -> Y] \X X -> Y] /\ {} \in Y
  BY <1>1
<1>4. PICK h : FixedPoint(X, Y, F, h)
  <2>1. Depth \in [X -> Nat] /\ Left \in [X -> Nat]
    BY BuildMeasured
  <2> HIDE DEF X, Y, F
  <2>2. Descends(X, Y, Depth, Left, F) /\ Y # {}
    BY <1>2, <1>3, <2>1 DEF Descends
  <2> QED BY <2>2, Recursion
<1>5. h \in [X -> Y] /\ \A s \in X : h[s] = BuildsBody(h, s)
  BY <1>1, <1>4 DEF FixedPoint
<1>6. h = [s \in X |-> BuildsBody(h, s)]
  BY <1>5
<1> QED BY <1>6

LEMMA BuildsEquation ==
  ASSUME RelTyped, NEW s \in Relations!Build
  PROVE  Relations!Builds[s] = BuildsBody(Relations!Builds, s)
<1> DEFINE P(g) == g = [x \in Relations!Build |-> BuildsBody(g, x)]
<1>1. P(CHOOSE g : P(g))
  <2>1. \E h : P(h)
    BY BuildsExists
  <2> HIDE DEF P
  <2> QED BY <2>1
<1>2. Relations!Builds = CHOOSE g : P(g)
  BY DEF Relations!Builds, P, BuildsBody, Reached, Beside, Under, Down, Target
<1>3. P(Relations!Builds)
  BY <1>1, <1>2
<1>4. \A g : P(g) => g[s] = BuildsBody(g, s)
  OBVIOUS
<1> HIDE DEF P
<1> QED BY <1>3, <1>4

\* The entities that relationships of y lead to.
Links(y) == {x \in entities : Relations!Linked(y, x)}

LEMMA BuildsAdds ==
  ASSUME RelTyped, NEW s \in Relations!Build
  PROVE  s.nodes \subseteq Relations!Builds[s] /\ Relations!Builds[s] \subseteq entities
<1> DEFINE X == Relations!Build
           h == Relations!Builds
           C == {x \in X : x.nodes \subseteq h[x] /\ h[x] \subseteq entities}
<1>1. ASSUME NEW x \in X, \A y \in X : Lower(y, x) => y \in C PROVE x \in C
  <2>0. x.nodes \subseteq entities
    BY DEF Relations!Build
  <2>1. CASE x.n > Len(rel[x.at])
    BY <2>0, <2>1, BuildsEquation DEF BuildsBody
  <2>2. CASE ~(x.n > Len(rel[x.at]))
    <3>1. x.nodes \subseteq Reached(h, x) /\ Reached(h, x) \subseteq entities
      <4>1. CASE Down(x)
        <5>1. Under(x) \in C
          BY <1>1, <2>2, <4>1, BuildsDown
        <5> QED BY <4>1, <5>1 DEF Reached, Under
      <4>2. CASE ~Down(x)
        BY <2>0, <4>2 DEF Reached
      <4> QED BY <4>1, <4>2
    <3> DEFINE t == Beside(x, Reached(h, x))
    <3>2. t \in C
      BY <1>1, <2>2, <3>1, BuildsDown
    <3>3. t.nodes = Reached(h, x)
      BY DEF Beside
    <3>4. h[x] = h[t]
      BY <2>2, BuildsEquation DEF BuildsBody
    <3> QED BY <3>1, <3>2, <3>3, <3>4
  <2> QED BY <2>1, <2>2
<1> HIDE DEF C
<1>2. s \in C
  BY <1>1, BuildInduction DEF C
<1> QED BY <1>2 DEF C

LEMMA BuildsWithin ==
  ASSUME RelTyped, NEW W, NEW s \in Relations!Build,
         s.nodes \subseteq W, \A y \in {s.at} \cup W : Links(y) \subseteq W
  PROVE  Relations!Builds[s] \subseteq W
<1> DEFINE X == Relations!Build
           h == Relations!Builds
           Closed(x) == x.nodes \subseteq W /\ \A y \in {x.at} \cup W : Links(y) \subseteq W
           C == {x \in X : Closed(x) => h[x] \subseteq W}
<1>1. ASSUME NEW x \in X, \A y \in X : Lower(y, x) => y \in C PROVE x \in C
  <2> SUFFICES ASSUME Closed(x) PROVE h[x] \subseteq W
    OBVIOUS
  <2>1. CASE x.n > Len(rel[x.at])
    BY <2>1, BuildsEquation DEF BuildsBody
  <2>2. CASE ~(x.n > Len(rel[x.at]))
    <3>1. Reached(h, x) \subseteq entities /\ Reached(h, x) \subseteq W
      <4>1. CASE Down(x)
        <5>1. Under(x) \in X /\ Under(x) \in C
          BY <1>1, <2>2, <4>1, BuildsDown
        <5>2. Target(x) \in W
          BY <2>2, <4>1, BuildsDown DEF Down, Links, Relations!Linked, Target
        <5>3. Closed(Under(x))
          BY <5>2 DEF Under
        <5>4. h[Under(x)] \subseteq entities
          BY <5>1, BuildsAdds
        <5> HIDE DEF Closed
        <5> QED BY <4>1, <5>1, <5>3, <5>4 DEF Reached
      <4>2. CASE ~Down(x)
        BY <4>2 DEF Reached, Relations!Build
      <4> QED BY <4>1, <4>2
    <3> DEFINE t == Beside(x, Reached(h, x))
    <3>2. t \in C
      BY <1>1, <2>2, <3>1, BuildsDown
    <3>3. Closed(t)
      BY <3>1 DEF Beside
    <3>4. h[x] = h[t]
      BY <2>2, BuildsEquation DEF BuildsBody
    <3> QED BY <3>2, <3>3, <3>4
  <2> QED BY <2>1, <2>2
<1> HIDE DEF C
<1>2. s \in C
  BY <1>1, BuildInduction DEF C
<1> QED BY <1>2 DEF C

\* With a depth for everything that is not yet a node, nothing is cut off.
LEMMA BuildsAll ==
  ASSUME RelTyped, NEW s \in Relations!Build, Cardinality(entities \ s.nodes) <= s.depth
  PROVE  /\ \A n \in DOMAIN rel[s.at] : n >= s.n /\ rel[s.at][n].to \in entities =>
              rel[s.at][n].to \in Relations!Builds[s]
         /\ \A y \in Relations!Builds[s] \ s.nodes : Links(y) \subseteq Relations!Builds[s]
<1> DEFINE X == Relations!Build
           h == Relations!Builds
           Deep(x) == Cardinality(entities \ x.nodes) <= x.depth
           Whole(x) == /\ \A n \in DOMAIN rel[x.at] : n >= x.n /\ rel[x.at][n].to \in entities =>
                          rel[x.at][n].to \in h[x]
                     /\ \A y \in h[x] \ x.nodes : Links(y) \subseteq h[x]
           C == {x \in X : Deep(x) => Whole(x)}
<1>00. IsFiniteSet(entities)
  BY RelationsAssumption, FS_Subset DEF RelTyped
<1>1. ASSUME NEW x \in X, \A y \in X : Lower(y, x) => y \in C, Deep(x) PROVE Whole(x)
  <2>0. /\ x.at \in entities /\ x.at \in Entity /\ x.nodes \subseteq entities
        /\ x.depth \in Nat /\ x.n \in Nat \ {0}
        /\ Len(rel[x.at]) \in Nat /\ DOMAIN rel[x.at] = 1..Len(rel[x.at])
    BY DEF RelTyped, Relations!Build
  <2>1. CASE x.n > Len(rel[x.at])
    <3>1. h[x] = x.nodes
      BY <2>1, BuildsEquation DEF BuildsBody
    <3>2. ASSUME NEW n \in DOMAIN rel[x.at], n >= x.n PROVE FALSE
      BY <2>0, <2>1, <3>2
    <3> QED BY <3>1, <3>2
  <2>2. CASE ~(x.n > Len(rel[x.at]))
    <3> DEFINE k == Reached(h, x)
               t == Beside(x, k)
    <3>1. /\ x.nodes \subseteq k /\ k \subseteq entities
          /\ \A y \in k \ x.nodes : Links(y) \subseteq k
          /\ Target(x) \in entities => Target(x) \in k
      <4>1. CASE Down(x)
        <5>1. Under(x) \in X /\ Under(x) \in C
          BY <1>1, <2>2, <4>1, BuildsDown
        <5>2. Under(x).nodes \subseteq h[Under(x)] /\ h[Under(x)] \subseteq entities
          BY <5>1, BuildsAdds
        <5>3. k = h[Under(x)]
          BY <4>1 DEF Reached
        <5>4. /\ Under(x).at = Target(x) /\ Under(x).n = 1 /\ Under(x).depth = x.depth - 1
              /\ Under(x).nodes = x.nodes \cup {Target(x)}
          BY DEF Under
        <5>5. Target(x) \in entities /\ Target(x) \in Entity /\ Target(x) \notin x.nodes
          BY <4>1 DEF Down, RelTyped
        <5>6. Deep(Under(x))
          <6>1. /\ Cardinality(entities \ Under(x).nodes) < Cardinality(entities \ x.nodes)
                /\ Cardinality(entities \ Under(x).nodes) \in Nat
                /\ Cardinality(entities \ x.nodes) \in Nat
            BY <1>00, <2>0, <5>4, <5>5, FewerLeft
          <6> QED BY <1>1, <2>0, <5>4, <6>1
        <5>7. Whole(Under(x))
          BY <5>1, <5>6
        <5>8. Links(Target(x)) \subseteq k
          <6>1. DOMAIN rel[Target(x)] \subseteq Nat \ {0}
            BY <5>5 DEF RelTyped
          <6>2. \A n \in DOMAIN rel[Target(x)] :
                  rel[Target(x)][n].to \in entities => rel[Target(x)][n].to \in k
            BY <5>3, <5>4, <5>7, <6>1
          <6> QED BY <6>2 DEF Links, Relations!Linked
        <5> HIDE DEF k, Deep
        <5> QED BY <5>2, <5>3, <5>4, <5>7, <5>8
      <4>2. CASE ~Down(x)
        <5>1. k = x.nodes
          BY <4>2 DEF Reached
        <5>2. ASSUME Target(x) \in entities \ x.nodes PROVE FALSE
          <6>1. x.depth = 0
            BY <2>0, <4>2, <5>2 DEF Down
          <6>2. IsFiniteSet(entities \ x.nodes) /\ Cardinality(entities \ x.nodes) \in Nat
            BY <1>00, FS_Subset, FS_CardinalityType
          <6>3. Cardinality(entities \ x.nodes) = 0
            BY <1>1, <6>1, <6>2
          <6> QED BY <5>2, <6>2, <6>3, FS_EmptySet
        <5> QED BY <2>0, <5>1, <5>2
      <4> QED BY <4>1, <4>2
    <3>2. h[x] = h[t]
      BY <2>2, BuildsEquation DEF BuildsBody
    <3> HIDE DEF k
    <3>3. t \in X /\ t \in C
      BY <1>1, <2>2, <3>1, BuildsDown
    <3>4. t.nodes = k /\ t.at = x.at /\ t.n = x.n + 1 /\ t.depth = x.depth
      BY DEF Beside
    <3> HIDE DEF t
    <3>5. Deep(t)
      <4>1. /\ Cardinality(entities \ k) <= Cardinality(entities \ x.nodes)
            /\ Cardinality(entities \ k) \in Nat /\ Cardinality(entities \ x.nodes) \in Nat
        BY <1>00, <2>0, <3>1, FewerLeft
      <4> QED BY <1>1, <2>0, <3>4, <4>1
    <3>6. Whole(t)
      BY <3>3, <3>5
    <3>7. k \subseteq h[t]
      BY <3>3, <3>4, BuildsAdds
    <3>8. ASSUME NEW n \in DOMAIN rel[x.at], n >= x.n, rel[x.at][n].to \in entities
          PROVE  rel[x.at][n].to \in h[x]
      <4>1. CASE n = x.n
        BY <3>1, <3>2, <3>7, <3>8, <4>1 DEF Target
      <4>2. CASE n # x.n
        <5>1. n >= t.n
          BY <2>0, <3>4, <3>8, <4>2
        <5> QED BY <3>2, <3>4, <3>6, <3>8, <5>1
      <4> QED BY <4>1, <4>2
    <3>9. \A y \in h[x] \ x.nodes : Links(y) \subseteq h[x]
      BY <3>1, <3>2, <3>4, <3>6, <3>7
    <3> QED BY <3>8, <3>9
  <2> QED BY <2>1, <2>2
<1> HIDE DEF Whole, Deep
<1>2. \A x \in X : (\A y \in X : Lower(y, x) => y \in C) => x \in C
  BY <1>1
<1>3. s \in C
  BY <1>2, BuildInduction
<1> USE DEF Whole, Deep
<1> QED BY <1>3

\* From e to t along any relationship.
LeadsOn(e, t) == \A reach \in SUBSET Entity :
  (\A y \in {e} \cup reach, x \in Entity :
     y \in entities /\ Relations!Linked(y, x) => x \in reach) => t \in reach

LEMMA SameSize == \A S : Relations!Cardinality(S) = Cardinality(S)
  BY DEF Relations!Cardinality, Cardinality

LEMMA GraphRight ==
  ASSUME RelTyped, NEW e \in entities
  PROVE  Relations!Graph(e, Cardinality(Entity)) = {e} \cup {t \in entities : LeadsOn(e, t)}
<1> DEFINE s == [at |-> e, depth |-> Cardinality(Entity), n |-> 1, nodes |-> {e}]
           all == Relations!Builds[s]
<1>0. entities \subseteq Entity /\ IsFiniteSet(Entity) /\ e \in Entity
  BY RelationsAssumption DEF RelTyped
<1>1. /\ s \in Relations!Build /\ s.at = e /\ s.nodes = {e} /\ s.n = 1
      /\ s.depth = Cardinality(Entity)
  BY <1>0, FS_CardinalityType DEF Relations!Build
<1>2. Relations!Graph(e, Cardinality(Entity)) = all
  BY DEF Relations!Graph
<1> HIDE DEF all, s
<1>3. all \subseteq entities /\ e \in all
  BY <1>1, BuildsAdds DEF all
<1>4. ASSUME NEW W, e \in W, \A y \in W : Links(y) \subseteq W PROVE all \subseteq W
  BY <1>1, <1>4, BuildsWithin DEF all
<1>5. \A y \in all : Links(y) \subseteq all
  <2>1. Cardinality(entities \ s.nodes) <= s.depth
    BY <1>0, <1>1, FS_Subset
  <2>2. DOMAIN rel[e] \subseteq Nat \ {0}
    BY <1>0 DEF RelTyped
  <2>3. Links(e) \subseteq all
    BY <1>1, <2>1, <2>2, BuildsAll DEF all, Links, Relations!Linked
  <2>4. \A y \in all \ {e} : Links(y) \subseteq all
    BY <1>1, <2>1, BuildsAll DEF all
  <2> QED BY <2>3, <2>4
<1>6. ASSUME NEW t \in all, t # e PROVE LeadsOn(e, t)
  <2> SUFFICES ASSUME NEW reach \in SUBSET Entity,
                      \A y \in {e} \cup reach, x \in Entity :
                        y \in entities /\ Relations!Linked(y, x) => x \in reach
               PROVE  t \in reach
    BY DEF LeadsOn
  <2> DEFINE W == {e} \cup (reach \cap entities)
  <2>1. \A y \in W : Links(y) \subseteq W
    BY <1>0 DEF Links
  <2> QED BY <1>4, <1>6, <2>1
<1>7. ASSUME NEW t \in entities, LeadsOn(e, t) PROVE t \in all
  <2> DEFINE reach == all \cup (Entity \ entities)
  <2>1. \A y \in {e} \cup reach, x \in Entity : y \in entities /\ Relations!Linked(y, x) => x \in reach
    BY <1>3, <1>5 DEF Links
  <2>2. reach \in SUBSET Entity
    BY <1>0, <1>3
  <2> QED BY <1>7, <2>1, <2>2 DEF LeadsOn
<1> QED BY <1>2, <1>3, <1>6, <1>7

-----------------------------------------------------------------------------
(* Relations: Detects.  The entities not yet visited decrease, or the      *)
(* relationships that are left do.                                         *)

Followed(s)  == rel[s.at][s.n]
Stack(s)  == s.stack \cup {Followed(s).to}
Seen(s)   == s.visited \cup {Followed(s).to}
Into(s)   == [at |-> Followed(s).to, n |-> 1, visited |-> Seen(s), stack |-> Stack(s)]
Enters(s) == Followed(s).type = "depends_on" /\ Followed(s).to \in entities \ s.visited
Answer(h, s) ==
  IF Followed(s).type # "depends_on" THEN Relations!Searched(s.visited, s.stack)
  ELSE IF Followed(s).to \notin s.visited
    THEN IF Followed(s).to \in entities THEN h[Into(s)] ELSE Relations!Searched(Seen(s), Stack(s))
  ELSE IF Relations!OnTheWay(Followed(s).to, s) THEN Relations!Circular
  ELSE Relations!Searched(s.visited, s.stack)
Past(s, a) == [at |-> s.at, n |-> s.n + 1, visited |-> a.visited, stack |-> a.stack]
DetectsBody(h, s) ==
  IF s.n > Len(rel[s.at]) THEN Relations!Searched(s.visited, s.stack \ {s.at})
  ELSE IF Answer(h, s).error THEN Relations!Circular ELSE h[Past(s, Answer(h, s))]

\* What a search may answer, and what it has then kept of what it was given.
Outcome == [error : BOOLEAN, visited : SUBSET Entity, stack : SUBSET Entity]
Kept(s, a) ==
  /\ a \in Outcome
  /\ ~a.error => s.visited \subseteq a.visited /\ s.stack \ {s.at} \subseteq a.stack
                   /\ a.stack \subseteq a.visited
Passed(s, a) == Kept(s, a) /\ s.stack \subseteq a.stack

\* The same, as long as nothing is forgotten.
DetectsGuarded(h, s) ==
  IF s.n > Len(rel[s.at]) THEN Relations!Searched(s.visited, s.stack \ {s.at})
  ELSE IF Answer(h, s).error \/ ~Passed(s, Answer(h, s)) THEN Relations!Circular
  ELSE h[Past(s, Answer(h, s))]

Unseen == [s \in Relations!Search |-> Cardinality(Entity \ s.visited)]
Rest   == [s \in Relations!Search |-> IF s.n > Len(rel[s.at]) THEN 0 ELSE Len(rel[s.at]) + 1 - s.n]
Nearer(x, s) == Less(Unseen, Rest, x, s)

LEMMA SearchFields ==
  ASSUME RelTyped, NEW s \in Relations!Search
  PROVE  /\ s.at \in entities /\ s.at \in Entity /\ s.n \in Nat \ {0}
         /\ s.visited \subseteq Entity /\ s.stack \subseteq s.visited /\ s.at \in s.stack
         /\ rel[s.at] \in Seq(Relations!Relationship) /\ Len(rel[s.at]) \in Nat
         /\ DOMAIN rel[s.at] = 1..Len(rel[s.at])
BY DEF RelTyped, Relations!Search

LEMMA SearchMeasured ==
  ASSUME RelTyped
  PROVE  Unseen \in [Relations!Search -> Nat] /\ Rest \in [Relations!Search -> Nat]
<1>1. ASSUME NEW s \in Relations!Search
      PROVE  Cardinality(Entity \ s.visited) \in Nat /\ s.n \in Nat /\ Len(rel[s.at]) \in Nat
  <2>1. Entity \ s.visited \in SUBSET Entity
    OBVIOUS
  <2>2. IsFiniteSet(Entity \ s.visited)
    BY <2>1, RelationsAssumption, FS_Subset
  <2> QED BY <2>2, SearchFields, FS_CardinalityType
<1>2. Unseen \in [Relations!Search -> Nat]
  BY <1>1 DEF Unseen
<1>3. Rest \in [Relations!Search -> Nat]
  <2>1. ASSUME NEW s \in Relations!Search
        PROVE  (IF s.n > Len(rel[s.at]) THEN 0 ELSE Len(rel[s.at]) + 1 - s.n) \in Nat
    <3>1. \A n, l \in Nat : (IF n > l THEN 0 ELSE l + 1 - n) \in Nat
      OBVIOUS
    <3>2. s.n \in Nat /\ Len(rel[s.at]) \in Nat
      BY <1>1
    <3> QED BY <3>1, <3>2
  <2> QED BY <2>1 DEF Rest
<1> QED BY <1>2, <1>3

LEMMA DetectsDown ==
  ASSUME RelTyped, NEW s \in Relations!Search, ~(s.n > Len(rel[s.at]))
  PROVE  /\ s.n \in DOMAIN rel[s.at] /\ Followed(s) \in Relations!Relationship
         /\ Enters(s) => Into(s) \in Relations!Search /\ Nearer(Into(s), s)
         /\ \A a : Passed(s, a) /\ ~a.error => Past(s, a) \in Relations!Search /\ Nearer(Past(s, a), s)
<1>0. /\ s.at \in entities /\ s.at \in Entity /\ s.n \in Nat \ {0}
      /\ s.visited \subseteq Entity /\ s.stack \subseteq s.visited /\ s.at \in s.stack
      /\ rel[s.at] \in Seq(Relations!Relationship) /\ Len(rel[s.at]) \in Nat
      /\ DOMAIN rel[s.at] = 1..Len(rel[s.at]) /\ IsFiniteSet(Entity)
  BY SearchFields, RelationsAssumption
<1>1. s.n \in DOMAIN rel[s.at]
  BY <1>0
<1>2. Followed(s) \in Relations!Relationship /\ Followed(s).to \in Entity
  <2>1. Followed(s) \in Relations!Relationship
    BY <1>0, <1>1 DEF Followed
  <2> QED BY <2>1 DEF Relations!Relationship
<1>3. ASSUME Enters(s) PROVE Into(s) \in Relations!Search /\ Nearer(Into(s), s)
  <2>1. Followed(s).to \in entities /\ Followed(s).to \notin s.visited
    BY <1>3 DEF Enters
  <2>2. Into(s) \in Relations!Search
    BY <1>0, <1>2, <2>1 DEF Into, Seen, Stack, Relations!Search
  <2>3. Into(s).visited = s.visited \cup {Followed(s).to}
    BY DEF Into, Seen
  <2>4. Cardinality(Entity \ Into(s).visited) < Cardinality(Entity \ s.visited)
    BY <1>0, <1>2, <2>1, <2>3, FewerLeft
  <2> QED BY <2>2, <2>4 DEF Nearer, Less, Unseen
<1>4. ASSUME NEW a, Passed(s, a), ~a.error
      PROVE  Past(s, a) \in Relations!Search /\ Nearer(Past(s, a), s)
  <2> DEFINE t == Past(s, a)
  <2>1. /\ s.visited \subseteq a.visited /\ s.stack \subseteq a.stack
        /\ a.stack \subseteq a.visited /\ a.visited \subseteq Entity
    BY <1>4 DEF Passed, Kept, Outcome
  <2>2. t \in Relations!Search
    BY <1>0, <2>1 DEF Past, Relations!Search
  <2>3. t.visited = a.visited /\ t.at = s.at /\ t.n = s.n + 1
    BY DEF Past
  <2>4. /\ Cardinality(Entity \ a.visited) <= Cardinality(Entity \ s.visited)
        /\ Cardinality(Entity \ a.visited) \in Nat /\ Cardinality(Entity \ s.visited) \in Nat
    BY <1>0, <2>1, FewerLeft
  <2> HIDE DEF t
  <2>5. /\ Unseen[t] <= Unseen[s] /\ Unseen[t] \in Nat /\ Unseen[s] \in Nat
    BY <2>2, <2>3, <2>4 DEF Unseen
  <2>6. Rest[t] < Rest[s]
    BY <1>0, <1>1, <2>2, <2>3 DEF Rest
  <2> QED BY <2>2, <2>5, <2>6 DEF Nearer, Less, t
<1> QED BY <1>1, <1>2, <1>3, <1>4

LEMMA SearchInduction ==
  ASSUME RelTyped, NEW C \in SUBSET Relations!Search,
         \A s \in Relations!Search : (\A x \in Relations!Search : Nearer(x, s) => x \in C) => s \in C
  PROVE  \A s \in Relations!Search : s \in C
<1> DEFINE S == Relations!Search \ C
<1> SUFFICES ASSUME S # {} PROVE FALSE
  OBVIOUS
<1>1. S \in SUBSET Relations!Search
  OBVIOUS
<1> HIDE DEF S
<1>2. \E m \in S : \A y \in S : ~Less(Unseen, Rest, y, m)
  BY <1>1, SearchMeasured, LessMinimal
<1> QED BY <1>2 DEF Nearer, S

\* The answer on one relationship keeps the stack, if the search it begins, if
\* any, keeps what it must.
LEMMA AnswerPasses ==
  ASSUME RelTyped, NEW s \in Relations!Search, ~(s.n > Len(rel[s.at])), NEW h,
         Enters(s) => Kept(Into(s), h[Into(s)])
  PROVE  Answer(h, s) \in Outcome /\ (~Answer(h, s).error => Passed(s, Answer(h, s)))
<1>0. /\ s.visited \subseteq Entity /\ s.stack \subseteq s.visited /\ s.at \in s.stack
      /\ Followed(s).to \in Entity
  BY SearchFields, DetectsDown DEF Relations!Relationship
<1> DEFINE d == Followed(s).to
<1>1. ASSUME NEW v \in SUBSET Entity, NEW w \in SUBSET v, s.visited \subseteq v, s.stack \subseteq w,
             Answer(h, s) = Relations!Searched(v, w)
      PROVE  Answer(h, s) \in Outcome /\ Passed(s, Answer(h, s))
  <2>1. Relations!Searched(v, w) \in Outcome
    BY DEF Relations!Searched, Outcome
  <2>2. Relations!Searched(v, w).visited = v /\ Relations!Searched(v, w).stack = w
    BY DEF Relations!Searched
  <2> QED BY <1>1, <2>1, <2>2 DEF Passed, Kept
<1>2. CASE Followed(s).type # "depends_on"
  BY <1>0, <1>1, <1>2 DEF Answer
<1>3. CASE Enters(s)
  <2>1. Answer(h, s) = h[Into(s)]
    BY <1>3 DEF Answer, Enters
  <2>2. /\ Into(s).at = d /\ Into(s).visited = s.visited \cup {d} /\ Into(s).stack = s.stack \cup {d}
        /\ d \notin s.visited
    BY <1>3 DEF Into, Seen, Stack, Enters
  <2> QED BY <1>0, <1>3, <2>1, <2>2 DEF Passed, Kept
<1>4. CASE Followed(s).type = "depends_on" /\ d \notin s.visited /\ d \notin entities
  <2> DEFINE v == s.visited \cup {d}
             w == s.stack \cup {d}
  <2>1. Answer(h, s) = Relations!Searched(v, w)
    BY <1>4 DEF Answer, Seen, Stack
  <2>2. v \in SUBSET Entity /\ w \in SUBSET v /\ s.visited \subseteq v /\ s.stack \subseteq w
    BY <1>0
  <2> HIDE DEF v, w
  <2> QED BY <1>1, <2>1, <2>2
<1>5. CASE Followed(s).type = "depends_on" /\ d \in s.visited
  <2>1. CASE Relations!OnTheWay(d, s)
    <3>1. Answer(h, s) = Relations!Circular
      BY <1>5, <2>1 DEF Answer
    <3> QED BY <3>1 DEF Relations!Circular, Outcome
  <2>2. CASE ~Relations!OnTheWay(d, s)
    BY <1>0, <1>1, <1>5, <2>2 DEF Answer
  <2> QED BY <2>1, <2>2
<1> QED BY <1>2, <1>3, <1>4, <1>5 DEF Enters

LEMMA CircularOutcome ==
  Relations!Circular \in Outcome /\ Relations!Circular.error
BY DEF Relations!Circular, Outcome

\* The answer at the end of the relationships.
LEMMA LastKept ==
  ASSUME RelTyped, NEW s \in Relations!Search
  PROVE  Kept(s, Relations!Searched(s.visited, s.stack \ {s.at}))
<1>1. /\ Relations!Searched(s.visited, s.stack \ {s.at}) \in Outcome
      /\ Relations!Searched(s.visited, s.stack \ {s.at}).visited = s.visited
      /\ Relations!Searched(s.visited, s.stack \ {s.at}).stack = s.stack \ {s.at}
  BY SearchFields DEF Relations!Searched, Outcome
<1> QED BY <1>1, SearchFields DEF Kept

\* What the rest of the search keeps of the answer on one relationship, it keeps.
LEMMA PastKeeps ==
  ASSUME RelTyped, NEW s \in Relations!Search, NEW a, NEW b, Passed(s, a), ~a.error, Kept(Past(s, a), b)
  PROVE  Kept(s, b)
<1>1. Past(s, a).at = s.at /\ Past(s, a).visited = a.visited /\ Past(s, a).stack = a.stack
  BY DEF Past
<1> QED BY <1>1 DEF Passed, Kept

LEMMA GuardedKeeps ==
  ASSUME RelTyped, NEW h, \A s \in Relations!Search : h[s] = DetectsGuarded(h, s)
  PROVE  \A s \in Relations!Search : Kept(s, h[s])
<1> DEFINE X == Relations!Search
           C == {s \in X : Kept(s, h[s])}
<1>1. ASSUME NEW s \in X, \A x \in X : Nearer(x, s) => x \in C PROVE Kept(s, h[s])
  <2>1. CASE s.n > Len(rel[s.at])
    BY <2>1, LastKept DEF DetectsGuarded
  <2>2. CASE ~(s.n > Len(rel[s.at])) /\ (Answer(h, s).error \/ ~Passed(s, Answer(h, s)))
    BY <2>2, CircularOutcome DEF DetectsGuarded, Kept
  <2>3. CASE ~(s.n > Len(rel[s.at])) /\ ~Answer(h, s).error /\ Passed(s, Answer(h, s))
    <3> DEFINE t == Past(s, Answer(h, s))
    <3>1. t \in X /\ Kept(t, h[t])
      BY <1>1, <2>3, DetectsDown
    <3>2. h[s] = h[t]
      BY <2>3 DEF DetectsGuarded
    <3> QED BY <2>3, <3>1, <3>2, PastKeeps
  <2> QED BY <2>1, <2>2, <2>3
<1>2. \A s \in X : (\A x \in X : Nearer(x, s) => x \in C) => s \in C
  BY <1>1
<1> HIDE DEF C
<1>3. \A s \in X : s \in C
  BY <1>2, SearchInduction DEF C
<1> QED BY <1>3 DEF C

LEMMA DetectsExists ==
  ASSUME RelTyped
  PROVE  \E h : h = [s \in Relations!Search |-> DetectsBody(h, s)]
<1> DEFINE X == Relations!Search
           Y == Outcome
           F == [p \in [X -> Y] \X X |-> DetectsGuarded(p[1], p[2])]
<1>1. ASSUME NEW h \in [X -> Y], NEW s \in X
      PROVE  DetectsGuarded(h, s) \in Y /\ F[<<h, s>>] = DetectsGuarded(h, s)
  <2>1. CASE s.n > Len(rel[s.at])
    BY <2>1, LastKept DEF DetectsGuarded, Kept
  <2>2. CASE ~(s.n > Len(rel[s.at])) /\ (Answer(h, s).error \/ ~Passed(s, Answer(h, s)))
    BY <2>2, CircularOutcome DEF DetectsGuarded
  <2>3. CASE ~(s.n > Len(rel[s.at])) /\ ~Answer(h, s).error /\ Passed(s, Answer(h, s))
    BY <2>3, DetectsDown DEF DetectsGuarded
  <2> QED BY <2>1, <2>2, <2>3
<1>2. ASSUME NEW g \in [X -> Y], NEW h \in [X -> Y], NEW s \in X,
             \A y \in X : Less(Unseen, Rest, y, s) => g[y] = h[y]
      PROVE  F[<<g, s>>] = F[<<h, s>>]
  <2> SUFFICES DetectsGuarded(g, s) = DetectsGuarded(h, s)
    BY <1>1
  <2>1. CASE s.n > Len(rel[s.at])
    BY <2>1 DEF DetectsGuarded
  <2>2. CASE ~(s.n > Len(rel[s.at]))
    <3>1. Answer(g, s) = Answer(h, s)
      <4>1. Enters(s) => g[Into(s)] = h[Into(s)]
        BY <1>2, <2>2, DetectsDown DEF Nearer
      <4> QED BY <4>1 DEF Answer, Enters
    <3>2. ~Answer(h, s).error /\ Passed(s, Answer(h, s)) =>
            g[Past(s, Answer(h, s))] = h[Past(s, Answer(h, s))]
      BY <1>2, <2>2, DetectsDown DEF Nearer
    <3> QED BY <2>2, <3>1, <3>2 DEF DetectsGuarded
  <2> QED BY <2>1, <2>2
<1>3. F \in [[X -> Y] \X X -> Y] /\ Y # {}
  BY <1>1, CircularOutcome
<1>4. PICK h : FixedPoint(X, Y, F, h)
  <2>1. Unseen \in [X -> Nat] /\ Rest \in [X -> Nat]
    BY SearchMeasured
  <2> HIDE DEF X, Y, F
  <2>2. Descends(X, Y, Unseen, Rest, F)
    BY <1>2, <1>3, <2>1 DEF Descends
  <2> QED BY <1>3, <2>2, Recursion
<1>5. h \in [X -> Y] /\ \A s \in X : h[s] = DetectsGuarded(h, s)
  BY <1>1, <1>4 DEF FixedPoint
<1>6. \A s \in X : Kept(s, h[s])
  BY <1>5, GuardedKeeps
<1>7. ASSUME NEW s \in X PROVE h[s] = DetectsBody(h, s)
  <2>1. CASE s.n > Len(rel[s.at])
    BY <1>5, <2>1 DEF DetectsGuarded, DetectsBody
  <2>2. CASE ~(s.n > Len(rel[s.at]))
    <3>1. ~Answer(h, s).error => Passed(s, Answer(h, s))
      BY <1>6, <2>2, AnswerPasses, DetectsDown
    <3> QED BY <1>5, <2>2, <3>1 DEF DetectsGuarded, DetectsBody
  <2> QED BY <2>1, <2>2
<1>8. h = [s \in X |-> DetectsBody(h, s)]
  BY <1>5, <1>7
<1> QED BY <1>8

LEMMA DetectsEquation ==
  ASSUME RelTyped, NEW s \in Relations!Search
  PROVE  Relations!Detects[s] = DetectsBody(Relations!Detects, s)
<1> DEFINE P(g) == g = [x \in Relations!Search |-> DetectsBody(g, x)]
<1>1. P(CHOOSE g : P(g))
  <2>1. \E h : P(h)
    BY DetectsExists
  <2> HIDE DEF P
  <2> QED BY <2>1
<1>2. Relations!Detects = CHOOSE g : P(g)
  BY DEF Relations!Detects, P, DetectsBody, Answer, Past, Into, Seen, Stack, Followed
<1>3. P(Relations!Detects)
  BY <1>1, <1>2
<1>4. \A g : P(g) => g[s] = DetectsBody(g, s)
  OBVIOUS
<1> HIDE DEF P
<1> QED BY <1>3, <1>4

\* A search that ends without an error forgets nothing of what it was given.
LEMMA DetectsKeeps ==
  ASSUME RelTyped, NEW s \in Relations!Search PROVE Kept(s, Relations!Detects[s])
<1> DEFINE X == Relations!Search
           h == Relations!Detects
           C == {x \in X : Kept(x, h[x])}
<1>1. ASSUME NEW x \in X, \A y \in X : Nearer(y, x) => y \in C PROVE Kept(x, h[x])
  <2>0. h[x] = DetectsBody(h, x)
    BY DetectsEquation
  <2> HIDE DEF h
  <2>1. CASE x.n > Len(rel[x.at])
    BY <2>0, <2>1, LastKept DEF DetectsBody
  <2>2. CASE ~(x.n > Len(rel[x.at])) /\ Answer(h, x).error
    BY <2>0, <2>2, CircularOutcome DEF DetectsBody, Kept
  <2>3. CASE ~(x.n > Len(rel[x.at])) /\ ~Answer(h, x).error
    <3>1. Enters(x) => Kept(Into(x), h[Into(x)])
      BY <1>1, <2>3, DetectsDown
    <3>2. Passed(x, Answer(h, x))
      BY <2>3, <3>1, AnswerPasses
    <3> DEFINE t == Past(x, Answer(h, x))
    <3>3. t \in X /\ Kept(t, h[t])
      BY <1>1, <2>3, <3>2, DetectsDown
    <3>4. h[x] = h[t]
      BY <2>0, <2>3 DEF DetectsBody
    <3> QED BY <2>3, <3>2, <3>3, <3>4, PastKeeps
  <2> QED BY <2>1, <2>2, <2>3
<1>2. \A x \in X : (\A y \in X : Nearer(y, x) => y \in C) => x \in C
  BY <1>1
<1> HIDE DEF C
<1>3. s \in C
  BY <1>2, SearchInduction DEF C
<1> QED BY <1>3 DEF C

LEMMA DependsFrom ==
  ASSUME RelTyped, NEW e \in Entity, NEW t
  PROVE  Relations!DependsOn(e, t) <=>
           \E n \in DOMAIN rel[e] : rel[e][n].type = "depends_on" /\ rel[e][n].to = t
<1>1. rel[e] \in Seq(Relations!Relationship) /\ DOMAIN rel[e] = 1..Len(rel[e])
  BY DEF RelTyped
<1>2. \A n \in DOMAIN rel[e] : rel[e][n] \in Relations!Relationship
  BY <1>1
<1>3. \A r \in Relations!Relationship : r = Relations!On(t) <=> r.type = "depends_on" /\ r.to = t
  BY DEF Relations!Relationship, Relations!On
<1>4. Relations!DependsOn(e, t) <=> \E n \in DOMAIN rel[e] : rel[e][n] = Relations!On(t)
  BY <1>1 DEF Relations!DependsOn, Relations!Contains
<1> QED BY <1>2, <1>3, <1>4

LEMMA LeadsStep ==
  ASSUME RelTyped, NEW e \in entities, NEW t \in Entity, Relations!DependsOn(e, t)
  PROVE  Leads(e, t) /\ \A x : Leads(x, e) => Leads(x, t)
BY DEF Leads

\* Where there is no cycle, and nothing missing, a search finds no error: all
\* that is on its stack leads to where it is.
LEMMA DetectsNothing ==
  ASSUME RelTyped, NEW s \in Relations!Search,
         \A e \in entities : ~Leads(e, e),
         \A e \in entities, t \in Entity : Relations!DependsOn(e, t) => t \in entities,
         \A x \in s.stack : x = s.at \/ Leads(x, s.at)
  PROVE  ~Relations!Detects[s].error /\ Relations!Detects[s].stack = s.stack \ {s.at}
<1> DEFINE X == Relations!Search
           h == Relations!Detects
           Up(x) == \A y \in x.stack : y = x.at \/ Leads(y, x.at)
           Clean(x) == ~h[x].error /\ h[x].stack = x.stack \ {x.at}
           C == {x \in X : Up(x) => Clean(x)}
<1>1. ASSUME NEW x \in X, \A y \in X : Nearer(y, x) => y \in C, Up(x) PROVE Clean(x)
  <2>0. h[x] = DetectsBody(h, x)
    BY DetectsEquation
  <2> HIDE DEF h
  <2>1. CASE x.n > Len(rel[x.at])
    BY <2>0, <2>1 DEF DetectsBody, Relations!Searched
  <2>2. CASE ~(x.n > Len(rel[x.at]))
    <3> DEFINE d == Followed(x).to
    <3>0. /\ x.at \in entities /\ x.at \in Entity /\ x.stack \subseteq x.visited /\ x.at \in x.stack
          /\ x.n \in DOMAIN rel[x.at] /\ d \in Entity
      BY <2>2, SearchFields, DetectsDown DEF Relations!Relationship
    <3>1. Followed(x).type = "depends_on" => Relations!DependsOn(x.at, d)
      BY <3>0, DependsFrom DEF Followed
    <3>2. Followed(x).type = "depends_on" => d \in entities /\ d \notin x.stack
      BY <1>1, <3>0, <3>1, LeadsStep
    <3>3. /\ ~Answer(h, x).error /\ Answer(h, x).stack = x.stack
          /\ Passed(x, Answer(h, x))
      <4>1. Enters(x) => Kept(Into(x), h[Into(x)])
        BY <2>2, DetectsDown, DetectsKeeps DEF h
      <4>2. ~Answer(h, x).error => Passed(x, Answer(h, x))
        BY <2>2, <4>1, AnswerPasses
      <4>3. CASE Enters(x)
        <5>1. Into(x) \in C /\ Answer(h, x) = h[Into(x)]
          BY <1>1, <2>2, <4>3, DetectsDown DEF Answer, Enters
        <5>2. Into(x).at = d /\ Into(x).stack = x.stack \cup {d}
          BY DEF Into, Stack
        <5>3. Followed(x).type = "depends_on" /\ d \notin x.stack
          BY <3>2, <4>3 DEF Enters
        <5>4. Up(Into(x))
          BY <1>1, <3>0, <3>1, <5>2, <5>3, LeadsStep
        <5>5. Clean(Into(x))
          BY <5>1, <5>4
        <5> QED BY <4>2, <5>1, <5>2, <5>3, <5>5
      <4>4. CASE ~Enters(x)
        <5>1. Answer(h, x) = Relations!Searched(x.visited, x.stack)
          BY <3>2, <4>4 DEF Answer, Enters, Relations!OnTheWay
        <5> QED BY <4>2, <5>1 DEF Relations!Searched
      <4> QED BY <4>3, <4>4
    <3> DEFINE t == Past(x, Answer(h, x))
    <3>4. t \in X /\ t \in C
      BY <1>1, <2>2, <3>3, DetectsDown
    <3>5. t.at = x.at /\ t.stack = x.stack
      BY <3>3 DEF Past
    <3>6. Up(t)
      BY <1>1, <3>5
    <3>7. h[x] = h[t]
      BY <2>0, <2>2, <3>3 DEF DetectsBody
    <3> HIDE DEF t
    <3> QED BY <3>4, <3>5, <3>6, <3>7
  <2> QED BY <2>1, <2>2
<1> HIDE DEF Up, Clean
<1>2. \A x \in X : (\A y \in X : Nearer(y, x) => y \in C) => x \in C
  BY <1>1
<1>3. s \in C
  BY <1>2, SearchInduction
<1>4. Up(s)
  BY DEF Up
<1>5. Clean(s)
  BY <1>3, <1>4
<1> USE DEF Clean
<1> QED BY <1>5

\* A search that ends without an error has visited all that the entities it is
\* the first to visit depend on, and none of that was on its stack.
LEMMA DetectsAll ==
  ASSUME RelTyped, NEW s \in Relations!Search, ~Relations!Detects[s].error
  PROVE  /\ \A n \in DOMAIN rel[s.at] : n >= s.n /\ rel[s.at][n].type = "depends_on" =>
              rel[s.at][n].to \in Relations!Detects[s].visited \ s.stack
         /\ \A u \in entities \cap (Relations!Detects[s].visited \ s.visited), x \in Entity :
              Relations!DependsOn(u, x) => x \in Relations!Detects[s].visited \ s.stack
<1> DEFINE X == Relations!Search
           h == Relations!Detects
           Rests(x) == \A n \in DOMAIN rel[x.at] : n >= x.n /\ rel[x.at][n].type = "depends_on" =>
                         rel[x.at][n].to \in h[x].visited \ x.stack
           News(x) == \A u \in entities \cap (h[x].visited \ x.visited), y \in Entity :
                        Relations!DependsOn(u, y) => y \in h[x].visited \ x.stack
           C == {x \in X : ~h[x].error => Rests(x) /\ News(x)}
<1>1. ASSUME NEW x \in X, \A y \in X : Nearer(y, x) => y \in C, ~h[x].error
      PROVE  Rests(x) /\ News(x)
  <2>0. h[x] = DetectsBody(h, x)
    BY DetectsEquation
  <2>00. /\ x.at \in entities /\ x.at \in Entity /\ x.n \in Nat \ {0} /\ x.visited \subseteq Entity
        /\ x.stack \subseteq x.visited /\ x.at \in x.stack
        /\ Len(rel[x.at]) \in Nat /\ DOMAIN rel[x.at] = 1..Len(rel[x.at])
    BY SearchFields
  <2>1. CASE x.n > Len(rel[x.at])
    <3>1. h[x].visited = x.visited
      BY <2>0, <2>1 DEF DetectsBody, Relations!Searched
    <3>2. \A n \in DOMAIN rel[x.at] : ~(n >= x.n)
      BY <2>1, <2>00
    <3> HIDE DEF h
    <3> QED BY <3>1, <3>2
  <2>2. CASE ~(x.n > Len(rel[x.at]))
    <3> DEFINE d == Followed(x).to
               a == Answer(h, x)
               t == Past(x, a)
    <3>0. d \in Entity
      BY <2>2, DetectsDown DEF Relations!Relationship
    <3>1. ~a.error /\ h[x] = h[t]
      BY <1>1, <2>0, <2>2, CircularOutcome DEF DetectsBody
    <3>2. Enters(x) => Into(x) \in C /\ Into(x) \in X /\ Kept(Into(x), h[Into(x)])
      BY <1>1, <2>2, DetectsDown, DetectsKeeps
    <3>3. Passed(x, a)
      BY <2>2, <3>1, <3>2, AnswerPasses
    <3>4. t \in X /\ t \in C /\ Kept(t, h[t])
      BY <1>1, <2>2, <3>1, <3>3, DetectsDown, DetectsKeeps
    <3>5. t.at = x.at /\ t.n = x.n + 1 /\ t.visited = a.visited /\ t.stack = a.stack
      BY DEF Past
    <3>6. x.visited \subseteq a.visited /\ x.stack \subseteq a.stack
      BY <3>1, <3>3 DEF Passed, Kept
    <3>7. /\ Followed(x).type = "depends_on" => d \in a.visited \ x.stack
          /\ \A u \in entities \cap (a.visited \ x.visited), y \in Entity :
               Relations!DependsOn(u, y) => y \in a.visited \ x.stack
      <4>1. CASE Enters(x)
        <5>1. a = h[Into(x)] /\ d \notin x.visited
          BY <4>1 DEF Answer, Enters
        <5>2. /\ Into(x).at = d /\ Into(x).n = 1 /\ Into(x).visited = x.visited \cup {d}
              /\ Into(x).stack = x.stack \cup {d}
          BY DEF Into, Stack, Seen
        <5>3. Rests(Into(x)) /\ News(Into(x))
          BY <3>1, <3>2, <4>1, <5>1
        <5>4. d \in a.visited
          BY <3>1, <3>2, <4>1, <5>1, <5>2 DEF Kept
        <5>5. DOMAIN rel[d] \subseteq Nat \ {0}
          BY <3>0 DEF RelTyped
        <5> HIDE DEF a, h, d
        <5>6. \A y \in Entity : Relations!DependsOn(d, y) => y \in a.visited \ x.stack
          BY <3>0, <5>1, <5>2, <5>3, <5>5, DependsFrom
        <5>7. \A u \in entities \cap (a.visited \ (x.visited \cup {d})), y \in Entity :
                Relations!DependsOn(u, y) => y \in a.visited \ x.stack
          BY <5>1, <5>2, <5>3
        <5> QED BY <2>00, <5>1, <5>4, <5>6, <5>7 DEF d
      <4>2. CASE ~Enters(x) /\ Followed(x).type = "depends_on" /\ d \notin x.visited
        <5>1. a = Relations!Searched(x.visited \cup {d}, x.stack \cup {d}) /\ d \notin entities
          BY <4>2 DEF Answer, Enters, Seen, Stack
        <5>2. a.visited = x.visited \cup {d}
          BY <5>1 DEF Relations!Searched
        <5> HIDE DEF a
        <5> QED BY <2>00, <4>2, <5>1, <5>2
      <4>3. CASE ~Enters(x) /\ (Followed(x).type # "depends_on" \/ d \in x.visited)
        <5>1. /\ a = Relations!Searched(x.visited, x.stack)
              /\ Followed(x).type = "depends_on" => d \in x.visited \ x.stack
          BY <3>1, <4>3, CircularOutcome DEF Answer, Relations!OnTheWay
        <5>2. a.visited = x.visited
          BY <5>1 DEF Relations!Searched
        <5> HIDE DEF a
        <5> QED BY <5>1, <5>2
      <4> QED BY <4>1, <4>2, <4>3
    <3>8. Rests(t) /\ News(t)
      BY <1>1, <3>1, <3>4
    <3>9. a.visited \subseteq h[t].visited
      BY <1>1, <3>1, <3>4, <3>5 DEF Kept
    <3> HIDE DEF a, t, h
    <3>10. Rests(x)
      <4> SUFFICES ASSUME NEW n \in DOMAIN rel[x.at], n >= x.n, rel[x.at][n].type = "depends_on"
                   PROVE  rel[x.at][n].to \in h[x].visited \ x.stack
        OBVIOUS
      <4>1. CASE n = x.n
        BY <3>1, <3>7, <3>9, <4>1 DEF Followed
      <4>2. CASE n # x.n
        <5>1. n >= t.n
          BY <2>00, <3>5, <4>2
        <5> QED BY <3>1, <3>5, <3>6, <3>8, <5>1
      <4> QED BY <4>1, <4>2
    <3>11. News(x)
      <4> SUFFICES ASSUME NEW u \in entities \cap (h[x].visited \ x.visited), NEW y \in Entity,
                          Relations!DependsOn(u, y)
                   PROVE  y \in h[x].visited \ x.stack
        OBVIOUS
      <4>1. CASE u \in a.visited
        BY <3>1, <3>7, <3>9, <4>1
      <4>2. CASE u \notin a.visited
        BY <3>1, <3>5, <3>6, <3>8, <4>2
      <4> QED BY <4>1, <4>2
    <3> QED BY <3>10, <3>11
  <2> QED BY <2>1, <2>2
<1> HIDE DEF Rests, News
<1>2. \A x \in X : (\A y \in X : Nearer(y, x) => y \in C) => x \in C
  BY <1>1
<1>3. Rests(s) /\ News(s)
  BY <1>2, SearchInduction
<1> USE DEF Rests, News
<1> QED BY <1>3

CyclesFound ==
  LET cyclic == \E e \in entities : Leads(e, e)
  IN  /\ cyclic => Relations!Invalid
      /\ Relations!Invalid => cyclic \/ \E e \in entities, t \in Entity \ entities : Relations!DependsOn(e, t)

LEMMA CyclesRight == ASSUME RelTyped PROVE CyclesFound
<1> DEFINE Root(e) == [at |-> e, n |-> 1, visited |-> {e}, stack |-> {e}]
           got(e) == Relations!Detects[Root(e)]
<1>1. ASSUME NEW e \in entities
      PROVE  /\ Root(e) \in Relations!Search /\ Root(e).at = e /\ Root(e).n = 1
             /\ Root(e).stack = {e} /\ Root(e).visited = {e}
             /\ Relations!DetectCycle(e) = got(e).error
             /\ e \in Entity /\ DOMAIN rel[e] \subseteq Nat \ {0}
  BY DEF Relations!Search, Relations!DetectCycle, RelTyped
<1> HIDE DEF Root
<1>2. ASSUME NEW e \in entities, Leads(e, e) PROVE Relations!DetectCycle(e)
  <2> SUFFICES ASSUME ~got(e).error PROVE FALSE
    BY <1>1
  <2>1. got(e) \in Outcome /\ {e} \subseteq got(e).visited
    BY <1>1, DetectsKeeps DEF Kept
  <2>2. \A n \in DOMAIN rel[e] : rel[e][n].type = "depends_on" =>
          rel[e][n].to \in got(e).visited \ {e}
    BY <1>1, DetectsAll
  <2>3. \A u \in entities \cap (got(e).visited \ {e}), x \in Entity :
          Relations!DependsOn(u, x) => x \in got(e).visited \ {e}
    BY <1>1, DetectsAll
  <2> DEFINE reach == got(e).visited \ {e}
  <2>4. \A x \in Entity : Relations!DependsOn(e, x) => x \in reach
    BY <1>1, <2>2, DependsFrom
  <2>5. reach \in SUBSET Entity
    BY <2>1 DEF Outcome
  <2> QED BY <1>2, <2>3, <2>4, <2>5 DEF Leads
<1>3. ASSUME \A e \in entities : ~Leads(e, e),
             \A e \in entities, t \in Entity \ entities : ~Relations!DependsOn(e, t),
             NEW e \in entities
      PROVE  ~Relations!DetectCycle(e)
  BY <1>1, <1>3, DetectsNothing
<1> QED BY <1>2, <1>3 DEF CyclesFound, Relations!Invalid

LEMMA SearchesRight == Relations!TypeOK => Relations!SearchesRight
<1> SUFFICES ASSUME Relations!TypeOK PROVE Relations!SearchesRight
  OBVIOUS
<1>1. RelTyped
  BY DEF RelTyped, Relations!TypeOK
<1>2. \A e \in entities : Relations!Impacted(e) = {f \in entities : Leads(f, e)}
  BY <1>1, ImpactedRight DEF RelTyped
<1>3. \A e \in entities : Relations!Graph(e, Relations!Cardinality(Entity))
                            = {e} \cup {t \in entities : LeadsOn(e, t)}
  BY <1>1, GraphRight, SameSize
<1>4. CyclesFound
  BY <1>1, CyclesRight
<1> QED BY <1>2, <1>3, <1>4
        DEF Relations!SearchesRight, Relations!Reaches, Leads, LeadsOn, CyclesFound

-----------------------------------------------------------------------------
(* Relations: the steps.                                                   *)

LEMMA ListOfSet ==
  ASSUME NEW S \in SUBSET Entity
  PROVE  Relations!SetToSeq(S) \in [1..Cardinality(S) -> S] /\ Cardinality(S) \in Nat
<1>1. IsFiniteSet(S)
  BY RelationsAssumption, FS_Subset
<1>2. Cardinality(S) \in Nat /\ ExistsBijection(1..Cardinality(S), S)
  BY <1>1, FS_CardinalityType
<1>3. PICK f \in [1..Cardinality(S) -> S] : Relations!IsInjective(f)
  BY <1>2 DEF ExistsBijection, Bijection, Injection, IsInjective, Relations!IsInjective
<1> QED BY <1>2, <1>3, SameSize DEF Relations!SetToSeq

LEMMA MappingsTyped ==
  ASSUME entities \subseteq Entity, NEW e \in Entity, NEW deps \in SUBSET Entity
  PROVE  Relations!Mappings(e, deps) \subseteq Seq(Relations!Relationship)
<1> DEFINE on == LET s == Relations!SetToSeq(deps) IN [n \in DOMAIN s |-> Relations!On(s[n])]
           users(own) == {f \in entities \ {e} : Relations!DependsOn(f, e)}
                           \cup (IF Relations!Contains(own, Relations!On(e)) THEN {e} ELSE {})
           provided(own) == LET s == Relations!SetToSeq(users(own))
                            IN  [n \in DOMAIN s |-> Relations!For(s[n])]
<1>1. \A t \in Entity : /\ Relations!On(t) \in Relations!Relationship
                        /\ Relations!For(t) \in Relations!Relationship
  BY DEF Relations!On, Relations!For, Relations!Relationship
<1>2. on \in Seq(Relations!Relationship)
  BY <1>1, ListOfSet
<1>3. ASSUME NEW own PROVE provided(own) \in Seq(Relations!Relationship)
  <2>1. users(own) \in SUBSET Entity
    OBVIOUS
  <2> HIDE DEF users
  <2> QED BY <1>1, <2>1, ListOfSet
<1>4. Relations!Mappings(e, deps) = {on \o provided(on), provided(<<>>) \o on}
  BY DEF Relations!Mappings
<1> HIDE DEF on, provided
<1> QED BY <1>2, <1>3, <1>4

\* What Without keeps of a list was on it.
LEMMA WithoutKept ==
  ASSUME NEW S, NEW list \in Seq(S), NEW e
  PROVE  /\ Relations!Without(list, e) \in Seq(S)
         /\ \A i \in DOMAIN Relations!Without(list, e) :
              \E n \in DOMAIN list : Relations!Without(list, e)[i] = list[n]
<1> DEFINE X == 0..Len(list)
           Y == Seq(S)
           body(h, n) == IF n = 0 THEN <<>>
                         ELSE IF list[n].to = e THEN h[n - 1] ELSE Append(h[n - 1], list[n])
           one == [n \in X |-> n]
           F == [p \in [X -> Y] \X X |-> body(p[1], p[2])]
           P(g) == g = [n \in X |-> body(g, n)]
           kept == CHOOSE g : P(g)
<1>0. Len(list) \in Nat /\ \A n \in X : n # 0 => n - 1 \in X /\ n \in DOMAIN list /\ list[n] \in S
  OBVIOUS
<1>1. \A h \in [X -> Y], n \in X : body(h, n) \in Y
  BY <1>0
<1>2. P(kept)
  <2>1. Descends(X, Y, one, one, F) /\ Y # {}
    <3>1. F \in [[X -> Y] \X X -> Y] /\ Y # {}
      BY <1>1
    <3>2. one \in [X -> Nat]
      BY <1>0
    <3>3. ASSUME NEW g \in [X -> Y], NEW h \in [X -> Y], NEW n \in X,
                 \A m \in X : Less(one, one, m, n) => g[m] = h[m]
          PROVE  F[<<g, n>>] = F[<<h, n>>]
      <4>1. n # 0 => g[n - 1] = h[n - 1]
        BY <1>0, <3>3 DEF Less
      <4>2. body(g, n) = body(h, n)
        BY <4>1
      <4> HIDE DEF X, Y, body
      <4> QED BY <4>2
    <3> HIDE DEF X, Y, F, one
    <3> QED BY <3>1, <3>2, <3>3 DEF Descends
  <2>2. PICK h : FixedPoint(X, Y, F, h)
    <3> HIDE DEF X, Y, F, one
    <3> QED BY <2>1, Recursion
  <2>3. h \in [X -> Y] /\ \A n \in X : h[n] = body(h, n)
    <3> HIDE DEF X, Y, body
    <3> QED BY <2>2 DEF FixedPoint
  <2>4. P(h)
    <3> HIDE DEF X, Y, body
    <3> QED BY <2>3
  <2> HIDE DEF P
  <2> QED BY <2>4
<1>3. Relations!Without(list, e) = kept[Len(list)]
  BY DEF Relations!Without
<1> DEFINE Good(n) == /\ kept[n] \in Y
                      /\ \A i \in DOMAIN kept[n] : \E m \in DOMAIN list : kept[n][i] = list[m]
<1> HIDE DEF kept
<1>4. \A n \in X : kept[n] = body(kept, n)
  <2> HIDE DEF body
  <2> QED BY <1>2
<1>5. ASSUME NEW n \in X, n # 0, Good(n - 1) PROVE Good(n)
  <2>1. CASE list[n].to = e
    <3>1. kept[n] = kept[n - 1]
      BY <1>4, <1>5, <2>1
    <3> QED BY <1>5, <3>1
  <2>2. CASE list[n].to # e
    <3>1. kept[n] = Append(kept[n - 1], list[n])
      BY <1>4, <1>5, <2>2
    <3>2. kept[n - 1] \in Seq(S) /\ list[n] \in S /\ n \in DOMAIN list
      BY <1>0, <1>5
    <3>3. kept[n] \in Seq(S)
      BY <3>1, <3>2
    <3>4. ASSUME NEW i \in DOMAIN kept[n] PROVE \E m \in DOMAIN list : kept[n][i] = list[m]
      <4>1. CASE i \in DOMAIN kept[n - 1]
        BY <1>5, <3>1, <3>2, <4>1
      <4>2. CASE i \notin DOMAIN kept[n - 1]
        <5>1. kept[n][i] = list[n]
          BY <3>1, <3>2, <3>4, <4>2
        <5> QED BY <3>2, <5>1
      <4> QED BY <4>1, <4>2
    <3> QED BY <3>3, <3>4
  <2> QED BY <2>1, <2>2
<1>6. Good(0)
  <2>1. kept[0] = <<>>
    BY <1>0, <1>4
  <2> QED BY <2>1
<1>7. Good(Len(list))
  <2> DEFINE bad == {n \in X : ~Good(n)}
  <2> SUFFICES ASSUME bad # {} PROVE FALSE
    BY <1>0
  <2>1. bad \in SUBSET Nat
    BY <1>0
  <2> HIDE DEF Good, X
  <2>2. PICK n \in bad : \A m \in bad : n <= m
    <3> HIDE DEF bad
    <3> QED BY <2>1, LeastOf
  <2>3. n \in X /\ n # 0 /\ n - 1 \notin bad /\ n - 1 \in X
    BY <1>0, <1>6, <2>1, <2>2
  <2> QED BY <1>5, <2>2, <2>3
<1> HIDE DEF kept
<1> QED BY <1>3, <1>7

\* While Deregister is between its steps nothing depends on the entity, unless
\* that was recorded since.
RelInv ==
  /\ Relations!TypeOK
  /\ ~stranded
  /\ asked # Nil /\ ~added => \A f \in entities : ~Relations!DependsOn(f, asked)

LEMMA RecordedKeeps ==
  ASSUME RelInv, NEW e \in Entity, NEW list \in Seq(Relations!Relationship),
         Relations!Recorded(e, list), entities' = entities \cup {e}, UNCHANGED <<asked, stranded>>
  PROVE  RelInv'
<1>1. rel' = [rel EXCEPT ![e] = list] /\ added' = (added \/ Relations!Contains(list, Relations!On(asked)))
  BY DEF Relations!Recorded
<1>2. Relations!TypeOK'
  <2>1. rel' \in [Entity -> Seq(Relations!Relationship)]
    BY <1>1 DEF RelInv, Relations!TypeOK
  <2>2. added' \in BOOLEAN
    BY <1>1 DEF RelInv, Relations!TypeOK
  <2> QED BY <1>1, <2>1, <2>2 DEF RelInv, Relations!TypeOK
<1>3. ASSUME asked' # Nil, ~added', NEW f \in entities' PROVE ~Relations!DependsOn(f, asked)'
  <2>1. ~added /\ ~Relations!Contains(list, Relations!On(asked))
    BY <1>1, <1>3
  <2>2. rel'[e] = list /\ (f # e => rel'[f] = rel[f] /\ f \in entities)
    BY <1>1, <1>3 DEF RelInv, Relations!TypeOK
  <2> QED BY <1>3, <2>1, <2>2 DEF RelInv, Relations!DependsOn
<1> QED BY <1>2, <1>3 DEF RelInv

\* An entity goes and the others keep some of their relationships.
LEMMA FewerKeeps ==
  ASSUME RelInv, NEW e \in entities, entities' = entities \ {e},
         rel' \in [Entity -> Seq(Relations!Relationship)], rel'[e] = <<>>,
         \A f \in Entity : \A i \in DOMAIN rel'[f] : \E n \in DOMAIN rel[f] : rel'[f][i] = rel[f][n],
         UNCHANGED <<asked, added, stranded>>
  PROVE  RelInv'
<1>1. entities \subseteq Entity /\ rel \in [Entity -> Seq(Relations!Relationship)]
  BY DEF RelInv, Relations!TypeOK
<1>2. \A f \in Entity : DOMAIN rel[f] = 1..Len(rel[f]) /\ DOMAIN rel'[f] = 1..Len(rel'[f])
  BY <1>1
<1>3. ASSUME NEW f \in Entity \ entities PROVE rel'[f] = <<>>
  <2>1. rel[f] = <<>>
    BY <1>3 DEF RelInv, Relations!TypeOK
  <2>2. DOMAIN rel'[f] = {}
    BY <2>1
  <2> QED BY <2>2
<1>4. \A f \in entities' : \A t : Relations!DependsOn(f, t)' => Relations!DependsOn(f, t)
  BY <1>1, <1>2 DEF Relations!DependsOn, Relations!Contains
<1>5. Relations!TypeOK'
  BY <1>1, <1>3 DEF RelInv, Relations!TypeOK
<1> QED BY <1>4, <1>5 DEF RelInv

LEMMA DeregisterKeeps ==
  ASSUME RelInv, NEW e \in Entity, Relations!Deregister(e) \/ Relations!Deregistered(e)
  PROVE  RelInv'
<1>1. RelTyped
  BY DEF RelInv, Relations!TypeOK, RelTyped
<1>2. CASE Relations!Deregister(e)
  <2>1. Relations!Impacted(e) = {f \in entities : Leads(f, e)}
    BY <1>1, ImpactedRight
  <2>2. Relations!Impacted(e) = {}
    BY <1>2 DEF Relations!Deregister
  <2>3. \A f \in entities : ~Relations!DependsOn(f, e)
    BY <1>1, <2>1, <2>2, LeadsStep
  <2>4. \A f, t : Relations!DependsOn(f, t)' <=> Relations!DependsOn(f, t)
    BY <1>2 DEF Relations!Deregister, Relations!DependsOn
  <2>5. Relations!TypeOK'
    BY <1>2 DEF RelInv, Relations!TypeOK, Relations!Deregister
  <2> QED BY <1>2, <2>3, <2>4, <2>5 DEF RelInv, Relations!Deregister
<1>3. CASE Relations!Deregistered(e)
  <2>1. asked = e /\ asked' = Nil /\ added' = FALSE /\ e # Nil
    BY <1>3, RelationsAssumption DEF Relations!Deregistered
  <2>2. CASE /\ Relations!Unregister(e) /\ rel' = [rel EXCEPT ![e] = <<>>]
             /\ stranded' = (stranded \/ (~added /\ \E f \in entities' : Relations!DependsOn(f, e)))
    <3>1. e \in entities /\ entities' = entities \ {e}
      BY <2>2 DEF Relations!Unregister
    <3>2. stranded' \in BOOLEAN /\ ~stranded'
      BY <2>1, <2>2, <3>1 DEF RelInv
    <3>3. rel' \in [Entity -> Seq(Relations!Relationship)]
      BY <2>2 DEF RelInv, Relations!TypeOK
    <3>4. \A f \in Entity \ entities' : rel'[f] = <<>>
      BY <2>2, <3>1 DEF RelInv, Relations!TypeOK
    <3>5. Relations!TypeOK'
      BY <2>1, <3>1, <3>2, <3>3, <3>4 DEF RelInv, Relations!TypeOK
    <3> QED BY <2>1, <3>2, <3>5 DEF RelInv
  <2>3. CASE UNCHANGED <<entities, rel, stranded>>
    BY <2>1, <2>3 DEF RelInv, Relations!TypeOK
  <2> QED BY <1>3, <2>2, <2>3 DEF Relations!Deregistered
<1> QED BY <1>2, <1>3

LEMMA RelStep == RelInv /\ [Relations!Next]_(Relations!vars) => RelInv'
<1> SUFFICES ASSUME RelInv, [Relations!Next]_(Relations!vars) PROVE RelInv'
  OBVIOUS
<1>0. entities \subseteq Entity /\ rel \in [Entity -> Seq(Relations!Relationship)]
  BY DEF RelInv, Relations!TypeOK
<1>1. ASSUME NEW e \in Entity, NEW deps \in SUBSET Entity, Relations!Register(e, deps) PROVE RelInv'
  <2>1. PICK list \in Relations!Mappings(e, deps) \cup {<<>>} : Relations!Recorded(e, list)
    BY <1>1 DEF Relations!Register
  <2>2. /\ Relations!Mappings(e, deps) \subseteq Seq(Relations!Relationship)
        /\ <<>> \in Seq(Relations!Relationship)
    BY <1>0, MappingsTyped
  <2>3. list \in Seq(Relations!Relationship)
    BY <2>1, <2>2
  <2> QED BY <1>1, <2>1, <2>3, RecordedKeeps DEF Relations!Register
<1>2. ASSUME NEW e \in Entity, NEW deps \in SUBSET Entity, Relations!MapRelationships(e, deps)
      PROVE  RelInv'
  <2>1. PICK list \in Relations!Mappings(e, deps) : Relations!Recorded(e, list)
    BY <1>2 DEF Relations!MapRelationships
  <2>2. list \in Seq(Relations!Relationship)
    BY <1>0, MappingsTyped
  <2>3. entities' = entities \cup {e}
    BY <1>2 DEF Relations!MapRelationships
  <2> QED BY <1>2, <2>1, <2>2, <2>3, RecordedKeeps DEF Relations!MapRelationships
<1>3. ASSUME NEW e \in Entity, NEW t \in Entity, NEW r \in {Relations!On(t), Relations!PartOf(t)},
             Relations!AddRelationship(e, r)
      PROVE  RelInv'
  <2>1. r \in Relations!Relationship
    BY DEF Relations!On, Relations!PartOf, Relations!Relationship
  <2>2. Append(rel[e], r) \in Seq(Relations!Relationship)
    BY <1>0, <2>1
  <2>3. Relations!Recorded(e, Append(rel[e], r)) /\ entities' = entities \cup {e}
    BY <1>3 DEF Relations!AddRelationship
  <2> QED BY <1>3, <2>2, <2>3, RecordedKeeps DEF Relations!AddRelationship
<1>4. ASSUME NEW e \in Entity, Relations!ForceDeregister(e) PROVE RelInv'
  <2> DEFINE without(f) == IF f = e THEN <<>> ELSE IF f \in Relations!Impacted(e)
                             THEN Relations!Without(rel[f], e) ELSE rel[f]
  <2>1. e \in entities /\ entities' = entities \ {e} /\ rel' = [f \in Entity |-> without(f)]
    BY <1>4 DEF Relations!ForceDeregister, Relations!Unregister
  <2>2. ASSUME NEW f \in Entity
        PROVE  /\ without(f) \in Seq(Relations!Relationship)
               /\ \A i \in DOMAIN without(f) : \E n \in DOMAIN rel[f] : without(f)[i] = rel[f][n]
    <3>1. CASE f = e
      BY <3>1
    <3>2. CASE f # e /\ f \in Relations!Impacted(e)
      <4>1. rel[f] \in Seq(Relations!Relationship)
        BY <1>0
      <4>2. without(f) = Relations!Without(rel[f], e)
        BY <3>2
      <4> HIDE DEF without
      <4> QED BY <4>1, <4>2, WithoutKept
    <3>3. CASE f # e /\ f \notin Relations!Impacted(e)
      BY <1>0, <3>3
    <3> QED BY <3>1, <3>2, <3>3
  <2>3. without(e) = <<>> /\ UNCHANGED <<asked, added, stranded>>
    BY <1>4 DEF Relations!ForceDeregister
  <2> HIDE DEF without
  <2> QED BY <2>1, <2>2, <2>3, FewerKeeps
<1>5. ASSUME NEW e \in Entity, Relations!Cleanup(e) PROVE RelInv'
  <2>1. /\ e \in entities /\ entities' = entities \ {e} /\ rel' = [rel EXCEPT ![e] = <<>>]
        /\ UNCHANGED <<asked, added, stranded>>
    BY <1>5 DEF Relations!Cleanup, Relations!Unregister
  <2>2. rel' \in [Entity -> Seq(Relations!Relationship)] /\ rel'[e] = <<>>
    BY <1>0, <2>1
  <2>3. \A f \in Entity : \A i \in DOMAIN rel'[f] : \E n \in DOMAIN rel[f] : rel'[f][i] = rel[f][n]
    BY <1>0, <2>1
  <2> QED BY <2>1, <2>2, <2>3, FewerKeeps
<1>6. CASE UNCHANGED Relations!vars
  BY <1>6 DEF Relations!vars, RelInv, Relations!TypeOK, Relations!DependsOn
<1> QED BY <1>1, <1>2, <1>3, <1>4, <1>5, <1>6, DeregisterKeeps DEF Relations!Next

LEMMA RelInvariant == Relations!Spec => []RelInv
<1>1. ASSUME Relations!Init PROVE RelInv
  <2>1. rel = [e \in Entity |-> <<>>] /\ entities = {} /\ asked = Nil /\ ~added /\ ~stranded
        /\ {added, stranded} \subseteq BOOLEAN
    BY <1>1 DEF Relations!Init, Relations!None
  <2>2. <<>> \in Seq(Relations!Relationship)
    OBVIOUS
  <2> QED BY <2>1, <2>2 DEF RelInv, Relations!TypeOK
<1> QED BY <1>1, RelStep, PTL DEF Relations!Spec

\* With any entities, whatever was registered, related and removed: the searches
\* of the relationship mapper (detectCycle, collectImpactedEntities, buildGraph)
\* find what there is to find and nothing else, and Deregister leaves nobody
\* behind that depended on the entity when it asked.
THEOREM DependenciesHold == Relations!Spec => []DependenciesSound
<1>1. RelInv => DependenciesSound
  BY SearchesRight DEF RelInv, DependenciesSound, Relations!DependenciesSound
<1> QED BY <1>1, RelInvariant, PTL

-----------------------------------------------------------------------------
(* The types of all eight components. *)

\* There are no more rows than IDs.
LEMMA NoMoreThanIDs ==
  ASSUME NEW S, IsFiniteSet(S), NEW R, NEW list \in Seq(R), OneEach(list),
         \A n \in DOMAIN list : list[n].id \in S
  PROVE  Len(list) <= Cardinality(S)
<1> DEFINE ids == [n \in 1..Len(list) |-> list[n].id]
<1>1. Len(list) \in Nat /\ DOMAIN list = 1..Len(list)
  OBVIOUS
<1>2. ids \in Injection(1..Len(list), S)
  BY <1>1 DEF OneEach, Injection, IsInjective
<1>3. Cardinality(1..Len(list)) = IF 1 > Len(list) THEN 0 ELSE Len(list) - 1 + 1
  BY <1>1, FS_Interval
<1> HIDE DEF ids
<1>4. Cardinality(1..Len(list)) = Len(list)
  BY <1>1, <1>3
<1> QED BY <1>2, <1>4, FS_Injection

Flag == cleaned \in BOOLEAN

LEMMA CleanedTyped == Idempotency!Spec => []Flag
<1>1. Idempotency!Init => Flag
  BY DEF Idempotency!Init, Flag
<1>2. Flag /\ [Idempotency!Next]_(Idempotency!vars) => Flag'
  BY DEF Flag, Idempotency!Next, Idempotency!Tick, Idempotency!Cleanup,
         Idempotency!CheckAndMark, Idempotency!FindUnseen, Idempotency!MarkSeen, Idempotency!vars
<1> QED BY <1>1, <1>2, PTL DEF Idempotency!Spec

LEMMA PoliciesTyped == PoliciesInv => Policies!TypeOK
<1> SUFFICES ASSUME PoliciesInv PROVE Policies!TypeOK
  OBVIOUS
<1>1. policies \in Seq(Policies!Policy) /\ OneEach(policies)
  BY DEF PoliciesInv, PolicyList
<1>2. \A n \in DOMAIN policies : policies[n].id \in Id
  <2>1. \A n \in DOMAIN policies : policies[n] \in Policies!Policy
    BY <1>1
  <2> QED BY <2>1 DEF Policies!Policy
<1>3. Len(policies) <= Cardinality(Id)
  BY <1>1, <1>2, NoMoreThanIDs, PoliciesAssumption
<1>4. Cardinality(Id) = Policies!Cardinality(Id)
  BY DEF Cardinality, Policies!Cardinality
<1> QED BY <1>1, <1>3, <1>4 DEF PoliciesInv, Limiter, Policies!TypeOK

LEMMA RulesTyped == RulesInv => Rules!TypeOK
<1> SUFFICES ASSUME RulesInv PROVE Rules!TypeOK
  OBVIOUS
<1>1. Len(rules) <= Cardinality(Rules!RuleID)
  BY RowFacts, NoMoreThanIDs, RulesAssumption
<1>2. Cardinality(Rules!RuleID) = Rules!Cardinality(Rules!RuleID)
  BY DEF Cardinality, Rules!Cardinality
<1>3. \A n \in DOMAIN rules : /\ rules[n].id \in Rules!RuleID
                              /\ rules[n].conditions \in Seq(Rules!Condition)
  BY RowFacts DEF RuleRow
<1> QED BY <1>1, <1>2, <1>3 DEF RulesInv, Directed, Earned, CallsRight, Rules!TypeOK

\* Every variable of the WSL2 runtime, the simulated runtime and its networks,
\* the images, the circuit breaker, the store of request IDs, the policy engine
\* with its limiter, and the rule engine keeps its type; and no two networks have
\* one name (NetworkManager.CreateNetwork), no policy or rule two rows.
THEOREM ServicesTyped ==
  Wsl2!Spec /\ Workloads!Spec /\ Images!Spec /\ Breaker!Spec /\ Idempotency!Spec
    /\ Policies!Spec /\ Rules!Spec /\ Relations!Spec => []TypesOK
<1>1. WslInv => Wsl2!TypeOK
  <2> SUFFICES ASSUME WslInv, NEW u \in User
               PROVE  \/ doing[u] \in {Wsl2!Idle, Wsl2!Refresh}
                      \/ doing[u].box \in Box /\ copy[u][doing[u].box] # Nil
    BY DEF WslInv, WslTyped, Wsl2!TypeOK
  <2>1. doing[u] \in Task
    BY DEF WslInv, WslTyped
  <2> QED BY <2>1, TaskFields DEF WslInv, WslTyped
<1>2. BoxesInv /\ NetsInv => Workloads!TypeOK
  BY DEF BoxesInv, BoxesTyped, CallsTyped, NetsInv, Workloads!TypeOK, Workloads!Empty
<1>3. ImagesInv => Images!TypeOK
  BY DEF ImagesInv
<1>4. BreakerInv => Breaker!TypeOK
  BY DEF BreakerInv
<1>5. IdempotencyInv /\ Flag => Idempotency!TypeOK
  BY DEF IdempotencyInv, Flag, Idempotency!TypeOK
<1>6. Wsl2!TypeOK /\ Workloads!TypeOK /\ Images!TypeOK /\ Breaker!TypeOK
        /\ Idempotency!TypeOK /\ Policies!TypeOK /\ Rules!TypeOK /\ Relations!TypeOK => TypesOK
  BY DEF TypesOK
<1>7. RelInv => Relations!TypeOK
  BY DEF RelInv
<1> QED
  BY <1>1, <1>2, <1>3, <1>4, <1>5, <1>6, <1>7, PoliciesTyped, RulesTyped, WslInvariant,
     BoxesInvariant, NetsInvariant, ImagesInvariant, BreakerInvariant, IdempotencyInvariant,
     CleanedTyped, PoliciesInvariant, RulesInvariant, RelInvariant, PTL
=============================================================================
