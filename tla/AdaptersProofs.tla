--------------------------- MODULE AdaptersProofs ---------------------------
(* Theorems about Adapters, for every value of its constants. *)
EXTENDS Adapters, TLAPS

Workers == [pc : {"idle", "connecting", "unregister", "attach", "append",
                  "shutdown", "clear", "use", "sync", "synced"},
            adapter : Adapter \cup {None}, tries : 0..Attempts,
            attach : BOOLEAN, seen : Statuses, list : SUBSET Id]

ObjectTypes ==
  /\ adapters \in [Id -> Adapter \cup {None}]
  /\ id \in [Adapter -> Id \cup {None}]
  /\ kind \in [Adapter -> Kinds \cup {None}]
  /\ open \subseteq Adapter
  /\ health \in [Adapter -> Statuses]
  /\ stopped \subseteq Adapter
  /\ stray \in [Adapter -> {"none", "dialling", "open"}]
  /\ early \subseteq Adapter
OtherTypes ==
  /\ entity \in [state : Statuses, adapters : SUBSET Id]
  /\ monitor \in {"open", "closed"}
  /\ crashed \in BOOLEAN
WorkerTypes == worker \in [Worker -> Workers]

\* An adapter is registered under its own ID, and has a kind.
UnderOwnId ==
  /\ \A i \in Id : adapters[i] # None => id[adapters[i]] = i
  /\ \A a \in Adapter : id[a] # None => kind[a] # None

\* The adapter a goroutine is at work on was created; attempts are counted.
AtWork == \A w \in Worker :
  /\ worker[w].pc \in {"connecting", "unregister", "attach", "append", "use", "sync"} =>
       worker[w].adapter \in Adapter /\ id[worker[w].adapter] \in Id
  /\ worker[w].pc = "connecting" =>
       /\ worker[w].tries < Attempts
       /\ kind[worker[w].adapter] = "mesh" => worker[w].tries = 0

At(w) == worker[w].pc \in {"connecting", "unregister"}

\* One goroutine connects an adapter.
OneEach == \A v, w \in Worker :
  At(v) /\ At(w) /\ worker[v].adapter = worker[w].adapter => v = w

\* While it is being connected it is registered, or was removed.
StillThere == \A w \in Worker :
  At(w) => worker[w].adapter \in Registered \cup early

\* A connected adapter is registered, or was removed while being connected.
Held == \A a \in open : a \in Registered \/ a \in early

\* Whose connection may be left behind, and when.
Strays == \A a \in Adapter : stray[a] # "none" =>
  /\ id[a] # None
  /\ kind[a] \in {"mqtt", "mesh"}
  /\ kind[a] = "mqtt" =>
       a \notin open /\ \A w \in Worker : worker[w].pc = "connecting" => worker[w].adapter # a
  /\ kind[a] = "mesh" => a \in stopped

\* What is still being connected is not connected yet.
NotYet ==
  /\ \A a \in open : id[a] # None
  /\ \A w \in Worker : worker[w].pc = "connecting" => worker[w].adapter \notin open

IInv == /\ ObjectTypes /\ OtherTypes /\ WorkerTypes
        /\ UnderOwnId /\ AtWork /\ OneEach /\ StillThere
        /\ Held /\ Strays /\ NotYet /\ RegisteredOpen

USE AdaptersAssumption

LEMMA TypesAre == ObjectTypes /\ OtherTypes /\ WorkerTypes <=> TypeOK
  BY DEF ObjectTypes, OtherTypes, WorkerTypes, Workers, TypeOK

LEMMA IdleType == Idle \in Workers /\ Idle.pc = "idle"
  BY DEF Idle, Workers, Statuses

\* Nothing but the attempt that ran out of time leaves an mqtt client behind.
LEMMA StraysKept ==
  ASSUME IInv, stopped \subseteq stopped', open' \subseteq Adapter,
         \A b \in Adapter : id[b] # None => id'[b] # None /\ kind'[b] = kind[b],
         \A b \in open' : b \in open \/
           \E w \in Worker : worker[w].pc = "connecting" /\ worker[w].adapter = b,
         \A w \in Worker : worker'[w].pc = "connecting" =>
           /\ worker'[w].adapter \notin open' \ open
           /\ \/ worker[w].pc = "connecting" /\ worker'[w].adapter = worker[w].adapter
              \/ id[worker'[w].adapter] = None,
         \A b \in Adapter : stray'[b] = stray[b] \/
           (id[b] # None /\ kind[b] = "mesh" /\ b \in stopped')
  PROVE  Strays' /\ NotYet'
<1>1. ASSUME NEW b \in Adapter, stray'[b] # "none"
      PROVE  /\ id'[b] # None
             /\ kind'[b] \in {"mqtt", "mesh"}
             /\ kind'[b] = "mqtt" =>
                  b \notin open' /\ \A w \in Worker : worker'[w].pc = "connecting" => worker'[w].adapter # b
             /\ kind'[b] = "mesh" => b \in stopped'
  <2>1. CASE stray'[b] = stray[b]
    BY <1>1, <2>1 DEF IInv, Strays
  <2>2. CASE id[b] # None /\ kind[b] = "mesh" /\ b \in stopped'
    BY <2>2
  <2> QED BY <2>1, <2>2
<1>2. \A b \in open' : id'[b] # None
  BY DEF IInv, NotYet, AtWork
<1>3. \A w \in Worker : worker'[w].pc = "connecting" => worker'[w].adapter \notin open'
  BY DEF IInv, NotYet
<1> QED BY <1>1, <1>2, <1>3 DEF Strays, NotYet

LEMMA InitHolds == Init => IInv
<1> SUFFICES ASSUME Init PROVE IInv
  OBVIOUS
<1>1. ObjectTypes /\ OtherTypes
  BY DEF Init, ObjectTypes, OtherTypes, Statuses
<1>2. WorkerTypes /\ \A w \in Worker : worker[w].pc = "idle"
  BY IdleType DEF Init, WorkerTypes
<1>3. UnderOwnId /\ Held /\ Strays /\ RegisteredOpen
  BY DEF Init, UnderOwnId, Held, Strays, RegisteredOpen, Registered
<1>4. AtWork /\ OneEach /\ StillThere
  BY <1>2 DEF AtWork, OneEach, StillThere, At
<1>5. NotYet
  BY <1>2 DEF Init, NotYet
<1> QED BY <1>1, <1>2, <1>3, <1>4, <1>5 DEF IInv

-----------------------------------------------------------------------------
\* A goroutine goes on to a place where it connects nothing, and was at none.
LEMMA WorkerMoves ==
  ASSUME IInv, NEW w \in Worker, NEW r \in Workers, worker' = [worker EXCEPT ![w] = r],
         ~At(w) /\ r.pc \notin {"connecting", "unregister"},
         worker[w].pc = "clear" => r.pc = "clear",
         r.pc \in {"attach", "append", "use", "sync"} =>
           r.adapter \in Adapter /\ id[r.adapter] \in Id,
         UNCHANGED <<adapters, id, kind, open, stopped, stray, early>>
  PROVE  /\ WorkerTypes' /\ UnderOwnId' /\ AtWork' /\ OneEach' /\ StillThere'
         /\ Held' /\ Strays' /\ NotYet' /\ RegisteredOpen'
<1>1. WorkerTypes'
  BY DEF IInv, WorkerTypes
<1>2. worker'[w] = r /\ \A v \in Worker : v # w => worker'[v] = worker[v]
  BY DEF IInv, WorkerTypes
<1>3. Registered' = Registered
  BY DEF Registered
<1>4. UnderOwnId' /\ Held'
  BY <1>3 DEF IInv, UnderOwnId, Held
<1>5. AtWork'
  BY <1>2 DEF IInv, AtWork
<1>6. OneEach' /\ StillThere'
  BY <1>2, <1>3 DEF IInv, OneEach, StillThere, At
<1>7. RegisteredOpen'
  BY <1>2, <1>3 DEF IInv, RegisteredOpen, At
<1>8. Strays' /\ NotYet'
  <2>1. open \subseteq Adapter
    BY DEF IInv, ObjectTypes
  <2> QED BY <1>2, <2>1, StraysKept
<1> QED BY <1>1, <1>4, <1>5, <1>6, <1>7, <1>8

\* Create: a new object, registered, which the goroutine connects.
LEMMA CreateKeeps ==
  ASSUME IInv, NEW w \in Worker, NEW i \in Id, NEW k \in Kinds, NEW attach \in BOOLEAN,
         Create(w, i, k, attach)
  PROVE  IInv'
<1>1. PICK a \in Free :
        /\ adapters' = [adapters EXCEPT ![i] = a]
        /\ id' = [id EXCEPT ![a] = i]
        /\ kind' = [kind EXCEPT ![a] = k]
        /\ worker' = [worker EXCEPT ![w] =
             [Idle EXCEPT !.pc = "connecting", !.adapter = a, !.attach = attach]]
  BY DEF Create
<1> DEFINE r == [Idle EXCEPT !.pc = "connecting", !.adapter = a, !.attach = attach]
<1>2. /\ worker[w].pc = "idle" /\ adapters[i] = None
      /\ UNCHANGED <<open, health, stopped, stray, entity, monitor, crashed, early>>
      /\ a \in Adapter /\ id[a] = None
  BY DEF Create, Free
<1>3. r \in Workers /\ r.pc = "connecting" /\ r.adapter = a /\ r.tries = 0
  <2>1. Idle \in Workers /\ Idle.tries = 0
    BY IdleType DEF Idle
  <2> QED BY <1>2, <2>1 DEF Workers
<1> HIDE DEF r
<1>4. worker' = [worker EXCEPT ![w] = r]
  BY <1>1 DEF r
<1>5. ObjectTypes' /\ OtherTypes' /\ WorkerTypes'
  BY <1>1, <1>2, <1>3, <1>4 DEF IInv, ObjectTypes, OtherTypes, WorkerTypes
<1>6. worker'[w] = r /\ \A v \in Worker : v # w => worker'[v] = worker[v]
  BY <1>4 DEF IInv, WorkerTypes
<1>7. /\ \A j \in Id : adapters'[j] = IF j = i THEN a ELSE adapters[j]
      /\ \A b \in Adapter : id'[b] = IF b = a THEN i ELSE id[b]
      /\ \A b \in Adapter : kind'[b] = IF b = a THEN k ELSE kind[b]
  BY <1>1, <1>2 DEF IInv, ObjectTypes
<1>8. \A v \in Worker : At(v) => worker[v].adapter # a
  BY <1>2 DEF IInv, AtWork, At
<1>9. a \notin Registered /\ Registered' = Registered \cup {a}
  BY <1>2, <1>7 DEF IInv, UnderOwnId, Registered
<1>10. UnderOwnId'
  <2>1. \A j \in Id : adapters'[j] # None => id'[adapters'[j]] = j
    BY <1>2, <1>7 DEF IInv, UnderOwnId, ObjectTypes
  <2>2. \A b \in Adapter : id'[b] # None => kind'[b] # None
    <3>1. k # None
      OBVIOUS
    <3> QED BY <1>2, <1>7, <3>1 DEF IInv, UnderOwnId
  <2> QED BY <2>1, <2>2 DEF UnderOwnId
<1>11. AtWork'
  BY <1>2, <1>3, <1>6, <1>7 DEF IInv, AtWork
<1>12. OneEach' /\ StillThere'
  BY <1>2, <1>3, <1>6, <1>8, <1>9 DEF IInv, OneEach, StillThere, At
<1>13. Held' /\ RegisteredOpen'
  <2>1. Held'
    BY <1>2, <1>9 DEF IInv, Held
  <2>2. RegisteredOpen'
    BY <1>2, <1>3, <1>6, <1>9 DEF IInv, RegisteredOpen
  <2> QED BY <2>1, <2>2
<1>14. Strays' /\ NotYet'
  <2>1. i # None /\ open \subseteq Adapter
    BY DEF IInv, ObjectTypes
  <2>2. \A b \in Adapter : id[b] # None => id'[b] # None /\ kind'[b] = kind[b]
    BY <1>2, <1>7, <2>1
  <2>3. \A v \in Worker : worker'[v].pc = "connecting" =>
          \/ worker[v].pc = "connecting" /\ worker'[v].adapter = worker[v].adapter
          \/ id[worker'[v].adapter] = None
    BY <1>2, <1>3, <1>6
  <2> QED BY <1>2, <2>1, <2>2, <2>3, StraysKept
<1> QED BY <1>5, <1>10, <1>11, <1>12, <1>13, <1>14 DEF IInv

LEMMA ConnectedKeeps ==
  ASSUME IInv, NEW w \in Worker, Connected(w)
  PROVE  IInv'
<1> DEFINE a == worker[w].adapter
<1>1. /\ worker[w].pc = "connecting"
      /\ open' = open \cup {a}
      /\ health' = [health EXCEPT ![a] = "healthy"]
      /\ UNCHANGED <<adapters, id, kind, stopped, stray, entity, monitor, crashed, early>>
  BY DEF Connected
<1>2. a \in Adapter /\ id[a] \in Id /\ worker[w] \in Workers /\ a \in Registered \cup early
  BY <1>1 DEF IInv, AtWork, StillThere, At, WorkerTypes
<1>3. \E r \in Workers : /\ worker' = [worker EXCEPT ![w] = r]
                         /\ r.pc = "idle" \/ (r.pc = "attach" /\ r.adapter = a)
  <2>1. CASE worker[w].attach
    <3> DEFINE r == [worker[w] EXCEPT !.pc = "attach"]
    <3>1. worker' = [worker EXCEPT ![w] = r]
      BY <2>1 DEF Connected, Goes
    <3>2. r \in Workers /\ r.pc = "attach" /\ r.adapter = a
      BY <1>2 DEF Workers
    <3> QED BY <3>1, <3>2
  <2>2. CASE ~worker[w].attach
    BY <2>2, IdleType DEF Connected, Ends
  <2> QED BY <2>1, <2>2
<1>4. PICK r \in Workers : /\ worker' = [worker EXCEPT ![w] = r]
                           /\ r.pc = "idle" \/ (r.pc = "attach" /\ r.adapter = a)
  BY <1>3
<1> HIDE DEF a
<1>5. ObjectTypes' /\ OtherTypes' /\ WorkerTypes'
  BY <1>1, <1>2, <1>4 DEF IInv, ObjectTypes, OtherTypes, WorkerTypes, Statuses
<1>6. worker'[w] = r /\ \A v \in Worker : v # w => worker'[v] = worker[v]
  BY <1>4 DEF IInv, WorkerTypes
<1>7. Registered' = Registered
  BY <1>1 DEF Registered
<1>8. UnderOwnId' /\ AtWork' /\ OneEach' /\ StillThere'
  BY <1>1, <1>2, <1>4, <1>6, <1>7 DEF IInv, UnderOwnId, AtWork, OneEach, StillThere, At
<1>9. Held'
  BY <1>1, <1>2, <1>7 DEF IInv, Held
<1>10. RegisteredOpen'
  BY <1>1, <1>6, <1>7 DEF IInv, RegisteredOpen, a
<1>11. Strays' /\ NotYet'
  <2>1. At(w) /\ a = worker[w].adapter
    BY <1>1 DEF At, a
  <2>2. open' \subseteq Adapter /\ open' \ open \subseteq {a}
    BY <1>1, <1>2 DEF IInv, ObjectTypes
  <2>3. \A v \in Worker : worker'[v].pc = "connecting" =>
          /\ worker[v].pc = "connecting" /\ worker'[v].adapter = worker[v].adapter
          /\ worker'[v].adapter # a
    BY <1>4, <1>6, <2>1 DEF IInv, OneEach, At
  <2>4. \A b \in open' : b \in open \/
           \E v \in Worker : worker[v].pc = "connecting" /\ worker[v].adapter = b
    BY <1>1, <2>1, <2>2
  <2> QED BY <1>1, <2>2, <2>3, <2>4, StraysKept
<1> QED BY <1>5, <1>8, <1>9, <1>10, <1>11 DEF IInv

\* What an attempt is, and how many there are.
LEMMA AttemptIs ==
  ASSUME NEW w,
         \/ ConnectHTTP(w) \/ ConnectSSH(w) \/ ConnectGRPC(w) \/ ConnectMQTT(w) \/ ConnectMesh(w)
  PROVE  \/ Connected(w)
         \/ \E most \in {1, Attempts} :
              /\ most = 1 <=> (kind[worker[w].adapter] = "mesh" \/ Attempts = 1)
              /\ ConnectFails(w, most)
  BY DEF ConnectHTTP, ConnectSSH, ConnectGRPC, ConnectMQTT, ConnectMesh, Attempt

\* An attempt that fails, or that runs out of time: the goroutine stays with
\* its adapter.
LEMMA ConnectFailsKeeps ==
  ASSUME IInv, NEW w \in Worker, NEW most \in {1, Attempts},
         most = 1 <=> (kind[worker[w].adapter] = "mesh" \/ Attempts = 1),
         ConnectFails(w, most) \/ ConnectTimesOut(w)
  PROVE  IInv'
<1>1. /\ worker[w].pc = "connecting"
      /\ UNCHANGED <<adapters, id, kind, open, health, stopped, entity, monitor, crashed, early>>
      /\ \/ stray' = stray
         \/ /\ kind[worker[w].adapter] = "mqtt" /\ worker' = [worker EXCEPT ![w].pc = "unregister"]
            /\ stray' = [stray EXCEPT ![worker[w].adapter] = "dialling"]
  BY DEF ConnectFails, ConnectTimesOut, objects, Goes
<1>2. /\ worker[w] \in Workers /\ worker[w].tries < Attempts
      /\ kind[worker[w].adapter] = "mesh" => worker[w].tries = 0
  BY <1>1 DEF IInv, AtWork, WorkerTypes
<1>3. \E r \in Workers : /\ worker' = [worker EXCEPT ![w] = r]
                         /\ r.adapter = worker[w].adapter
                         /\ \/ r.pc = "unregister"
                            \/ /\ r.pc = "connecting" /\ r.tries < Attempts
                               /\ kind[r.adapter] # "mesh"
  <2>1. CASE ConnectFails(w, most)
    <3> DEFINE tries == worker[w].tries + 1
               pc == IF tries = most THEN "unregister" ELSE "connecting"
               r == [worker[w] EXCEPT !.tries = tries, !.pc = pc]
    <3>1. worker' = [worker EXCEPT ![w].tries = tries,
                                   ![w].pc = IF tries = most THEN "unregister" ELSE @]
      BY <2>1 DEF ConnectFails
    <3>2. tries \in 0..Attempts
      BY <1>2 DEF Workers
    <3>3. worker' = [worker EXCEPT ![w] = r]
      BY <1>1, <1>2, <3>1 DEF IInv, WorkerTypes, Workers
    <3>4. pc = "connecting" => tries < Attempts /\ kind[worker[w].adapter] # "mesh"
      BY <1>2, <3>2 DEF Workers
    <3> HIDE DEF tries, pc
    <3>5. r \in Workers /\ r.adapter = worker[w].adapter /\ r.pc = pc /\ r.tries = tries
      BY <1>2, <3>2 DEF Workers, pc
    <3> HIDE DEF r
    <3>6. pc \in {"unregister", "connecting"}
      BY DEF pc
    <3> QED BY <3>3, <3>4, <3>5, <3>6
  <2>2. CASE ConnectTimesOut(w)
    <3> DEFINE r == [worker[w] EXCEPT !.pc = "unregister"]
    <3>1. worker' = [worker EXCEPT ![w] = r]
      BY <2>2 DEF ConnectTimesOut, Goes
    <3>2. r \in Workers /\ r.adapter = worker[w].adapter /\ r.pc = "unregister"
      BY <1>2 DEF Workers
    <3> QED BY <3>1, <3>2
  <2> QED BY <2>1, <2>2
<1>4. PICK r \in Workers : /\ worker' = [worker EXCEPT ![w] = r]
                           /\ r.adapter = worker[w].adapter
                           /\ \/ r.pc = "unregister"
                              \/ /\ r.pc = "connecting" /\ r.tries < Attempts
                                 /\ kind[r.adapter] # "mesh"
  BY <1>3
<1>5. ObjectTypes' /\ OtherTypes' /\ WorkerTypes'
  BY <1>1, <1>4 DEF IInv, ObjectTypes, OtherTypes, WorkerTypes
<1>6. worker'[w] = r /\ \A v \in Worker : v # w => worker'[v] = worker[v]
  BY <1>4 DEF IInv, WorkerTypes
<1>7. Registered' = Registered /\ At(w)
  BY <1>1 DEF Registered, At
<1>8. UnderOwnId' /\ Held'
  BY <1>1, <1>7 DEF IInv, UnderOwnId, Held
<1>9. AtWork'
  BY <1>1, <1>4, <1>6 DEF IInv, AtWork
<1>10. OneEach' /\ StillThere' /\ RegisteredOpen'
  BY <1>1, <1>4, <1>6, <1>7 DEF IInv, OneEach, StillThere, RegisteredOpen, At
<1>11. Strays' /\ NotYet'
  <2>1. CASE stray' = stray
    <3>1. open \subseteq Adapter
      BY DEF IInv, ObjectTypes
    <3>2. \A v \in Worker : worker'[v].pc = "connecting" =>
            worker[v].pc = "connecting" /\ worker'[v].adapter = worker[v].adapter
      BY <1>1, <1>4, <1>6
    <3> QED BY <1>1, <2>1, <3>1, <3>2, StraysKept
  <2>2. CASE stray' # stray
    <3> DEFINE a == worker[w].adapter
    <3>1. /\ a \in Adapter /\ id[a] \in Id /\ kind[a] = "mqtt"
          /\ worker'[w].pc = "unregister"
          /\ stray' = [stray EXCEPT ![a] = "dialling"]
      <4>1. a \in Adapter /\ id[a] \in Id
        BY <1>1 DEF IInv, AtWork
      <4>2. /\ kind[a] = "mqtt" /\ worker' = [worker EXCEPT ![w].pc = "unregister"]
            /\ stray' = [stray EXCEPT ![a] = "dialling"]
        BY <1>1, <2>2
      <4>3. worker'[w].pc = "unregister"
        BY <1>2, <4>2 DEF IInv, WorkerTypes, Workers
      <4> HIDE DEF a
      <4> QED BY <4>1, <4>2, <4>3
    <3>2. a \notin open /\ \A v \in Worker : At(v) /\ worker[v].adapter = a => v = w
      BY <1>1, <1>7 DEF IInv, OneEach, NotYet
    <3>3. ASSUME NEW b \in Adapter, stray'[b] # "none"
          PROVE  /\ id[b] # None /\ kind[b] \in {"mqtt", "mesh"}
                 /\ kind[b] = "mqtt" => /\ b \notin open
                                        /\ \A v \in Worker : worker'[v].pc = "connecting" => worker'[v].adapter # b
                 /\ kind[b] = "mesh" => b \in stopped
      <4>1. CASE b = a
        BY <1>6, <3>1, <3>2, <4>1 DEF At
      <4>2. CASE b # a
        BY <1>4, <1>6, <3>1, <3>3, <4>2 DEF IInv, ObjectTypes, Strays
      <4> QED BY <4>1, <4>2
    <3>4. NotYet'
      BY <1>1, <1>4, <1>6, <3>1 DEF IInv, NotYet
    <3> QED BY <1>1, <3>3, <3>4 DEF Strays
  <2> QED BY <2>1, <2>2
<1> QED BY <1>5, <1>8, <1>9, <1>10, <1>11 DEF IInv

-----------------------------------------------------------------------------
\* Disconnecting a set of adapters.
Disconnected ==
  /\ health' \in [Adapter -> Statuses]
  /\ stopped' \subseteq Adapter /\ stopped \subseteq stopped' /\ crashed' \in BOOLEAN
  /\ stray' \in [Adapter -> {"none", "dialling", "open"}]
  /\ \A b \in Adapter : stray'[b] = stray[b] \/
       (id[b] # None /\ kind[b] = "mesh" /\ b \in stopped')

LEMMA DisconnectTypes ==
  ASSUME IInv, NEW as \in SUBSET Registered, Disconnect(as)
  PROVE  open' = open \ as /\ open' \subseteq Adapter /\ Disconnected
<1>1. PICK noNode : LET nodes == Meshes(as) \ noNode
        IN  /\ open' = open \ as
            /\ health' = [a \in Adapter |-> IF a \in as /\ Forgets(a) THEN "unknown" ELSE health[a]]
            /\ stopped' = stopped \cup nodes
            /\ crashed' = (nodes \cap stopped # {})
            /\ stray' = [a \in Adapter |-> IF a \in nodes /\ Dialled(a) THEN "dialling" ELSE stray[a]]
  BY DEF Disconnect
<1>2. ASSUME NEW b \in as PROVE b \in Adapter /\ id[b] # None
  <2>1. PICK i \in Id : adapters[i] = b /\ b \in Adapter
    BY DEF Registered
  <2>2. b # None /\ i # None
    BY <2>1
  <2> QED BY <2>1, <2>2 DEF IInv, UnderOwnId
<1>3. /\ open \subseteq Adapter /\ health \in [Adapter -> Statuses] /\ stopped \subseteq Adapter
      /\ stray \in [Adapter -> {"none", "dialling", "open"}]
  BY DEF IInv, ObjectTypes
<1>4. health' \in [Adapter -> Statuses]
  BY <1>1, <1>3 DEF Statuses
<1>5. stray' \in [Adapter -> {"none", "dialling", "open"}]
  BY <1>1, <1>3
<1>6. \A b \in Adapter : stray'[b] = stray[b] \/
        (id[b] # None /\ kind[b] = "mesh" /\ b \in stopped')
  BY <1>1, <1>2 DEF Meshes
<1>7. stopped' \subseteq Adapter /\ stopped \subseteq stopped' /\ crashed' \in BOOLEAN
  BY <1>1, <1>2, <1>3 DEF Meshes
<1> QED BY <1>1, <1>3, <1>4, <1>5, <1>6, <1>7 DEF Disconnected

\* Registry.Unregister: nothing of the adapter is left.
LEMMA UnregisterTypes ==
  ASSUME IInv, NEW i \in Id, Unregister(i)
  PROVE  /\ adapters' = [adapters EXCEPT ![i] = None]
         /\ open' = open \ {adapters[i]} /\ open' \subseteq Adapter /\ Disconnected
         /\ Registered' = Registered \ {adapters[i]}
<1>1. adapters[i] \in Adapter \cup {None}
  BY DEF IInv, ObjectTypes
<1>2. CASE adapters[i] = None
  <2>1. UNCHANGED <<adapters, open, health, stopped, stray, crashed>>
    BY <1>2 DEF Unregister
  <2>2. adapters' = [adapters EXCEPT ![i] = None]
    BY <1>2, <2>1 DEF IInv, ObjectTypes
  <2>3. Registered' = Registered /\ None \notin Registered /\ None \notin open
    BY <2>1 DEF Registered, IInv, ObjectTypes
  <2>4. open \subseteq Adapter /\ Disconnected
    BY <2>1 DEF IInv, ObjectTypes, OtherTypes, Disconnected
  <2> QED BY <1>2, <2>1, <2>2, <2>3, <2>4
<1>3. CASE adapters[i] # None
  <2>1. Disconnect({adapters[i]}) /\ adapters' = [adapters EXCEPT ![i] = None]
    BY <1>3 DEF Unregister
  <2>2. \A j \in Id : adapters'[j] = IF j = i THEN None ELSE adapters[j]
    BY <2>1 DEF IInv, ObjectTypes
  <2>3. \A j \in Id : adapters[j] = adapters[i] => j = i
    BY <1>3 DEF IInv, UnderOwnId
  <2>4. Registered' = Registered \ {adapters[i]}
    BY <2>2, <2>3, <1>3 DEF Registered
  <2>5. {adapters[i]} \in SUBSET Registered
    BY <1>3 DEF Registered, IInv, ObjectTypes
  <2> QED BY <1>1, <1>3, <2>1, <2>4, <2>5, DisconnectTypes
<1> QED BY <1>2, <1>3

LEMMA RemoveKeeps ==
  ASSUME IInv, NEW i \in Id, Remove(i)
  PROVE  IInv'
<1> DEFINE a == adapters[i]
<1>1. /\ Unregister(i) /\ a # None
      /\ early' = early \cup {b \in {a} : Connecting(b)}
      /\ UNCHANGED <<id, kind, worker, entity, monitor>>
  BY DEF Remove
<1>2. /\ adapters' = [adapters EXCEPT ![i] = None]
      /\ open' = open \ {a} /\ open' \subseteq Adapter /\ Disconnected
      /\ Registered' = Registered \ {a}
  BY <1>1, UnregisterTypes
<1>3. a \in Adapter
  BY <1>1 DEF IInv, ObjectTypes
<1> HIDE DEF a
<1>4. ObjectTypes' /\ OtherTypes' /\ WorkerTypes'
  BY <1>1, <1>2, <1>3 DEF IInv, ObjectTypes, OtherTypes, WorkerTypes, Disconnected
<1>5. UnderOwnId'
  BY <1>1, <1>2 DEF IInv, UnderOwnId, ObjectTypes
<1>6. AtWork' /\ OneEach'
  BY <1>1 DEF IInv, AtWork, OneEach, At
<1>7. StillThere'
  <2> SUFFICES ASSUME NEW w \in Worker, At(w)
               PROVE  worker[w].adapter \in Registered' \cup early'
    BY <1>1 DEF StillThere, At
  <2>1. worker[w].adapter = a => Connecting(a)
    BY DEF At, Connecting
  <2> QED BY <1>1, <1>2, <2>1 DEF IInv, StillThere
<1>8. Held'
  BY <1>1, <1>2 DEF IInv, Held
<1>9. RegisteredOpen'
  BY <1>1, <1>2 DEF IInv, RegisteredOpen
<1>10. Strays' /\ NotYet'
  BY <1>1, <1>2, StraysKept DEF Disconnected
<1> QED BY <1>4, <1>5, <1>6, <1>7, <1>8, <1>9, <1>10 DEF IInv

\* The goroutine that gives up leaves nothing of its own behind.
LEMMA UnregisterFailedKeeps ==
  ASSUME IInv, NEW w \in Worker, UnregisterFailed(w)
  PROVE  IInv'
<1> DEFINE own == worker[w].adapter
           i   == id[own]
           a   == adapters[i]
<1>1. /\ worker[w].pc = "unregister"
      /\ Unregister(i)
      /\ early' = early \cup {b \in {a} \ {own} : Connecting(b)}
      /\ worker' = [worker EXCEPT ![w] = Idle]
      /\ UNCHANGED <<id, kind, entity, monitor>>
  BY DEF UnregisterFailed, Ends
<1>2. At(w) /\ own \in Adapter /\ i \in Id
  BY <1>1 DEF IInv, AtWork, At
<1>3. /\ adapters' = [adapters EXCEPT ![i] = None]
      /\ open' = open \ {a} /\ open' \subseteq Adapter /\ Disconnected
      /\ Registered' = Registered \ {a}
  BY <1>1, <1>2, UnregisterTypes
<1>4. early' \subseteq Adapter /\ early \subseteq early'
  <2>1. \A b : Connecting(b) => b \in Adapter
    BY DEF Connecting, IInv, AtWork
  <2> QED BY <1>1, <2>1 DEF IInv, ObjectTypes
<1>5. own \in Registered => own = a
  BY <1>2 DEF IInv, UnderOwnId, Registered
<1> HIDE DEF a, i, own
<1>6. ObjectTypes' /\ OtherTypes' /\ WorkerTypes'
  BY <1>1, <1>3, <1>4, IdleType DEF IInv, ObjectTypes, OtherTypes, WorkerTypes, Disconnected
<1>7. worker'[w] = Idle /\ \A v \in Worker : v # w => worker'[v] = worker[v]
  BY <1>1 DEF IInv, WorkerTypes
<1>8. UnderOwnId'
  BY <1>1, <1>2, <1>3 DEF IInv, UnderOwnId, ObjectTypes
<1>9. AtWork' /\ OneEach'
  BY <1>1, <1>7, IdleType DEF IInv, AtWork, OneEach, At
<1>10. StillThere'
  <2> SUFFICES ASSUME NEW v \in Worker, At(v)'
               PROVE  worker'[v].adapter \in Registered' \cup early'
    BY DEF StillThere
  <2>1. v # w /\ worker'[v] = worker[v] /\ At(v)
    BY <1>7, IdleType DEF At
  <2>2. worker[v].adapter # own
    BY <1>2, <2>1 DEF IInv, OneEach, own
  <2>3. worker[v].adapter = a => Connecting(a)
    BY <2>1 DEF At, Connecting
  <2> QED BY <1>1, <1>3, <2>1, <2>2, <2>3 DEF IInv, StillThere
<1>11. Held'
  BY <1>3, <1>4 DEF IInv, Held
<1>12. RegisteredOpen'
  <2> SUFFICES ASSUME NEW b \in Registered', b \notin open'
               PROVE  \E v \in Worker : \/ worker'[v].adapter = b /\ worker'[v].pc \in {"connecting", "unregister"}
                                        \/ worker'[v].pc = "clear"
    BY DEF RegisteredOpen
  <2>1. b \in Registered /\ b \notin open /\ b # a
    BY <1>3
  <2>2. PICK v \in Worker : \/ worker[v].adapter = b /\ worker[v].pc \in {"connecting", "unregister"}
                            \/ worker[v].pc = "clear"
    BY <2>1 DEF IInv, RegisteredOpen
  <2>3. v # w
    BY <1>1, <1>5, <2>1, <2>2 DEF own
  <2> QED BY <1>7, <2>2, <2>3
<1>13. Strays' /\ NotYet'
  BY <1>1, <1>3, <1>7, IdleType, StraysKept DEF Disconnected
<1> QED BY <1>6, <1>8, <1>9, <1>10, <1>11, <1>12, <1>13 DEF IInv

\* Shutdown's two passes over the registry: whoever is in it is disconnected,
\* and then forgotten.
LEMMA ShutdownPasses ==
  ASSUME IInv, NEW w \in Worker, NEW pc \in {"clear", "idle"},
         ~At(w), Disconnect(Registered),
         early' = early \cup {a \in Registered : Connecting(a)},
         \/ pc = "clear" /\ UNCHANGED adapters /\ worker' = [worker EXCEPT ![w].pc = pc]
         \/ /\ pc = "idle" /\ adapters' = [i \in Id |-> None]
            /\ worker' = [worker EXCEPT ![w] = Idle],
         UNCHANGED <<id, kind, entity, monitor>>
  PROVE  IInv'
<1>1. Registered \subseteq Adapter
  BY DEF Registered
<1>2. open' = open \ Registered /\ open' \subseteq Adapter /\ Disconnected
  BY DisconnectTypes
<1>3. \E r \in Workers : r.pc = pc /\ worker' = [worker EXCEPT ![w] = r]
  <2>1. CASE pc = "idle"
    BY <2>1, IdleType
  <2>2. CASE pc = "clear"
    <3>1. worker[w] \in Workers
      BY DEF IInv, WorkerTypes
    <3>2. [worker[w] EXCEPT !.pc = "clear"] \in Workers /\ [worker[w] EXCEPT !.pc = "clear"].pc = pc
      BY <2>2, <3>1 DEF Workers
    <3>3. worker' = [worker EXCEPT ![w] = [worker[w] EXCEPT !.pc = "clear"]]
      BY <2>2
    <3> QED BY <3>2, <3>3
  <2> QED BY <2>1, <2>2
<1>4. PICK r \in Workers : r.pc = pc /\ worker' = [worker EXCEPT ![w] = r]
  BY <1>3
<1>5. worker'[w] = r /\ \A v \in Worker : v # w => worker'[v] = worker[v]
  BY <1>4 DEF IInv, WorkerTypes
<1>6. ObjectTypes' /\ OtherTypes' /\ WorkerTypes'
  BY <1>1, <1>2, <1>4 DEF IInv, ObjectTypes, OtherTypes, WorkerTypes, Disconnected
<1>7. Registered' = Registered \/ Registered' = {}
  BY DEF Registered
<1>8. UnderOwnId'
  BY DEF IInv, UnderOwnId
<1>9. AtWork' /\ OneEach'
  BY <1>4, <1>5 DEF IInv, AtWork, OneEach, At
<1>10. StillThere'
  <2> SUFFICES ASSUME NEW v \in Worker, At(v)'
               PROVE  worker'[v].adapter \in Registered' \cup early'
    BY DEF StillThere
  <2>1. worker'[v] = worker[v] /\ At(v)
    BY <1>4, <1>5 DEF At
  <2>2. worker[v].adapter \in Registered => Connecting(worker[v].adapter)
    BY <2>1 DEF At, Connecting
  <2> QED BY <2>1, <2>2 DEF IInv, StillThere
<1>11. Held'
  BY <1>2 DEF IInv, Held
<1>12. RegisteredOpen'
  <2>1. CASE pc = "clear"
    BY <1>4, <1>5, <2>1 DEF RegisteredOpen
  <2>2. CASE pc = "idle"
    BY <2>2 DEF RegisteredOpen, Registered
  <2> QED BY <2>1, <2>2
<1>13. Strays' /\ NotYet'
  BY <1>2, <1>4, <1>5, StraysKept DEF Disconnected
<1> QED BY <1>6, <1>8, <1>9, <1>10, <1>11, <1>12, <1>13 DEF IInv

LEMMA ShutsDownKeeps ==
  ASSUME IInv, NEW w \in Worker, ShutsDown(w)
  PROVE  IInv'
<1>1. CASE Shutdown(w)
  <2> DEFINE r == [worker[w] EXCEPT !.pc = "shutdown"]
  <2>1. /\ worker[w].pc = "idle" /\ worker' = [worker EXCEPT ![w] = r]
        /\ crashed' \in BOOLEAN /\ monitor' = "closed"
        /\ UNCHANGED <<adapters, id, kind, open, health, stopped, stray, entity, early>>
    BY <1>1 DEF Shutdown, objects
  <2>2. r \in Workers /\ r.pc = "shutdown"
    BY DEF IInv, WorkerTypes, Workers
  <2> HIDE DEF r
  <2>3. ObjectTypes' /\ OtherTypes'
    BY <2>1 DEF IInv, ObjectTypes, OtherTypes
  <2> QED BY <2>1, <2>2, <2>3, WorkerMoves DEF At, IInv
<1>2. CASE DisconnectAll(w)
  BY <1>2, ShutdownPasses DEF DisconnectAll, Goes, At
<1>3. CASE Clear(w)
  BY <1>3, ShutdownPasses DEF Clear, Ends, At
<1> QED BY <1>1, <1>2, <1>3 DEF ShutsDown

-----------------------------------------------------------------------------
\* What is done to the entity.
LEMMA AttachKeeps ==
  ASSUME IInv, NEW w \in Worker, ReadAdapters(w) \/ AppendAdapter(w)
  PROVE  IInv'
<1>1. worker[w] \in Workers /\ ~At(w) /\ worker[w].pc # "clear"
  BY DEF ReadAdapters, AppendAdapter, At, IInv, WorkerTypes
<1>2. worker[w].adapter \in Adapter /\ id[worker[w].adapter] \in Id
  BY DEF ReadAdapters, AppendAdapter, IInv, AtWork
<1>3. UNCHANGED <<adapters, id, kind, open, health, stopped, stray, monitor, crashed, early>>
  BY DEF ReadAdapters, AppendAdapter, objects
<1>4. \E r \in Workers : /\ worker' = [worker EXCEPT ![w] = r]
                         /\ r.pc = "idle" \/ (r.pc = "append" /\ r.adapter = worker[w].adapter)
  <2>1. CASE worker' = [worker EXCEPT ![w] = Idle]
    BY <2>1, IdleType
  <2>2. CASE ReadAdapters(w) /\ worker' # [worker EXCEPT ![w] = Idle]
    <3> DEFINE r == [worker[w] EXCEPT !.pc = "append", !.list = entity.adapters]
    <3>1. worker' = [worker EXCEPT ![w].pc = "append", ![w].list = entity.adapters]
      BY <2>2 DEF ReadAdapters, Ends
    <3>2. worker' = [worker EXCEPT ![w] = r]
      BY <3>1 DEF IInv, WorkerTypes
    <3>3. entity.adapters \in SUBSET Id
      BY DEF IInv, OtherTypes
    <3>4. r \in Workers /\ r.pc = "append" /\ r.adapter = worker[w].adapter
      BY <1>1, <3>3 DEF Workers
    <3> QED BY <3>2, <3>4
  <2> QED BY <2>1, <2>2 DEF AppendAdapter, Ends
<1>5. entity' \in [state : Statuses, adapters : SUBSET Id]
  <2>1. CASE ReadAdapters(w)
    BY <2>1 DEF ReadAdapters, IInv, OtherTypes
  <2>2. CASE AppendAdapter(w)
    <3>1. worker[w].list \cup {id[worker[w].adapter]} \in SUBSET Id
      BY <1>1, <1>2 DEF Workers
    <3> QED BY <2>2, <3>1 DEF AppendAdapter, IInv, OtherTypes
  <2> QED BY <2>1, <2>2
<1>6. ObjectTypes' /\ OtherTypes'
  BY <1>3, <1>5 DEF IInv, ObjectTypes, OtherTypes
<1> QED BY <1>1, <1>2, <1>3, <1>4, <1>6, WorkerMoves DEF IInv

\* What a check can return.
LEMMA CheckTypes ==
  ASSUME IInv, NEW a \in Registered, NEW r \in Check(a)
  PROVE  r.status \in Statuses
<1>1. a \in Adapter /\ kind[a] \in {"http", "ssh", "grpc", "mqtt", "mesh"}
  BY DEF Registered, IInv, UnderOwnId, ObjectTypes
<1>2. \E s \in Statuses, err \in BOOLEAN, kept \in BOOLEAN : r = Result(s, err, kept)
  BY <1>1 DEF Check, CheckHTTP, CheckSSH, CheckGRPC, CheckMQTT, CheckMesh, Graded, Statuses
<1> QED BY <1>2 DEF Result

\* A goroutine that uses or checks an adapter.
LEMMA UseMoves ==
  ASSUME IInv, NEW w \in Worker, NEW r \in Workers, worker' = [worker EXCEPT ![w] = r],
         worker[w].pc \in {"idle", "use", "sync", "synced"},
         r.pc \notin {"connecting", "unregister"},
         r.pc \in {"attach", "append", "use", "sync"} =>
           r.adapter \in Adapter /\ id[r.adapter] \in Id,
         health' \in [Adapter -> Statuses], crashed' \in BOOLEAN,
         entity' \in [state : Statuses, adapters : SUBSET Id],
         UNCHANGED <<adapters, id, kind, open, stopped, stray, monitor, early>>
  PROVE  IInv'
<1>1. ObjectTypes' /\ OtherTypes'
  BY DEF IInv, ObjectTypes, OtherTypes
<1> QED BY <1>1, WorkerMoves DEF IInv, At

\* What every use of an adapter comes to.
LEMMA UseIs ==
  ASSUME NEW w, Use(w), crashed \in BOOLEAN
  PROVE  /\ worker[w].pc = "use" /\ worker' = [worker EXCEPT ![w] = Idle]
         /\ UNCHANGED <<adapters, id, kind, open, stopped, stray, entity, monitor, early>>
         /\ crashed' \in BOOLEAN
         /\ health' = health \/ health' = [health EXCEPT ![worker[w].adapter] = "healthy"]
  BY DEF Use, ReadHTTP, ReadSSH, ReadGRPC, ReadMQTT, SendHTTP, SendSSH, SendGRPC, SendMQTT,
         UseMesh, Serves, NilClient, Healthy, Ends

LEMMA UsesKeep ==
  ASSUME IInv, NEW w \in Worker, Uses(w)
  PROVE  IInv'
<1>1. /\ worker[w] \in Workers /\ health \in [Adapter -> Statuses] /\ crashed \in BOOLEAN
      /\ entity \in [state : Statuses, adapters : SUBSET Id]
  BY DEF IInv, ObjectTypes, OtherTypes, WorkerTypes
<1>2. \A a \in Registered : a \in Adapter /\ id[a] \in Id
  BY DEF Registered, IInv, UnderOwnId
<1>3. ASSUME NEW a \in Adapter, BeginUse(w, a) PROVE IInv'
  <2> DEFINE r == [worker[w] EXCEPT !.pc = "use", !.adapter = a]
  <2>1. /\ worker[w].pc = "idle" /\ a \in Registered
        /\ worker' = [worker EXCEPT ![w].pc = "use", ![w].adapter = a]
        /\ UNCHANGED <<adapters, id, kind, open, health, stopped, stray, entity, monitor, crashed, early>>
    BY <1>3 DEF BeginUse, objects
  <2>2. worker' = [worker EXCEPT ![w] = r]
    BY <2>1 DEF IInv, WorkerTypes
  <2>3. r \in Workers /\ r.pc = "use" /\ r.adapter = a
    BY <1>1 DEF Workers
  <2> HIDE DEF r
  <2> QED BY <1>1, <1>2, <2>1, <2>2, <2>3, UseMoves
<1>4. ASSUME NEW a \in Adapter, SyncCheck(w, a) PROVE IInv'
  <2>1. PICK c \in Check(a) :
          /\ health' = IF c.stored THEN [health EXCEPT ![a] = c.status] ELSE health
          /\ worker' = [worker EXCEPT ![w].pc = IF c.err THEN "synced" ELSE "sync",
                                      ![w].adapter = a, ![w].seen = c.status]
    BY <1>4 DEF SyncCheck
  <2>2. /\ worker[w].pc = "idle" /\ a \in Registered
        /\ UNCHANGED <<adapters, id, kind, open, stopped, stray, entity, monitor, crashed, early>>
    BY <1>4 DEF SyncCheck
  <2>3. c.status \in Statuses
    BY <2>2, CheckTypes
  <2> DEFINE pc == IF c.err THEN "synced" ELSE "sync"
             r  == [worker[w] EXCEPT !.pc = pc, !.adapter = a, !.seen = c.status]
  <2>4. worker' = [worker EXCEPT ![w] = r]
    BY <2>1 DEF IInv, WorkerTypes
  <2>5. pc \in {"sync", "synced"}
    OBVIOUS
  <2> HIDE DEF pc
  <2>6. r \in Workers /\ r.pc = pc /\ r.adapter = a
    BY <1>1, <2>3, <2>5 DEF Workers
  <2>7. health' \in [Adapter -> Statuses]
    BY <1>1, <2>1, <2>3
  <2> HIDE DEF r
  <2> QED BY <1>1, <1>2, <2>2, <2>4, <2>5, <2>6, <2>7, UseMoves
<1>5. CASE Use(w)
  <2>1. /\ worker[w].pc = "use" /\ worker' = [worker EXCEPT ![w] = Idle]
        /\ UNCHANGED <<adapters, id, kind, open, stopped, stray, entity, monitor, early>>
        /\ crashed' \in BOOLEAN
    BY <1>1, <1>5, UseIs
  <2>2. health' = health \/ health' = [health EXCEPT ![worker[w].adapter] = "healthy"]
    BY <1>1, <1>5, UseIs
  <2>3. health' \in [Adapter -> Statuses]
    BY <1>1, <2>2 DEF Statuses
  <2> QED BY <1>1, <2>1, <2>3, IdleType, UseMoves
<1>6. CASE SyncStore(w)
  <2> DEFINE r == [worker[w] EXCEPT !.pc = "synced"]
  <2>1. /\ worker[w].pc = "sync" /\ worker' = [worker EXCEPT ![w] = r]
        /\ UNCHANGED <<adapters, id, kind, open, health, stopped, stray, monitor, crashed, early>>
    BY <1>6 DEF SyncStore, Goes, objects
  <2>2. r \in Workers /\ r.pc = "synced"
    BY <1>1 DEF Workers
  <2>3. entity' \in [state : Statuses, adapters : SUBSET Id]
    <3>1. worker[w].seen \in Statuses
      BY <1>1 DEF Workers
    <3> QED BY <1>1, <1>6, <3>1 DEF SyncStore
  <2> HIDE DEF r
  <2> QED BY <1>1, <2>1, <2>2, <2>3, UseMoves
<1>7. CASE SyncEnds(w)
  <2>1. /\ worker[w].pc = "synced" /\ worker' = [worker EXCEPT ![w] = Idle]
        /\ UNCHANGED <<adapters, id, kind, open, health, stopped, stray, entity, monitor, crashed, early>>
    BY <1>7 DEF SyncEnds, Ends, objects
  <2> QED BY <1>1, <2>1, IdleType, UseMoves
<1> QED BY <1>3, <1>4, <1>5, <1>6, <1>7 DEF Uses, ExecuteCommand

\* The health of an adapter is all that the monitor and the brokers change.
LEMMA HealthKeeps ==
  ASSUME IInv, NEW a \in Adapter, ConnectionLost(a) \/ MonitorChecks(a)
  PROVE  IInv'
<1>1. UNCHANGED <<adapters, id, kind, open, stopped, stray, worker, entity, monitor, crashed, early>>
  BY DEF ConnectionLost, MonitorChecks
<1>2. health' \in [Adapter -> Statuses]
  <2>1. \E s \in Statuses : health' = [health EXCEPT ![a] = s]
    BY CheckTypes DEF ConnectionLost, MonitorChecks, Statuses
  <2> QED BY <2>1 DEF IInv, ObjectTypes
<1>3. ObjectTypes' /\ OtherTypes' /\ WorkerTypes'
  BY <1>1, <1>2 DEF IInv, ObjectTypes, OtherTypes, WorkerTypes
<1> QED
  BY <1>1, <1>3 DEF IInv, UnderOwnId, AtWork, OneEach, StillThere, At, Registered,
     Held, Strays, NotYet, RegisteredOpen

\* A connection that comes up late is of no consequence to the others.
LEMMA LateKeeps ==
  ASSUME IInv, NEW a \in Adapter, ConnectsLate(a)
  PROVE  IInv'
<1>1. /\ UNCHANGED <<adapters, id, kind, open, health, stopped, worker, entity, monitor, crashed, early>>
      /\ stray[a] = "dialling" /\ stray' = [stray EXCEPT ![a] = "open"]
  BY DEF ConnectsLate
<1>2. ObjectTypes' /\ OtherTypes' /\ WorkerTypes'
  BY <1>1 DEF IInv, ObjectTypes, OtherTypes, WorkerTypes
<1>3. \A b \in Adapter : stray'[b] # "none" => stray[b] # "none"
  BY <1>1 DEF IInv, ObjectTypes
<1>4. Strays' /\ NotYet'
  BY <1>1, <1>3 DEF IInv, Strays, NotYet
<1> QED
  BY <1>1, <1>2, <1>4 DEF IInv, UnderOwnId, AtWork, OneEach, StillThere, At, Registered,
     Held, RegisteredOpen

LEMMA StutterKeeps == IInv /\ UNCHANGED vars => IInv'
  BY DEF vars, objects, IInv, ObjectTypes, OtherTypes, WorkerTypes, UnderOwnId, AtWork,
     OneEach, StillThere, At, Registered, Held, Strays, NotYet,
     RegisteredOpen

\* Every step of every behaviour keeps the invariant.
LEMMA InductiveInvariant == Spec => []IInv
<1>1. IInv /\ [Next]_vars => IInv'
  <2> SUFFICES ASSUME IInv, [Next]_vars PROVE IInv'
    OBVIOUS
  <2>1. ASSUME NEW w \in Worker, Creates(w) PROVE IInv'
    <3>1. CASE \/ ConnectHTTP(w) \/ ConnectSSH(w) \/ ConnectGRPC(w) \/ ConnectMQTT(w)
               \/ ConnectMesh(w)
      BY <3>1, AttemptIs, ConnectedKeeps, ConnectFailsKeeps
    <3>2. CASE ConnectTimesOut(w)
      <4>1. \E most \in {1, Attempts} :
              most = 1 <=> (kind[worker[w].adapter] = "mesh" \/ Attempts = 1)
        OBVIOUS
      <4> QED BY <3>2, <4>1, ConnectFailsKeeps
    <3> QED
      BY <2>1, <3>1, <3>2, CreateKeeps, UnregisterFailedKeeps, AttachKeeps DEF Creates
  <2>2. CASE UNCHANGED vars
    BY <2>2, StutterKeeps
  <2> QED BY <2>1, <2>2, ShutsDownKeeps, UsesKeep, RemoveKeeps, HealthKeeps, LateKeeps
     DEF Next
<1> QED BY InitHolds, <1>1, PTL DEF Spec

-----------------------------------------------------------------------------
\* Every variable of the adapters, the registry and the bridge keeps its type.
THEOREM TypeCorrect == Spec => []TypeOK
<1>1. IInv => TypeOK
  BY TypesAre DEF IInv
<1> QED BY InductiveInvariant, <1>1, PTL

\* A connected adapter that the registry does not hold was removed while
\* CreateAndConnect was still connecting it; any other connection that nobody can
\* close is that of an mqtt attempt that ran out of time, or of a mesh adapter that
\* dialled its peers again after it was disconnected.
THEOREM OrphansHolds == Spec => []OrphansExplained
<1>1. IInv => OrphansExplained
  BY DEF IInv, Held, Strays, OrphansExplained
<1> QED BY InductiveInvariant, <1>1, PTL

\* A registered adapter is connected, or CreateAndConnect or Shutdown is at
\* work on it.
THEOREM RegisteredOpenHolds == Spec => []RegisteredOpen
<1>1. IInv => RegisteredOpen
  BY DEF IInv
<1> QED BY InductiveInvariant, <1>1, PTL

\* CreateAndConnect, when it gives up, unregisters its own adapter only, unless
\* that was removed before.
THEOREM TakesBackHolds == Spec => TakesBackItsOwn
<1>1. IInv /\ [Next]_vars => [TakesBack]_vars
  <2> SUFFICES ASSUME IInv, Next, NEW w \in Worker, NEW a \in Registered,
                      worker[w].pc = "unregister", worker'[w].pc # "unregister",
                      \A i \in Id : adapters'[i] # a
               PROVE  a = worker[w].adapter \/ worker[w].adapter \in early
    BY DEF TakesBack
  <2>1. CASE UnregisterFailed(w)
    <3> DEFINE own == worker[w].adapter
    <3>1. Unregister(id[own]) /\ own \in Adapter /\ id[own] \in Id /\ own \in Registered \cup early
      BY <2>1 DEF UnregisterFailed, IInv, AtWork, StillThere, At
    <3>2. adapters' = [adapters EXCEPT ![id[own]] = None]
      BY <3>1, UnregisterTypes
    <3>3. a = adapters[id[own]]
      BY <3>1, <3>2 DEF IInv, ObjectTypes, Registered
    <3>4. own \in Registered => adapters[id[own]] = own
      BY <3>1 DEF IInv, UnderOwnId, Registered
    <3> QED BY <3>1, <3>3, <3>4
  <2>2. CASE ~UnregisterFailed(w)
    <3>1. worker \in [Worker -> Workers]
      BY DEF IInv, WorkerTypes
    <3>2. ASSUME NEW v \in Worker, v # w, Creates(v) \/ ShutsDown(v) \/ Uses(v) PROVE FALSE
      <4>1. \A u \in Worker \ {v} : worker'[u] = worker[u]
        <5>1. CASE Creates(v)
          BY <3>1, <5>1, AttemptIs DEF Creates, Create, Connected, ConnectFails, ConnectTimesOut,
             UnregisterFailed, ReadAdapters, AppendAdapter, Goes, Ends
        <5>2. CASE ShutsDown(v)
          BY <3>1, <5>2 DEF ShutsDown, Shutdown, DisconnectAll, Clear, Goes, Ends
        <5>3. CASE Uses(v)
          <6>1. crashed \in BOOLEAN
            BY DEF IInv, OtherTypes
          <6> QED BY <3>1, <5>3, <6>1, UseIs DEF Uses, ExecuteCommand, BeginUse, SyncCheck,
                SyncStore, SyncEnds, Goes, Ends
        <5> QED BY <3>2, <5>1, <5>2, <5>3
      <4> QED BY <3>2, <4>1
    <3>3. ~Creates(w) /\ ~ShutsDown(w) /\ ~Uses(w)
      <4>1. ~Creates(w)
        BY <2>2, AttemptIs DEF Creates, Create, Connected, ConnectFails, ConnectTimesOut,
           ReadAdapters, AppendAdapter
      <4>2. ~Uses(w)
        <5>1. crashed \in BOOLEAN
          BY DEF IInv, OtherTypes
        <5> QED BY <5>1, UseIs DEF Uses, ExecuteCommand, BeginUse, SyncCheck, SyncStore, SyncEnds
      <4> QED BY <4>1, <4>2 DEF ShutsDown, Shutdown, DisconnectAll, Clear
    <3>4. \/ \E i \in Id : Remove(i)
          \/ \E b \in Adapter : ConnectsLate(b) \/ ConnectionLost(b) \/ MonitorChecks(b)
      BY <3>2, <3>3 DEF Next
    <3> QED BY <3>4 DEF Remove, ConnectsLate, ConnectionLost, MonitorChecks
  <2> QED BY <2>1, <2>2
<1> QED BY InductiveInvariant, <1>1, PTL DEF Spec, TakesBackItsOwn
=============================================================================
