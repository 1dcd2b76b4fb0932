-------------------------- MODULE StateStoreProofs --------------------------
(* Theorems about StateStore, for every value of its constants. *)
EXTENDS StateStore, TLAPS

\* A goroutine that works on an object has one, and a desired state with it.
AtObject == \A t \in Goroutine : pc[t] \in {"visit", "store"} =>
  cur[t] \in Object /\ desired[t] \in Value

\* What the store holds for an entity is an object of that entity.
Home == \A e \in Entity : states[e] # Nil => heap[states[e]].entity = e

\* The part of the invariant that the store's operations can disturb.
StoreTypes ==
  /\ heap \in [Object -> State]
  /\ states \in [Entity -> Object \cup {Nil}]
  /\ db \in [Entity -> Row \cup {Nil}]
  /\ flaky \in BOOLEAN
StorePart == StoreTypes /\ Home /\ DbMirrors

\* The part that describes the goroutines.
LoopPart ==
  /\ snaps \in [Snap -> [Entity -> Object \cup {Nil}] \cup {Nil}]
  /\ pc \in [Goroutine -> {"idle", "each", "visit", "store"}]
  /\ todo \in [Goroutine -> SUBSET Object]
  /\ cur \in [Goroutine -> Object \cup {Nil}]
  /\ desired \in [Goroutine -> Value \cup {Nil}]
  /\ force \in [Goroutine -> BOOLEAN]
  /\ restarts \in Nat
  /\ AtObject

StoreInv == StorePart /\ LoopPart

LEMMA PersistedType == \A s \in State : Persisted(s) \in Row
  BY JsonAssumption DEF Persisted, State, Row

-----------------------------------------------------------------------------
\* Set keeps the store's part if the object it stores is not that of another
\* entity.
LEMMA SetKeeps ==
  ASSUME StorePart, NEW o \in Object, NEW s \in State, Set(o, s),
         UNCHANGED flaky,
         \A f \in Entity : states[f] = o => f = s.entity
  PROVE  StorePart'
<1> DEFINE old == states[s.entity]
           new == [s EXCEPT !.version = IF old = Nil THEN 1 ELSE heap[old].version + 1]
<1>1. s.entity \in Entity
  BY DEF State
<1>2. new \in State /\ new.entity = s.entity
  BY <1>1 DEF State, StorePart, StoreTypes
<1>3. /\ heap' = [heap EXCEPT ![o] = new]
      /\ states' = [states EXCEPT ![s.entity] = o]
      /\ Persist(s.entity, Persisted(new))
  BY DEF Set
<1>4. Persisted(new) \in Row
  BY <1>2, PersistedType
<1> HIDE DEF new
<1>5. StoreTypes'
  BY <1>1, <1>2, <1>3, <1>4 DEF StorePart, StoreTypes, Persist
<1>6. Home'
  BY <1>1, <1>2, <1>3, NilAssumption DEF StorePart, StoreTypes, Home
<1>7. DbMirrors'
  <2> SUFFICES ASSUME ~flaky, NEW e \in Entity
               PROVE  db'[e] = IF states'[e] = Nil THEN Nil
                               ELSE Persisted(heap'[states'[e]])
    BY DEF DbMirrors
  <2>1. db' = [db EXCEPT ![s.entity] = Persisted(new)]
    BY <1>3 DEF Persist
  <2>2. CASE e = s.entity
    BY <2>1, <2>2, <1>1, <1>3, NilAssumption DEF StorePart, StoreTypes
  <2>3. CASE e # s.entity
    <3>1. db'[e] = db[e] /\ states'[e] = states[e]
      BY <2>1, <2>3, <1>1, <1>3 DEF StorePart, StoreTypes
    <3>2. states[e] # Nil => heap'[states[e]] = heap[states[e]]
      BY <2>3, <1>3 DEF StorePart, StoreTypes
    <3> QED BY <3>1, <3>2 DEF StorePart, DbMirrors
  <2> QED BY <2>2, <2>3
<1> QED BY <1>5, <1>6, <1>7 DEF StorePart

\* Change keeps the store's part: no two entities share an object.
LEMMA ChangeKeeps ==
  ASSUME StorePart, NEW e \in Entity, states[e] # Nil, NEW s \in State,
         s.entity = e, Change(e, s), UNCHANGED <<states, flaky>>
  PROVE  StorePart'
<1> DEFINE new == [s EXCEPT !.version = @ + 1]
<1>1. new \in State /\ new.entity = e
  BY DEF State
<1>2. /\ heap' = [heap EXCEPT ![states[e]] = new]
      /\ Persist(e, Persisted(new))
      /\ states[e] \in Object
  BY DEF Change, StorePart, StoreTypes
<1>3. Persisted(new) \in Row
  BY <1>1, PersistedType
<1> HIDE DEF new
<1>4. StoreTypes'
  BY <1>1, <1>2, <1>3 DEF StorePart, StoreTypes, Persist
<1>5. Home'
  BY <1>1, <1>2 DEF StorePart, StoreTypes, Home
<1>6. DbMirrors'
  <2> SUFFICES ASSUME ~flaky, NEW f \in Entity
               PROVE  db'[f] = IF states[f] = Nil THEN Nil
                               ELSE Persisted(heap'[states[f]])
    BY DEF DbMirrors
  <2>1. db' = [db EXCEPT ![e] = Persisted(new)]
    BY <1>2 DEF Persist
  <2>2. CASE f = e
    BY <2>1, <2>2, <1>2 DEF StorePart, StoreTypes
  <2>3. CASE f # e
    <3>1. db'[f] = db[f]
      BY <2>1, <2>3 DEF StorePart, StoreTypes
    <3>2. states[f] # Nil => states[f] # states[e]
      BY <2>3 DEF StorePart, Home
    <3>3. states[f] # Nil => heap'[states[f]] = heap[states[f]]
      BY <3>2, <1>2 DEF StorePart, StoreTypes
    <3> QED BY <3>1, <3>3 DEF StorePart, DbMirrors
  <2> QED BY <2>2, <2>3
<1> QED BY <1>4, <1>5, <1>6 DEF StorePart

\* What leaves the store's variables alone, or changes only drift, keeps it.
LEMMA StoreUntouched ==
  ASSUME StorePart, UNCHANGED <<heap, states, db, flaky>>
  PROVE  StorePart'
BY DEF StorePart, StoreTypes, Home, DbMirrors, Persisted

LEMMA DriftKeeps ==
  ASSUME StorePart, NEW o \in Object, NEW d \in BOOLEAN,
         heap' = [heap EXCEPT ![o].drift = d], UNCHANGED <<states, db, flaky>>
  PROVE  StorePart'
<1>1. heap' \in [Object -> State]
  BY DEF StorePart, StoreTypes, State
<1>2. \A p \in Object : /\ heap'[p].entity = heap[p].entity
                        /\ Persisted(heap'[p]) = Persisted(heap[p])
  BY DEF StorePart, StoreTypes, State, Persisted
<1> QED BY <1>1, <1>2 DEF StorePart, StoreTypes, Home, DbMirrors

-----------------------------------------------------------------------------
\* Continue clears the locals of a goroutine.
LEMMA ContinueKeeps ==
  ASSUME LoopPart, NEW t \in Goroutine, Continue(t), UNCHANGED <<snaps, restarts>>
  PROVE  LoopPart'
BY DEF LoopPart, Continue, Goto, AtObject

LEMMA LoopUntouched ==
  ASSUME LoopPart, UNCHANGED <<goroutine, restarts>>,
         snaps' \in [Snap -> [Entity -> Object \cup {Nil}] \cup {Nil}]
  PROVE  LoopPart'
BY DEF LoopPart, goroutine, AtObject

LEMMA StartLoopKeeps ==
  ASSUME StoreInv, NEW t \in Goroutine, NEW O \in SUBSET Object, NEW f \in BOOLEAN,
         StartLoop(t, O, f)
  PROVE  StoreInv'
<1>1. StorePart'
  BY StoreUntouched DEF StoreInv, StartLoop, process
<1>2. LoopPart'
  BY DEF StoreInv, LoopPart, StartLoop, Goto, AtObject, process
<1> QED BY <1>1, <1>2 DEF StoreInv

LEMMA ReadDesiredKeeps ==
  ASSUME StoreInv, NEW t \in Goroutine, NEW o \in Object, ReadDesired(t, o)
  PROVE  StoreInv'
<1>1. StorePart'
  BY StoreUntouched DEF StoreInv, ReadDesired, process
<1>2. heap[o].desired \in Value
  BY DEF StoreInv, StorePart, StoreTypes, State
<1>3. LoopPart'
  BY <1>2 DEF StoreInv, LoopPart, ReadDesired, Goto, AtObject, process
<1> QED BY <1>1, <1>3 DEF StoreInv

-----------------------------------------------------------------------------
LEMMA InitInv == Init => StoreInv
<1> SUFFICES ASSUME Init PROVE StoreInv
  OBVIOUS
<1>1. heap \in [Object -> State]
  BY EntityAssumption DEF Init, State
<1>2. StorePart
  BY <1>1 DEF Init, StorePart, StoreTypes, Home, DbMirrors
<1>3. LoopPart
  BY DEF Init, LoopPart, AtObject
<1> QED BY <1>2, <1>3 DEF StoreInv

LEMMA CallKeeps == StoreInv /\ Call => StoreInv'
<1> SUFFICES ASSUME StoreInv, Call PROVE StoreInv'
  OBVIOUS
<1> USE DEF process
<1>1. ASSUME NEW e \in Entity, NEW d \in Value, NEW a \in Value, SetEntityState(e, d, a)
      PROVE  StoreInv'
  <2>1. PICK o \in Object \ Reachable :
          Set(o, [entity |-> e, desired |-> d, actual |-> a, version |-> 0,
                  drift |-> FALSE])
    BY <1>1 DEF SetEntityState
  <2> DEFINE s == [entity |-> e, desired |-> d, actual |-> a, version |-> 0,
                   drift |-> FALSE]
  <2>2. s \in State
    BY DEF State
  <2>3. \A f \in Entity : states[f] # o
    BY <2>1 DEF Reachable
  <2>4. StorePart'
    BY <2>1, <2>2, <2>3, <1>1, SetKeeps DEF StoreInv, SetEntityState
  <2>5. LoopPart'
    BY <1>1, LoopUntouched DEF StoreInv, LoopPart, SetEntityState
  <2> QED BY <2>4, <2>5 DEF StoreInv
<1>2. ASSUME NEW e \in Entity, NEW v \in Value, UpdateDesiredState(e, v)
      PROVE  StoreInv'
  <2> DEFINE s == [heap[states[e]] EXCEPT !.desired = v]
  <2>1. states[e] # Nil /\ states[e] \in Object
    BY <1>2 DEF UpdateDesiredState, StoreInv, StorePart, StoreTypes
  <2>2. s \in State /\ s.entity = e
    BY <2>1 DEF StoreInv, StorePart, StoreTypes, State, Home
  <2>3. StorePart'
    BY <2>1, <2>2, <1>2, ChangeKeeps DEF StoreInv, UpdateDesiredState
  <2>4. LoopPart'
    BY <1>2, LoopUntouched DEF StoreInv, LoopPart, UpdateDesiredState
  <2> QED BY <2>3, <2>4 DEF StoreInv
<1>3. ASSUME NEW e \in Entity, NEW v \in Value, UpdateActualState(e, v)
      PROVE  StoreInv'
  <2> DEFINE s == [heap[states[e]] EXCEPT !.actual = v]
  <2>1. states[e] # Nil /\ states[e] \in Object
    BY <1>3 DEF UpdateActualState, StoreInv, StorePart, StoreTypes
  <2>2. s \in State /\ s.entity = e
    BY <2>1 DEF StoreInv, StorePart, StoreTypes, State, Home
  <2>3. StorePart'
    BY <2>1, <2>2, <1>3, ChangeKeeps DEF StoreInv, UpdateActualState
  <2>4. LoopPart'
    BY <1>3, LoopUntouched DEF StoreInv, LoopPart, UpdateActualState
  <2> QED BY <2>3, <2>4 DEF StoreInv
<1>4. ASSUME NEW e \in Entity, Delete(e) PROVE StoreInv'
  <2>1. StorePart'
    BY <1>4 DEF StoreInv, StorePart, StoreTypes, Home, DbMirrors, Delete, Persist
  <2>2. LoopPart'
    BY <1>4, LoopUntouched DEF StoreInv, LoopPart, Delete
  <2> QED BY <2>1, <2>2 DEF StoreInv
<1>5. ASSUME NEW s \in Snap, CreateSnapshot(s) \/ DeleteSnapshot(s) PROVE StoreInv'
  <2>1. StorePart'
    BY <1>5, StoreUntouched DEF StoreInv, CreateSnapshot, DeleteSnapshot
  <2>2. snaps' \in [Snap -> [Entity -> Object \cup {Nil}] \cup {Nil}]
    BY <1>5 DEF StoreInv, StorePart, StoreTypes, LoopPart, CreateSnapshot,
                DeleteSnapshot
  <2>3. LoopPart'
    BY <1>5, <2>2, LoopUntouched DEF StoreInv, CreateSnapshot, DeleteSnapshot
  <2> QED BY <2>1, <2>3 DEF StoreInv
<1> QED BY <1>1, <1>2, <1>3, <1>4, <1>5 DEF Call

LEMMA DetectKeeps == StoreInv /\ Detect => StoreInv'
<1> SUFFICES ASSUME StoreInv, NEW t \in Detector,
                    \/ \E e \in Entity : DetectDrift(t, e)
                    \/ DetectAllDrift(t)
                    \/ \E o \in Object : ReadDesired(t, o)
                    \/ NoteDrift(t)
                    \/ StoreDrift(t)
             PROVE  StoreInv'
  BY DEF Detect
<1> USE DEF process
<1>1. t \in Goroutine
  BY DEF Goroutine
<1>2. CASE \E e \in Entity : DetectDrift(t, e)
  <2>1. PICK e \in Entity : DetectDrift(t, e)
    BY <1>2
  <2>2. {states[e]} \in SUBSET Object
    BY <2>1 DEF DetectDrift, StoreInv, StorePart, StoreTypes
  <2> QED BY <2>1, <2>2, <1>1, StartLoopKeeps DEF DetectDrift
<1>3. CASE DetectAllDrift(t)
  <2>1. {states[e] : e \in Entity} \ {Nil} \in SUBSET Object
    BY DEF StoreInv, StorePart, StoreTypes
  <2> QED BY <2>1, <1>1, <1>3, StartLoopKeeps DEF DetectAllDrift
<1>4. CASE \E o \in Object : ReadDesired(t, o)
  BY <1>1, <1>4, ReadDesiredKeeps
<1>5. CASE NoteDrift(t)
  <2>1. cur[t] \in Object /\ desired[t] \in Value
    BY <1>1, <1>5 DEF NoteDrift, StoreInv, LoopPart, AtObject
  <2> DEFINE d == desired[t] # heap[cur[t]].actual
  <2>2. CASE d \/ force[t]
    <3>1. /\ heap' = [heap EXCEPT ![cur[t]].drift = d]
          /\ Goto(t, "store")
          /\ UNCHANGED <<todo, cur, desired, force, states, db, snaps, process>>
      BY <2>2, <1>5 DEF NoteDrift
    <3>2. StorePart'
      BY <3>1, <2>1, DriftKeeps DEF StoreInv
    <3>3. LoopPart'
      BY <3>1, <2>1, <1>1 DEF StoreInv, LoopPart, Goto, AtObject
    <3> QED BY <3>2, <3>3 DEF StoreInv
  <2>3. CASE ~(d \/ force[t])
    <3>1. Continue(t) /\ UNCHANGED <<heap, states, db, snaps, process>>
      BY <2>3, <1>5 DEF NoteDrift
    <3> QED BY <3>1, <1>1, StoreUntouched, ContinueKeeps DEF StoreInv
  <2> QED BY <2>2, <2>3
<1>6. CASE StoreDrift(t)
  <2>1. cur[t] \in Object
    BY <1>1, <1>6 DEF StoreDrift, StoreInv, LoopPart, AtObject
  <2>2. heap[cur[t]] \in State
    BY <2>1 DEF StoreInv, StorePart, StoreTypes
  <2>3. \A f \in Entity : states[f] = cur[t] => f = heap[cur[t]].entity
    BY <2>1, NilAssumption DEF StoreInv, StorePart, Home
  <2>4. StorePart'
    BY <2>1, <2>2, <2>3, <1>6, SetKeeps DEF StoreInv, StoreDrift
  <2>5. LoopPart'
    BY <1>1, <1>6, ContinueKeeps DEF StoreInv, StoreDrift
  <2> QED BY <2>4, <2>5 DEF StoreInv
<1> QED BY <1>2, <1>3, <1>4, <1>5, <1>6

LEMMA RepairKeeps == StoreInv /\ Repair => StoreInv'
<1> SUFFICES ASSUME StoreInv, NEW t \in Reconciler,
                    \/ ReconcileAll(t)
                    \/ \E o \in Object : ReadDesired(t, o)
                    \/ Reconcile(t)
                    \/ ReconcileFails(t)
             PROVE  StoreInv'
  BY DEF Repair
<1> USE DEF process
<1>1. t \in Goroutine
  BY DEF Goroutine
<1>2. CASE ReconcileAll(t)
  <2> DEFINE O == {states[e] : e \in {e \in Entity :
                     states[e] # Nil /\ heap[states[e]].drift}}
  <2>1. O \in SUBSET Object
    BY DEF StoreInv, StorePart, StoreTypes
  <2>2. StartLoop(t, O, FALSE)
    BY <1>2 DEF ReconcileAll
  <2> HIDE DEF O
  <2> QED BY <2>1, <2>2, <1>1, StartLoopKeeps
<1>3. CASE \E o \in Object : ReadDesired(t, o)
  BY <1>1, <1>3, ReadDesiredKeeps
<1>4. CASE Reconcile(t)
  <2>1. cur[t] \in Object /\ desired[t] \in Value
    BY <1>1, <1>4 DEF Reconcile, StoreInv, LoopPart, AtObject
  <2> DEFINE e == heap[cur[t]].entity
             s == [heap[states[e]] EXCEPT !.desired = desired[t]]
  <2>2. e \in Entity
    BY <2>1 DEF StoreInv, StorePart, StoreTypes, State
  <2>3. states[e] # Nil /\ Change(e, s) /\ Continue(t)
        /\ UNCHANGED <<states, snaps, process>>
    BY <1>4 DEF Reconcile
  <2>4. states[e] \in Object
    BY <2>2, <2>3 DEF StoreInv, StorePart, StoreTypes
  <2>5. s \in State /\ s.entity = e
    BY <2>1, <2>2, <2>3, <2>4 DEF StoreInv, StorePart, StoreTypes, State, Home
  <2> HIDE DEF e, s
  <2>6. StorePart'
    BY <2>2, <2>3, <2>5, ChangeKeeps DEF StoreInv
  <2>7. LoopPart'
    BY <2>3, <1>1, ContinueKeeps DEF StoreInv
  <2> QED BY <2>6, <2>7 DEF StoreInv
<1>5. CASE ReconcileFails(t)
  BY <1>1, <1>5, StoreUntouched, ContinueKeeps DEF StoreInv, ReconcileFails
<1> QED BY <1>2, <1>3, <1>4, <1>5

LEMMA RestartKeeps == StoreInv /\ Restart => StoreInv'
<1> SUFFICES ASSUME StoreInv, Restart PROVE StoreInv'
  OBVIOUS
<1>1. PICK new \in [Entity -> Object \cup {Nil}] :
        /\ \A e \in Entity : new[e] = Nil <=> db[e] = Nil
        /\ \A e, f \in Entity : new[e] = new[f] => e = f \/ new[e] = Nil
        /\ states' = new
        /\ heap' = [o \in Object |->
             IF \E e \in Entity : new[e] = o
               THEN LET e == CHOOSE e \in Entity : new[e] = o
                    IN  [entity |-> e, desired |-> db[e].desired,
                         actual |-> db[e].actual, version |-> db[e].version,
                         drift |-> FALSE]
               ELSE heap[o]]
  BY DEF Restart
<1>2. db' = db /\ flaky' = flaky
  BY DEF Restart
<1> DEFINE Loaded(e) == [entity |-> e, desired |-> db[e].desired,
                         actual |-> db[e].actual, version |-> db[e].version,
                         drift |-> FALSE]
<1>3. ASSUME NEW e \in Entity, new[e] # Nil
      PROVE  new[e] \in Object /\ db[e] \in Row /\ heap'[new[e]] = Loaded(e)
  <2>1. new[e] \in Object /\ db[e] \in Row
    BY <1>1, <1>3 DEF StoreInv, StorePart, StoreTypes
  <2>2. (CHOOSE f \in Entity : new[f] = new[e]) = e
    BY <1>1, <1>3
  <2> QED BY <2>1, <2>2, <1>1
<1>4. heap' \in [Object -> State]
  <2> SUFFICES ASSUME NEW o \in Object PROVE heap'[o] \in State
    BY <1>1
  <2>1. CASE \E e \in Entity : new[e] = o
    <3>1. PICK e \in Entity : new[e] = o
      BY <2>1
    <3>2. Loaded(e) \in State
      BY <3>1, <1>3, NilAssumption DEF Row, State
    <3> QED BY <3>1, <3>2, <1>3, NilAssumption
  <2>2. CASE ~\E e \in Entity : new[e] = o
    BY <2>2, <1>1 DEF StoreInv, StorePart, StoreTypes
  <2> QED BY <2>1, <2>2
<1>5. StoreTypes'
  BY <1>1, <1>2, <1>4 DEF StoreInv, StorePart, StoreTypes
<1>6. Home'
  BY <1>1, <1>3 DEF Home
<1>7. DbMirrors'
  <2> SUFFICES ASSUME ~flaky, NEW e \in Entity
               PROVE  db[e] = IF new[e] = Nil THEN Nil ELSE Persisted(heap'[new[e]])
    BY <1>1, <1>2 DEF DbMirrors
  <2>1. CASE new[e] = Nil
    BY <2>1, <1>1
  <2>2. CASE new[e] # Nil
    <3>1. db[e] \in Row /\ db[e] # Nil /\ heap'[new[e]] = Loaded(e)
      BY <2>2, <1>1, <1>3
    <3>2. states[e] # Nil /\ db[e] = Persisted(heap[states[e]])
      BY <3>1 DEF StoreInv, StorePart, DbMirrors
    <3>3. heap[states[e]] \in State
      BY <3>2 DEF StoreInv, StorePart, StoreTypes
    <3>4. Json[db[e].desired] = db[e].desired /\ Json[db[e].actual] = db[e].actual
      BY <3>2, <3>3, JsonAssumption DEF Persisted, State
    <3>5. Persisted(Loaded(e)) = db[e]
      BY <3>1, <3>4 DEF Persisted, Row
    <3> QED BY <2>2, <3>1, <3>5
  <2> QED BY <2>1, <2>2
<1>8. LoopPart'
  BY DEF StoreInv, LoopPart, Restart, AtObject
<1> QED BY <1>5, <1>6, <1>7, <1>8 DEF StoreInv, StorePart

-----------------------------------------------------------------------------
LEMMA StoreInvariant == Spec => []StoreInv
<1>1. StoreInv /\ [Next]_vars => StoreInv'
  <2>1. StoreInv /\ UNCHANGED vars => StoreInv'
    <3> SUFFICES ASSUME StoreInv, UNCHANGED vars PROVE StoreInv'
      OBVIOUS
    <3>1. StorePart'
      BY StoreUntouched DEF StoreInv, vars, process
    <3>2. LoopPart'
      BY LoopUntouched DEF StoreInv, LoopPart, vars, process
    <3> QED BY <3>1, <3>2 DEF StoreInv
  <2> QED BY <2>1, CallKeeps, DetectKeeps, RepairKeeps, RestartKeeps DEF Next
<1> QED BY <1>1, InitInv, PTL DEF Spec

\* Every variable keeps its type (layer4/state_store.go).
THEOREM TypeCorrect == Spec => []TypeOK
<1>1. StoreInv => TypeOK
  BY DEF StoreInv, StorePart, StoreTypes, LoopPart, TypeOK
<1> QED BY <1>1, StoreInvariant, PTL

\* The entity_state_persistent table mirrors the store as long as statements
\* succeed, for any number of entities, goroutines, snapshots and restarts
\* (persistToDB and deleteFromDB under the store's lock).
THEOREM DbMirrorsHolds == Spec => []DbMirrors
<1>1. StoreInv => DbMirrors
  BY DEF StoreInv, StorePart
<1> QED BY <1>1, StoreInvariant, PTL


-----------------------------------------------------------------------------
\* A step after which every entity that stays has the same content, or a
\* greater version.
Grows == \A e \in Entity : states[e] # Nil /\ states'[e] # Nil =>
  \/ Content(heap', states'[e]) = Content(heap, states[e])
  \/ heap'[states'[e]].version > heap[states[e]].version

\* A new object has a version above that of the object it replaces.
LEMMA SetGrows ==
  ASSUME StorePart, NEW o \in Object, NEW s \in State, Set(o, s),
         \A f \in Entity : states[f] = o => f = s.entity
  PROVE  Grows
<1> DEFINE old == states[s.entity]
           new == [s EXCEPT !.version = IF old = Nil THEN 1 ELSE heap[old].version + 1]
<1>1. s.entity \in Entity /\ heap \in [Object -> State]
      /\ states \in [Entity -> Object \cup {Nil}]
  BY DEF State, StorePart, StoreTypes
<1>2. heap' = [heap EXCEPT ![o] = new] /\ states' = [states EXCEPT ![s.entity] = o]
  BY DEF Set
<1>3. old # Nil => new.version = heap[old].version + 1
  BY DEF State
<1> SUFFICES ASSUME NEW e \in Entity, states[e] # Nil
             PROVE  \/ Content(heap', states'[e]) = Content(heap, states[e])
                    \/ heap'[states'[e]].version > heap[states[e]].version
  BY DEF Grows
<1>4. CASE e = s.entity
  <2>1. heap'[states'[e]].version = heap[states[e]].version + 1
    BY <1>1, <1>2, <1>3, <1>4
  <2>2. heap[states[e]].version \in Nat
    BY <1>1 DEF State
  <2> QED BY <2>1, <2>2
<1>5. CASE e # s.entity
  <2>1. states'[e] = states[e] /\ heap'[states[e]] = heap[states[e]]
    BY <1>1, <1>2, <1>5
  <2> QED BY <2>1 DEF Content
<1> QED BY <1>4, <1>5

\* A change in place is of one entity, for no two share an object.
LEMMA ChangeGrows ==
  ASSUME StorePart, NEW e \in Entity, states[e] # Nil, NEW s \in State,
         s.version = heap[states[e]].version, Change(e, s), UNCHANGED states
  PROVE  Grows
<1> DEFINE new == [s EXCEPT !.version = @ + 1]
<1>1. heap \in [Object -> State] /\ states[e] \in Object
      /\ states \in [Entity -> Object \cup {Nil}]
  BY DEF StorePart, StoreTypes
<1>2. heap' = [heap EXCEPT ![states[e]] = new]
  BY DEF Change
<1>3. new.version = heap[states[e]].version + 1
  BY DEF State
<1> SUFFICES ASSUME NEW f \in Entity, states[f] # Nil
             PROVE  \/ Content(heap', states'[f]) = Content(heap, states[f])
                    \/ heap'[states'[f]].version > heap[states[f]].version
  BY DEF Grows
<1>4. CASE f = e
  <2>1. heap'[states'[f]].version = heap[states[f]].version + 1
    BY <1>1, <1>2, <1>3, <1>4
  <2>2. heap[states[f]].version \in Nat
    BY <1>1, <1>4 DEF State
  <2> QED BY <2>1, <2>2
<1>5. CASE f # e
  <2>1. states[f] # states[e]
    BY <1>5 DEF StorePart, Home
  <2>2. heap'[states'[f]] = heap[states[f]] /\ states'[f] = states[f]
    BY <2>1, <1>1, <1>2
  <2> QED BY <2>2 DEF Content
<1> QED BY <1>4, <1>5

\* A step that leaves the objects alone, and removes at most, or notes drift.
LEMMA UntouchedGrows ==
  ASSUME UNCHANGED heap,
         \A e \in Entity : states'[e] \in {states[e], Nil}
  PROVE  Grows
BY DEF Grows, Content

LEMMA DriftGrows ==
  ASSUME StorePart, NEW o \in Object, NEW d \in BOOLEAN,
         heap' = [heap EXCEPT ![o].drift = d], UNCHANGED states
  PROVE  Grows
<1>1. \A p \in Object : /\ heap'[p].desired = heap[p].desired
                        /\ heap'[p].actual = heap[p].actual
                        /\ heap'[p].version = heap[p].version
  BY DEF StorePart, StoreTypes, State
<1> QED BY <1>1 DEF Grows, Content, StorePart, StoreTypes

LEMMA CallGrows == StoreInv /\ Call => Grows
<1> SUFFICES ASSUME StoreInv, Call PROVE Grows
  OBVIOUS
<1>1. ASSUME NEW e \in Entity, NEW d \in Value, NEW a \in Value, SetEntityState(e, d, a)
      PROVE  Grows
  <2> DEFINE s == [entity |-> e, desired |-> d, actual |-> a, version |-> 0,
                   drift |-> FALSE]
  <2>1. PICK o \in Object \ Reachable : Set(o, s)
    BY <1>1 DEF SetEntityState
  <2>2. s \in State
    BY DEF State
  <2>3. \A f \in Entity : states[f] # o
    BY <2>1 DEF Reachable
  <2> QED BY <2>1, <2>2, <2>3, SetGrows DEF StoreInv
<1>2. ASSUME NEW e \in Entity, NEW v \in Value, UpdateDesiredState(e, v)
      PROVE  Grows
  <2> DEFINE s == [heap[states[e]] EXCEPT !.desired = v]
  <2>1. states[e] # Nil /\ states[e] \in Object
    BY <1>2 DEF UpdateDesiredState, StoreInv, StorePart, StoreTypes
  <2>2. s \in State /\ s.version = heap[states[e]].version
    BY <2>1 DEF StoreInv, StorePart, StoreTypes, State
  <2> QED BY <2>1, <2>2, <1>2, ChangeGrows DEF StoreInv, UpdateDesiredState
<1>3. ASSUME NEW e \in Entity, NEW v \in Value, UpdateActualState(e, v)
      PROVE  Grows
  <2> DEFINE s == [heap[states[e]] EXCEPT !.actual = v]
  <2>1. states[e] # Nil /\ states[e] \in Object
    BY <1>3 DEF UpdateActualState, StoreInv, StorePart, StoreTypes
  <2>2. s \in State /\ s.version = heap[states[e]].version
    BY <2>1 DEF StoreInv, StorePart, StoreTypes, State
  <2> QED BY <2>1, <2>2, <1>3, ChangeGrows DEF StoreInv, UpdateActualState
<1>4. ASSUME NEW e \in Entity, Delete(e) PROVE Grows
  BY <1>4, UntouchedGrows DEF StoreInv, StorePart, StoreTypes, Delete
<1>5. ASSUME NEW s \in Snap, CreateSnapshot(s) \/ DeleteSnapshot(s) PROVE Grows
  BY <1>5, UntouchedGrows DEF CreateSnapshot, DeleteSnapshot
<1> QED BY <1>1, <1>2, <1>3, <1>4, <1>5 DEF Call

LEMMA LoopsGrow == StoreInv /\ (Detect \/ Repair) => Grows
<1> SUFFICES ASSUME StoreInv, Detect \/ Repair PROVE Grows
  OBVIOUS
<1>1. ASSUME NEW t \in Goroutine, NEW O, NEW f, StartLoop(t, O, f) PROVE Grows
  BY <1>1, UntouchedGrows DEF StartLoop
<1>2. ASSUME NEW t \in Goroutine, NEW o \in Object, ReadDesired(t, o) PROVE Grows
  BY <1>2, UntouchedGrows DEF ReadDesired
<1>3. ASSUME NEW t \in Goroutine, NoteDrift(t) PROVE Grows
  <2>1. cur[t] \in Object
    BY <1>3 DEF NoteDrift, StoreInv, LoopPart, AtObject
  <2> DEFINE d == desired[t] # heap[cur[t]].actual
  <2>2. CASE d \/ force[t]
    <3>1. heap' = [heap EXCEPT ![cur[t]].drift = d] /\ UNCHANGED states
      BY <2>2, <1>3 DEF NoteDrift
    <3> QED BY <3>1, <2>1, DriftGrows DEF StoreInv
  <2>3. CASE ~(d \/ force[t])
    BY <2>3, <1>3, UntouchedGrows DEF NoteDrift
  <2> QED BY <2>2, <2>3
<1>4. ASSUME NEW t \in Goroutine, StoreDrift(t) PROVE Grows
  <2>1. cur[t] \in Object
    BY <1>4 DEF StoreDrift, StoreInv, LoopPart, AtObject
  <2>2. heap[cur[t]] \in State
    BY <2>1 DEF StoreInv, StorePart, StoreTypes
  <2>3. \A f \in Entity : states[f] = cur[t] => f = heap[cur[t]].entity
    BY <2>1, NilAssumption DEF StoreInv, StorePart, Home
  <2> QED BY <2>1, <2>2, <2>3, <1>4, SetGrows DEF StoreInv, StoreDrift
<1>5. ASSUME NEW t \in Goroutine, Reconcile(t) PROVE Grows
  <2>1. cur[t] \in Object /\ desired[t] \in Value
    BY <1>5 DEF Reconcile, StoreInv, LoopPart, AtObject
  <2> DEFINE e == heap[cur[t]].entity
             s == [heap[states[e]] EXCEPT !.desired = desired[t]]
  <2>2. e \in Entity
    BY <2>1 DEF StoreInv, StorePart, StoreTypes, State
  <2>3. states[e] # Nil /\ Change(e, s) /\ UNCHANGED states
    BY <1>5 DEF Reconcile
  <2>4. states[e] \in Object
    BY <2>2, <2>3 DEF StoreInv, StorePart, StoreTypes
  <2>5. s \in State /\ s.version = heap[states[e]].version
    BY <2>1, <2>4 DEF StoreInv, StorePart, StoreTypes, State
  <2> HIDE DEF e, s
  <2> QED BY <2>2, <2>3, <2>5, ChangeGrows DEF StoreInv
<1>6. ASSUME NEW t \in Goroutine, ReconcileFails(t) PROVE Grows
  BY <1>6, UntouchedGrows DEF ReconcileFails
<1>7. Detector \subseteq Goroutine /\ Reconciler \subseteq Goroutine
  BY DEF Goroutine
<1> QED
  BY <1>1, <1>2, <1>3, <1>4, <1>5, <1>6, <1>7
  DEF Detect, Repair, DetectDrift, DetectAllDrift, ReconcileAll

\* A restart reads every state back as it was written.
LEMMA RestartReadsBack ==
  ASSUME StoreInv, StoreInv', Restart, ~flaky, NEW e \in Entity,
         states[e] # Nil, states'[e] # Nil
  PROVE  Persisted(heap'[states'[e]]) = Persisted(heap[states[e]])
<1>1. db[e] = Persisted(heap[states[e]])
  BY DEF StoreInv, StorePart, DbMirrors
<1>2. db'[e] = Persisted(heap'[states'[e]])
  BY DEF StoreInv, StorePart, DbMirrors, Restart
<1>3. db' = db
  BY DEF Restart
<1> QED BY <1>1, <1>2, <1>3

\* A version of an entity in the store stands for one content and versions only
\* grow, whatever detectors and reconcilers write to objects they hold from
\* before; a restart changes a state only to what it reads back as, as long as
\* statements succeed (Set, UpdateDesiredState, UpdateActualState, loadFromDB).
THEOREM VersionsTellHolds == Spec => VersionsTell
<1> DEFINE Told(e) == states[e] # Nil /\ states'[e] # Nil =>
      \/ Content(heap, states[e])' = Content(heap, states[e])
      \/ heap'[states'[e]].version > heap[states[e]].version
      \/ /\ restarts' # restarts
         /\ flaky \/ Persisted(heap[states[e]])' = Persisted(heap[states[e]])
<1>1. StoreInv /\ StoreInv' /\ [Next]_vars => [\A e \in Entity : Told(e)]_vars
  <2> SUFFICES ASSUME StoreInv, StoreInv', Next, NEW e \in Entity
               PROVE  Told(e)
    OBVIOUS
  <2>1. CASE Grows
    BY <2>1 DEF Grows, Content
  <2>2. CASE Restart
    <3>1. restarts' # restarts
      BY <2>2 DEF Restart, StoreInv, LoopPart
    <3>2. ~flaky /\ states[e] # Nil /\ states'[e] # Nil =>
            Persisted(heap'[states'[e]]) = Persisted(heap[states[e]])
      BY <2>2, RestartReadsBack
    <3> QED BY <3>1, <3>2 DEF Persisted
  <2> QED BY <2>1, <2>2, CallGrows, LoopsGrow DEF Next
<1>2. Spec => [][\A e \in Entity : Told(e)]_vars
  BY <1>1, StoreInvariant, PTL DEF Spec
<1> QED BY <1>2 DEF VersionsTell
=============================================================================
