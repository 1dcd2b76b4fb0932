----------------------------- MODULE StateStore -----------------------------
(***************************************************************************)
(* Entity states in layer 4: the store (layer4/state_store.go), drift      *)
(* detection and snapshots (manager.go, state_history.go) and the          *)
(* reconciliation loop (reconciliation_engine.go).                         *)
(*                                                                         *)
(* The store hands out pointers to the EntityState objects it keeps.  Each *)
(* of its operations runs under its lock, but the detector and the         *)
(* reconciler read and write the objects between two operations, and a     *)
(* snapshot keeps the pointers themselves.  So the objects live on a heap, *)
(* and a goroutine may hold an object that the store has since replaced    *)
(* or deleted.                                                             *)
(***************************************************************************)
EXTENDS Integers, FiniteSets

CONSTANTS
  Entity, Object, Snap,
  Value,       \* values of a desired or actual state
  Json,        \* what a value reads back as from the table
  Detector,    \* goroutines that run DetectDrift or DetectAllDrift
  Reconciler,  \* goroutines that run ReconcileAll
  Nil,
  MaxVersion,  \* bound on versions
  MaxRestarts  \* bound on restarts

ASSUME EntityAssumption == Entity # {} /\ Value # {}
ASSUME NilAssumption == Nil \notin Object /\ Nil \notin Value
\* A number comes back as float64; text and float64 come back as they were.
ASSUME JsonAssumption ==
  Json \in [Value -> Value] /\ \A v \in Value : Json[Json[v]] = Json[v]
ASSUME BoundsAssumption == MaxVersion \in Nat /\ MaxRestarts \in Nat

VARIABLES
  heap,      \* heap[o]: the EntityState at o
  states,    \* StateStore.states: entity to object, or Nil
  db,        \* the entity_state_persistent table: entity to row, or Nil
  snaps,     \* StateHistory.snapshots: a map like states, or Nil
  pc,        \* where each goroutine is
  todo,      \* the objects its loop has still to visit
  cur,       \* the object it is at
  desired,   \* the desired state it has read
  force,     \* DetectDrift (and not DetectAllDrift): store whatever the drift
  flaky,     \* whether statements may fail in this behaviour
  restarts

goroutine == <<pc, todo, cur, desired, force>>
process   == <<flaky, restarts>>
vars      == <<heap, states, db, snaps, goroutine, process>>

Goroutine == Detector \cup Reconciler
State == [entity : Entity, desired : Value, actual : Value, version : Nat,
          drift : BOOLEAN]
Row == [desired : Value, actual : Value, version : Nat]

\* What persistToDB writes of a state.
Persisted(s) == [desired |-> Json[s.desired], actual |-> Json[s.actual],
                 version |-> s.version]

Goto(t, l) == pc' = [pc EXCEPT ![t] = l]

\* The objects that something still points to.
Reachable ==
  {states[e] : e \in Entity} \cup {cur[t] : t \in Goroutine}
    \cup UNION {todo[t] : t \in Goroutine}
    \cup UNION {{snaps[s][e] : e \in Entity} : s \in {s \in Snap : snaps[s] # Nil}}

-----------------------------------------------------------------------------
Init ==
  /\ heap = [o \in Object |-> [entity |-> CHOOSE e \in Entity : TRUE,
                               desired |-> CHOOSE v \in Value : TRUE,
                               actual |-> CHOOSE v \in Value : TRUE,
                               version |-> 0, drift |-> FALSE]]
  /\ states = [e \in Entity |-> Nil]
  /\ db = [e \in Entity |-> Nil]
  /\ snaps = [s \in Snap |-> Nil]
  /\ pc = [t \in Goroutine |-> "idle"]
  /\ todo = [t \in Goroutine |-> {}]
  /\ cur = [t \in Goroutine |-> Nil]
  /\ desired = [t \in Goroutine |-> Nil]
  /\ force = [t \in Goroutine |-> FALSE]
  /\ flaky \in BOOLEAN
  /\ restarts = 0

-----------------------------------------------------------------------------
(* The store's operations *)

\* A statement that fails is reported and otherwise ignored.
Persist(e, r) == \/ db' = [db EXCEPT ![e] = r]
                 \/ flaky /\ UNCHANGED db

\* Mutant: the state keeps the version its object came with.
SetOwnVersion(o, s) ==
  /\ heap' = [heap EXCEPT ![o] = [s EXCEPT !.version = @ + 1]]
  /\ states' = [states EXCEPT ![s.entity] = o]
  /\ Persist(s.entity, Persisted(heap'[o]))

\* Set: object o, holding s, becomes the state of its entity.
Set(o, s) ==
  LET old == states[s.entity]
      new == [s EXCEPT !.version = IF old = Nil THEN 1 ELSE heap[old].version + 1]
  IN  /\ new.version <= MaxVersion
      /\ heap' = [heap EXCEPT ![o] = new]
      /\ states' = [states EXCEPT ![s.entity] = o]
      /\ Persist(s.entity, Persisted(new))

\* A caller sets a state of its own making.
SetEntityState(e, d, a) ==
  /\ \E o \in Object \ Reachable :
       Set(o, [entity |-> e, desired |-> d, actual |-> a, version |-> 0,
               drift |-> FALSE])
  /\ UNCHANGED <<snaps, goroutine, process>>

\* The common part of UpdateDesiredState and UpdateActualState: the object
\* that is in the store now is changed in place.
Change(e, s) ==
  LET new == [s EXCEPT !.version = @ + 1]
  IN  /\ new.version <= MaxVersion
      /\ heap' = [heap EXCEPT ![states[e]] = new]
      /\ Persist(e, Persisted(new))

UpdateDesiredState(e, v) ==
  /\ states[e] # Nil
  /\ Change(e, [heap[states[e]] EXCEPT !.desired = v])
  /\ UNCHANGED <<states, snaps, goroutine, process>>

UpdateActualState(e, v) ==
  /\ states[e] # Nil
  /\ Change(e, [heap[states[e]] EXCEPT !.actual = v])
  /\ UNCHANGED <<states, snaps, goroutine, process>>

\* Mutant: the row is left behind.
DeleteKeepsRow(e) ==
  /\ states[e] # Nil
  /\ states' = [states EXCEPT ![e] = Nil]
  /\ UNCHANGED <<heap, db, snaps, goroutine, process>>

Delete(e) ==
  /\ states[e] # Nil
  /\ states' = [states EXCEPT ![e] = Nil]
  /\ Persist(e, Nil)
  /\ UNCHANGED <<heap, snaps, goroutine, process>>

\* CreateSnapshot keeps the map that GetSystemState copied, and so the
\* store's own objects.
CreateSnapshot(s) ==
  /\ snaps[s] = Nil
  /\ snaps' = [snaps EXCEPT ![s] = states]
  /\ UNCHANGED <<heap, states, db, goroutine, process>>

DeleteSnapshot(s) ==
  /\ snaps[s] # Nil
  /\ snaps' = [snaps EXCEPT ![s] = Nil]
  /\ UNCHANGED <<heap, states, db, goroutine, process>>

-----------------------------------------------------------------------------
(* Loops over objects that were listed under the lock *)

StartLoop(t, objects, f) ==
  /\ pc[t] = "idle"
  /\ objects # {}
  /\ todo' = [todo EXCEPT ![t] = objects]
  /\ force' = [force EXCEPT ![t] = f]
  /\ Goto(t, "each")
  /\ UNCHANGED <<heap, states, db, snaps, cur, desired, process>>

\* The loop reads the desired state of its next object, without the lock.
ReadDesired(t, o) ==
  /\ pc[t] = "each"
  /\ o \in todo[t]
  /\ todo' = [todo EXCEPT ![t] = @ \ {o}]
  /\ cur' = [cur EXCEPT ![t] = o]
  /\ desired' = [desired EXCEPT ![t] = heap[o].desired]
  /\ Goto(t, "visit")
  /\ UNCHANGED <<heap, states, db, snaps, force, process>>

\* On to the next object; the locals are cleared.
Continue(t) ==
  /\ cur' = [cur EXCEPT ![t] = Nil]
  /\ desired' = [desired EXCEPT ![t] = Nil]
  /\ force' = [force EXCEPT ![t] = todo[t] # {} /\ @]
  /\ Goto(t, IF todo[t] = {} THEN "idle" ELSE "each")
  /\ UNCHANGED todo

-----------------------------------------------------------------------------
(* DetectDrift and DetectAllDrift *)

DetectDrift(t, e) == states[e] # Nil /\ StartLoop(t, {states[e]}, TRUE)

DetectAllDrift(t) == StartLoop(t, {states[e] : e \in Entity} \ {Nil}, FALSE)

\* The actual state is read and the drift noted in the object, without the
\* lock; DetectAllDrift stores nothing when there is no drift.
NoteDrift(t) ==
  /\ pc[t] = "visit"
  /\ LET drift == desired[t] # heap[cur[t]].actual
     IN  IF drift \/ force[t]
           THEN /\ heap' = [heap EXCEPT ![cur[t]].drift = drift]
                /\ Goto(t, "store")
                /\ UNCHANGED <<todo, cur, desired, force>>
           ELSE Continue(t) /\ UNCHANGED heap
  /\ UNCHANGED <<states, db, snaps, process>>

\* The object goes back into the store, whatever is there by now.
StoreDrift(t) ==
  /\ pc[t] = "store"
  /\ Set(cur[t], heap[cur[t]])
  /\ Continue(t)
  /\ UNCHANGED <<snaps, process>>

-----------------------------------------------------------------------------
(* ReconcileAll *)

ReconcileAll(t) ==
  StartLoop(t, {states[e] : e \in {e \in Entity :
                  states[e] # Nil /\ heap[states[e]].drift}}, FALSE)

\* The reconciler has succeeded: the desired state that was read is written
\* to the object that is in the store by now.
Reconcile(t) ==
  /\ pc[t] = "visit"
  /\ LET e == heap[cur[t]].entity
     IN  /\ states[e] # Nil
         /\ Change(e, [heap[states[e]] EXCEPT !.desired = desired[t]])
  /\ Continue(t)
  /\ UNCHANGED <<states, snaps, process>>

\* The entity is gone, has no reconciler, or its reconciler fails.
ReconcileFails(t) ==
  /\ pc[t] = "visit"
  /\ Continue(t)
  /\ UNCHANGED <<heap, states, db, snaps, process>>

-----------------------------------------------------------------------------
\* The process ends, and NewStateStore loads the table into new objects.
\* Snapshots and drift are not persisted.
Restart ==
  /\ restarts < MaxRestarts
  /\ restarts' = restarts + 1
  /\ \E new \in [Entity -> Object \cup {Nil}] :
       /\ \A e \in Entity : new[e] = Nil <=> db[e] = Nil
       /\ \A e, f \in Entity : new[e] = new[f] => e = f \/ new[e] = Nil
       /\ states' = new
       /\ heap' = [o \in Object |->
            IF \E e \in Entity : new[e] = o
              THEN LET e == CHOOSE e \in Entity : new[e] = o
                   IN  [entity |-> e, desired |-> db[e].desired,
                        actual |-> db[e].actual, version |-> db[e].version,
                        drift |-> FALSE]
              ELSE heap[o]]
  /\ snaps' = [s \in Snap |-> Nil]
  /\ pc' = [t \in Goroutine |-> "idle"]
  /\ todo' = [t \in Goroutine |-> {}]
  /\ cur' = [t \in Goroutine |-> Nil]
  /\ desired' = [t \in Goroutine |-> Nil]
  /\ force' = [t \in Goroutine |-> FALSE]
  /\ UNCHANGED <<db, flaky>>

Call ==
  \/ \E e \in Entity :
       \/ \E d, a \in Value : SetEntityState(e, d, a)
       \/ \E v \in Value : UpdateDesiredState(e, v) \/ UpdateActualState(e, v)
       \/ Delete(e)
  \/ \E s \in Snap : CreateSnapshot(s) \/ DeleteSnapshot(s)

Detect == \E t \in Detector :
  \/ \E e \in Entity : DetectDrift(t, e)
  \/ DetectAllDrift(t)
  \/ \E o \in Object : ReadDesired(t, o)
  \/ NoteDrift(t)
  \/ StoreDrift(t)

Repair == \E t \in Reconciler :
  \/ ReconcileAll(t)
  \/ \E o \in Object : ReadDesired(t, o)
  \/ Reconcile(t)
  \/ ReconcileFails(t)

Next == Call \/ Detect \/ Repair \/ Restart

Spec == Init /\ [][Next]_vars

-----------------------------------------------------------------------------
(* Properties *)

\* Every variable has its type.
TypeOK ==
  /\ heap \in [Object -> State]
  /\ states \in [Entity -> Object \cup {Nil}]
  /\ db \in [Entity -> Row \cup {Nil}]
  /\ snaps \in [Snap -> [Entity -> Object \cup {Nil}] \cup {Nil}]
  /\ pc \in [Goroutine -> {"idle", "each", "visit", "store"}]
  /\ todo \in [Goroutine -> SUBSET Object]
  /\ cur \in [Goroutine -> Object \cup {Nil}]
  /\ desired \in [Goroutine -> Value \cup {Nil}]
  /\ force \in [Goroutine -> BOOLEAN]
  /\ flaky \in BOOLEAN
  /\ restarts \in Nat

\* As long as no statement fails, the table holds exactly what the store
\* holds, although goroutines write to objects, and put back objects, that
\* the store had replaced or deleted.
DbMirrors == ~flaky => \A e \in Entity :
  db[e] = IF states[e] = Nil THEN Nil ELSE Persisted(heap[states[e]])

\* What a reader of an object sees, apart from drift.
Content(h, o) == IF o = Nil THEN Nil ELSE
  [desired |-> h[o].desired, actual |-> h[o].actual, version |-> h[o].version]

\* While an entity stays in the store a version never stands for two contents,
\* and versions only grow.  A restart may only swap values for what they read
\* back as, if no statement failed.
VersionsTell == [][\A e \in Entity : states[e] # Nil /\ states'[e] # Nil =>
  \/ Content(heap, states[e])' = Content(heap, states[e])
  \/ heap'[states'[e]].version > heap[states[e]].version
  \/ /\ restarts' # restarts
     /\ flaky \/ Persisted(heap[states[e]])' = Persisted(heap[states[e]])]_vars
=============================================================================
