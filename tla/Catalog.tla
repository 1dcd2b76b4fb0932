------------------------------ MODULE Catalog ------------------------------
(***************************************************************************)
(* The entity catalog of layer 2 (layer2/catalog.go) under the callers     *)
(* that share its objects: the registration API (registration.go),         *)
(* discovery (discovery.go, manager.go), the relationship mapper           *)
(* (relationship_mapper.go) and the bridge from layer 1                    *)
(* (integration/bridge.go).                                                *)
(*                                                                         *)
(* Each operation of the catalog runs under its lock.  But Get and List    *)
(* return pointers to the catalog's own objects: callers change an object  *)
(* first, without the lock, and register it afterwards, when the catalog   *)
(* takes the object as it is now for what it has indexed.                  *)
(*                                                                         *)
(* A write to an object in the middle of a Register of that object is a    *)
(* data race that Go leaves undefined; behaviours with one are left out.   *)
(***************************************************************************)
EXTENDS Integers

CONSTANTS
  Id, Object,
  Type, State, Adapter,  \* the keys of the three indexes
  Unknown,               \* the state of an entity that is registered by hand
  Goroutine,
  Nil,
  MaxListed              \* bound on the times an index lists an ID under a key

Key == Type \cup State \cup Adapter

ASSUME NilAssumption == Nil \notin Object /\ Nil \notin Id
ASSUME KeyAssumption ==
  /\ Type \cap State = {} /\ Type \cap Adapter = {} /\ State \cap Adapter = {}
  /\ Type # {} /\ Id # {}
  /\ Unknown \in State
ASSUME BoundAssumption == MaxListed \in Nat \ {0}

VARIABLES
  heap,      \* heap[o]: the Entity at o
  entities,  \* EntityCatalog.entities: ID to object, or Nil
  index,     \* byType, byState and byAdapter: how often index[e] lists e under a key
  pc,        \* where each goroutine is
  held,      \* the objects it has and will register
  target     \* what ForceDeregister will remove, or Nil

vars == <<heap, entities, index, pc, held, target>>

\* Entity.Adapters is a list and may name an adapter twice.
Entity == [id : Id, type : Type, state : State, adapters : [Adapter -> Nat]]

\* How often addToIndexes lists an entity, and removeFromIndexes looks for it.
Entries(r) == [k \in Key |->
  IF k \in Adapter THEN r.adapters[k]
  ELSE IF k = r.type \/ k = r.state THEN 1 ELSE 0]

\* removeFromSlice, n times: it removes what it finds.
Without(listed, n) == IF listed > n THEN listed - n ELSE 0

\* The listing of e after removeFromIndexes has looked at the object that is
\* registered for e, as it is now.
Unlisted(e) == [k \in Key |->
  Without(index[e][k], IF entities[e] = Nil THEN 0 ELSE Entries(heap[entities[e]])[k])]

Reachable == {entities[e] : e \in Id} \cup UNION {held[t] : t \in Goroutine}

Init ==
  /\ \E e \in Id, ty \in Type :
       heap = [o \in Object |-> [id |-> e, type |-> ty, state |-> Unknown,
                                adapters |-> [a \in Adapter |-> 0]]]
  /\ entities = [e \in Id |-> Nil]
  /\ index = [e \in Id |-> [k \in Key |-> 0]]
  /\ pc = [t \in Goroutine |-> "idle"]
  /\ held = [t \in Goroutine |-> {}]
  /\ target = [t \in Goroutine |-> Nil]

Goto(t, l) == pc' = [pc EXCEPT ![t] = l]

-----------------------------------------------------------------------------
(* The catalog *)

\* Mutant: an update leaves the old entries in place.
RegisterKeepsOld(o, r) ==
  /\ entities' = [entities EXCEPT ![r.id] = o]
  /\ index' = [index EXCEPT ![r.id] = [k \in Key |-> @[k] + Entries(r)[k]]]
  /\ \A k \in Key : index'[r.id][k] <= MaxListed

\* Register the object o, which holds r.
Register(o, r) ==
  /\ entities' = [entities EXCEPT ![r.id] = o]
  /\ index' = [index EXCEPT ![r.id] = [k \in Key |-> Unlisted(r.id)[k] + Entries(r)[k]]]
  /\ \A k \in Key : index'[r.id][k] <= MaxListed

\* Unregister, the last step of Deregister: whether other entities depend on
\* this one is left open.
Unregister(e) ==
  /\ entities[e] # Nil
  /\ index' = [index EXCEPT ![e] = Unlisted(e)]
  /\ entities' = [entities EXCEPT ![e] = Nil]
  /\ UNCHANGED <<heap, pc, held, target>>

\* CleanupStale: whatever has not been seen for long enough, in one go.
CleanupStale(stale) ==
  /\ \A e \in stale : entities[e] # Nil
  /\ index' = [e \in Id |-> IF e \in stale THEN Unlisted(e) ELSE index[e]]
  /\ entities' = [e \in Id |-> IF e \in stale THEN Nil ELSE entities[e]]
  /\ UNCHANGED <<heap, pc, held, target>>

-----------------------------------------------------------------------------
(* Registration and discovery of a new object *)

Create(o, r) ==
  /\ o \in Object \ Reachable
  /\ heap' = [heap EXCEPT ![o] = r]
  /\ Register(o, r)

\* RegistrationAPI.Register of a valid request; MapRelationships, if asked for, is a Get of its own.
RegisterNew(e, ty, A) ==
  /\ \E o \in Object :
       Create(o, [id |-> e, type |-> ty, state |-> Unknown,
                  adapters |-> [a \in Adapter |-> IF a \in A THEN 1 ELSE 0]])
  /\ UNCHANGED <<pc, held, target>>

\* DiscoveryEngine.Discover registers what a scanner found, whatever is there.
\* Manager.Discover registers the same object again once it has looked for
\* its capabilities.
Discover(t, e, ty, s) ==
  /\ pc[t] = "idle"
  /\ \E o \in Object :
       /\ Create(o, [id |-> e, type |-> ty, state |-> s,
                     adapters |-> [a \in Adapter |-> 0]])
       /\ held' = [held EXCEPT ![t] = {o}]
  /\ Goto(t, "got")
  /\ UNCHANGED target

-----------------------------------------------------------------------------
(* Callers that change an object they got *)

\* Get, by Update, UpdateState, AddCapability, AddRelationship, MapRelationships
\* and CreateAdapterForEntity; SyncAdapterHealth calls UpdateState by ID.
Get(t, e) ==
  /\ pc[t] = "idle"
  /\ entities[e] # Nil
  /\ held' = [held EXCEPT ![t] = {entities[e]}]
  /\ Goto(t, "got")
  /\ UNCHANGED <<heap, entities, index, target>>

\* Mutant: the object is not registered after the change.
ChangeUnregistered(t, o, r) ==
  /\ pc[t] = "got"
  /\ o \in held[t]
  /\ heap' = [heap EXCEPT ![o] = r]
  /\ held' = [held EXCEPT ![t] = {}]
  /\ Goto(t, "idle")
  /\ UNCHANGED <<entities, index, target>>

\* An indexed field of the object is assigned, without the lock.
Change(t, o, r) ==
  /\ pc[t] = "got"
  /\ o \in held[t]
  /\ heap' = [heap EXCEPT ![o] = r]
  /\ Goto(t, "changed")
  /\ UNCHANGED <<entities, index, held, target>>

\* UpdateState, for callers and for SyncAdapterHealth.
UpdateState(t, o, s) == Change(t, o, [heap[o] EXCEPT !.state = s])

\* Update with a list of adapters.
UpdateAdapters(t, o, A) ==
  Change(t, o, [heap[o] EXCEPT !.adapters = [a \in Adapter |-> IF a \in A THEN 1 ELSE 0]])

\* CreateAdapterForEntity appends an adapter, which may be there already.
AttachAdapter(t, o, a) ==
  /\ heap[o].adapters[a] < MaxListed
  /\ Change(t, o, [heap[o] EXCEPT !.adapters[a] = @ + 1])

\* The object goes back, changed or with no indexed field changed, whatever is
\* registered for its ID by now.
RegisterAgain(t, o) ==
  /\ pc[t] \in {"got", "changed"}
  /\ o \in held[t]
  /\ Register(o, heap[o])
  /\ held' = [held EXCEPT ![t] = {}]
  /\ Goto(t, "idle")
  /\ UNCHANGED <<heap, target>>

\* The target of a relationship does not exist; no probe for the type.
GiveUp(t) ==
  /\ pc[t] = "got"
  /\ held' = [held EXCEPT ![t] = {}]
  /\ Goto(t, "idle")
  /\ UNCHANGED <<heap, entities, index, target>>

-----------------------------------------------------------------------------
(* ForceDeregister *)

\* GetImpactedEntities: what depends on e, directly or not, is left open; on a
\* circle e is impacted itself.
ForceDeregister(t, e, impacted) ==
  /\ pc[t] = "idle"
  /\ entities[e] # Nil
  /\ \A f \in impacted : entities[f] # Nil
  /\ held' = [held EXCEPT ![t] = {entities[f] : f \in impacted}]
  /\ target' = [target EXCEPT ![t] = e]
  /\ Goto(t, "force")
  /\ UNCHANGED <<heap, entities, index>>

\* Without its relationships to e, an impacted object is registered again.
RegisterImpacted(t, o) ==
  /\ pc[t] = "force"
  /\ o \in held[t]
  /\ Register(o, heap[o])
  /\ held' = [held EXCEPT ![t] = @ \ {o}]
  /\ UNCHANGED <<heap, pc, target>>

ForceUnregister(t) ==
  /\ pc[t] = "force"
  /\ held[t] = {}
  /\ LET e == target[t]
     IN  IF entities[e] = Nil
           THEN UNCHANGED <<entities, index>>
           ELSE /\ index' = [index EXCEPT ![e] = Unlisted(e)]
                /\ entities' = [entities EXCEPT ![e] = Nil]
  /\ target' = [target EXCEPT ![t] = Nil]
  /\ Goto(t, "idle")
  /\ UNCHANGED <<heap, held>>

-----------------------------------------------------------------------------
Enter == \E e \in Id, ty \in Type :
  \/ \E A \in SUBSET Adapter : RegisterNew(e, ty, A)
  \/ \E t \in Goroutine, s \in State : Discover(t, e, ty, s)

Alter == \E t \in Goroutine :
  \/ \E e \in Id : Get(t, e)
  \/ \E o \in Object :
       \/ \E s \in State : UpdateState(t, o, s)
       \/ \E A \in SUBSET Adapter : UpdateAdapters(t, o, A)
       \/ \E a \in Adapter : AttachAdapter(t, o, a)
       \/ RegisterAgain(t, o)
  \/ GiveUp(t)

Leave ==
  \/ \E e \in Id : Unregister(e)
  \/ \E stale \in SUBSET Id \ {{}} : CleanupStale(stale)
  \/ \E t \in Goroutine :
       \/ \E e \in Id, impacted \in SUBSET Id : ForceDeregister(t, e, impacted)
       \/ \E o \in Object : RegisterImpacted(t, o)
       \/ ForceUnregister(t)

Next == Enter \/ Alter \/ Leave

Spec == Init /\ [][Next]_vars

-----------------------------------------------------------------------------
(* Properties *)

\* Every variable has its type.
TypeOK ==
  /\ heap \in [Object -> Entity]
  /\ entities \in [Id -> Object \cup {Nil}]
  /\ index \in [Id -> [Key -> Nat]]
  /\ pc \in [Goroutine -> {"idle", "got", "changed", "force"}]
  /\ held \in [Goroutine -> SUBSET Object]
  /\ target \in [Goroutine -> Id \cup {Nil}]

\* Somebody has changed the registered object of e and not yet registered it.
Changing(e) == \E t \in Goroutine : pc[t] = "changed" /\ entities[e] \in held[t]

\* ListByType, ListByState and ListByAdapter find every registered entity under
\* each of its keys, although entries are removed by keys that callers have
\* changed; SyncAdapterHealth relies on it.  Only a caller between its change
\* and its Register can hide an entity.
Listed == \A e \in Id : entities[e] # Nil /\ ~Changing(e) =>
  \A k \in Key : index[e][k] >= Entries(heap[entities[e]])[k]

\* The index by type is exact, also after an ID has been registered again with
\* another type: an entity is listed once under its type and nowhere else, and
\* nothing is left of one that is gone.  GetStats counts by it.
TypesExact == \A e \in Id, ty \in Type :
  index[e][ty] = IF entities[e] # Nil /\ heap[entities[e]].type = ty THEN 1 ELSE 0
=============================================================================
