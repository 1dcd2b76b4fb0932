--------------------------- MODULE CatalogProofs ---------------------------
(* Theorems about Catalog, for every value of its constants. *)
EXTENDS Catalog, TLAPS

\* What is registered for an ID is an object with that ID.
Home == \A e \in Id : entities[e] # Nil => heap[entities[e]].id = e

\* A caller that got an object holds that one only.
Single == \A t \in Goroutine : pc[t] \in {"got", "changed"} =>
  \E o \in Object : held[t] = {o}

\* ForceDeregister has an entity to remove.
Targeted == \A t \in Goroutine : pc[t] = "force" => target[t] \in Id

CatalogTypes ==
  /\ heap \in [Object -> Entity]
  /\ entities \in [Id -> Object \cup {Nil}]
  /\ index \in [Id -> [Key -> Nat]]

CallerTypes ==
  /\ pc \in [Goroutine -> {"idle", "got", "changed", "force"}]
  /\ held \in [Goroutine -> SUBSET Object]
  /\ target \in [Goroutine -> Id \cup {Nil}]

\* The part of the invariant about the catalog and the part about its callers.
CatalogPart == CatalogTypes /\ Home /\ TypesExact /\ Listed
CallerPart  == CallerTypes /\ Single /\ Targeted

CatalogInv == CatalogPart /\ CallerPart

-----------------------------------------------------------------------------
\* How often an entity is listed: once under its type.
LEMMA EntriesFacts ==
  ASSUME NEW r \in Entity
  PROVE  /\ Entries(r) \in [Key -> Nat]
         /\ \A ty \in Type : Entries(r)[ty] = IF r.type = ty THEN 1 ELSE 0
<1>1. Entries(r) \in [Key -> Nat]
  BY DEF Entries, Entity, Key
<1>2. ASSUME NEW ty \in Type
      PROVE  Entries(r)[ty] = IF r.type = ty THEN 1 ELSE 0
  <2>1. ty \in Key /\ ty \notin Adapter /\ ty # r.state
    BY KeyAssumption DEF Key, Entity
  <2> QED BY <2>1 DEF Entries
<1> QED BY <1>1, <1>2

\* Once the registered object is unlisted the ID is under no type.
LEMMA UnlistedFacts ==
  ASSUME CatalogTypes, TypesExact, NEW e \in Id
  PROVE  /\ Unlisted(e) \in [Key -> Nat]
         /\ \A ty \in Type : Unlisted(e)[ty] = 0
<1> DEFINE out == [k \in Key |->
             IF entities[e] = Nil THEN 0 ELSE Entries(heap[entities[e]])[k]]
<1>1. out \in [Key -> Nat]
  BY EntriesFacts DEF CatalogTypes
<1>2. index[e] \in [Key -> Nat]
  BY DEF CatalogTypes
<1>3. Unlisted(e) = [k \in Key |-> Without(index[e][k], out[k])]
  BY DEF Unlisted
<1> HIDE DEF out
<1>4. \A m, n \in Nat : Without(m, n) \in Nat /\ Without(m, m) = 0
  BY DEF Without
<1>5. Unlisted(e) \in [Key -> Nat]
  BY <1>1, <1>2, <1>3, <1>4
<1>6. ASSUME NEW ty \in Type PROVE Unlisted(e)[ty] = 0
  <2>1. ty \in Key
    BY DEF Key
  <2>2. out[ty] = index[e][ty]
    <3>1. CASE entities[e] = Nil
      BY <3>1, <2>1 DEF out, TypesExact
    <3>2. CASE entities[e] # Nil
      <4>1. heap[entities[e]] \in Entity
        BY <3>2 DEF CatalogTypes
      <4> QED BY <3>2, <4>1, <2>1, EntriesFacts DEF out, TypesExact
    <3> QED BY <3>1, <3>2
  <2> QED BY <2>1, <2>2, <1>2, <1>3, <1>4
<1> QED BY <1>5, <1>6

-----------------------------------------------------------------------------
\* Register keeps the catalog's part: the object it registers is new, or it is
\* on the heap as it is.
LEMMA RegisterKeeps ==
  ASSUME CatalogPart, NEW o \in Object, NEW r \in Entity, Register(o, r),
         heap' \in [Object -> Entity], heap'[o] = r,
         \A e \in Id : entities[e] # Nil => heap'[entities[e]] = heap[entities[e]],
         \A e \in Id : e # r.id /\ Changing(e) => Changing(e)'
  PROVE  CatalogPart'
<1> DEFINE e == r.id
<1>1. e \in Id
  BY DEF Entity
<1>2. /\ entities' = [entities EXCEPT ![e] = o]
      /\ index' = [index EXCEPT ![e] = [k \in Key |-> Unlisted(e)[k] + Entries(r)[k]]]
  BY DEF Register
<1>3. /\ Unlisted(e) \in [Key -> Nat]
      /\ \A ty \in Type : Unlisted(e)[ty] = 0
  BY <1>1, UnlistedFacts DEF CatalogPart
<1>4. /\ Entries(r) \in [Key -> Nat]
      /\ \A ty \in Type : Entries(r)[ty] = IF r.type = ty THEN 1 ELSE 0
  BY EntriesFacts
<1>5. entities'[e] = o /\ o # Nil
  BY <1>1, <1>2, NilAssumption DEF CatalogPart, CatalogTypes
<1>6. \A k \in Key : index'[e][k] = Unlisted(e)[k] + Entries(r)[k]
  BY <1>1, <1>2 DEF CatalogPart, CatalogTypes
<1>7. \A f \in Id : f # e => entities'[f] = entities[f] /\ index'[f] = index[f]
  BY <1>2 DEF CatalogPart, CatalogTypes
<1> HIDE DEF e
<1>8. CatalogTypes'
  BY <1>1, <1>2, <1>3, <1>4 DEF CatalogPart, CatalogTypes
<1>9. Home'
  BY <1>1, <1>5, <1>7 DEF CatalogPart, Home, e
<1>10. TypesExact'
  <2> SUFFICES ASSUME NEW f \in Id, NEW ty \in Type
               PROVE  index'[f][ty] = IF entities'[f] # Nil /\ heap'[entities'[f]].type = ty
                                        THEN 1 ELSE 0
    BY DEF TypesExact
  <2>1. CASE f = e
    <3>1. ty \in Key
      BY DEF Key
    <3> QED BY <2>1, <3>1, <1>3, <1>4, <1>5, <1>6
  <2>2. CASE f # e
    BY <2>2, <1>7 DEF CatalogPart, TypesExact
  <2> QED BY <2>1, <2>2
<1>11. Listed'
  <2> SUFFICES ASSUME NEW f \in Id, entities'[f] # Nil, ~Changing(f)', NEW k \in Key
               PROVE  index'[f][k] >= Entries(heap'[entities'[f]])[k]
    BY DEF Listed
  <2>1. CASE f = e
    BY <2>1, <1>3, <1>4, <1>5, <1>6
  <2>2. CASE f # e
    <3>1. ~Changing(f)
      BY <2>2 DEF e
    <3> QED BY <2>2, <3>1, <1>7 DEF CatalogPart, Listed
  <2> QED BY <2>1, <2>2
<1> QED BY <1>8, <1>9, <1>10, <1>11 DEF CatalogPart

\* Removal of a set of IDs keeps it too.
LEMMA RemoveKeeps ==
  ASSUME CatalogPart, NEW S \in SUBSET Id,
         entities' = [e \in Id |-> IF e \in S THEN Nil ELSE entities[e]],
         index' = [e \in Id |-> IF e \in S THEN Unlisted(e) ELSE index[e]],
         heap' = heap,
         \A e \in Id \ S : Changing(e) => Changing(e)'
  PROVE  CatalogPart'
<1>1. \A e \in Id : /\ Unlisted(e) \in [Key -> Nat]
                    /\ \A ty \in Type : Unlisted(e)[ty] = 0
  BY UnlistedFacts DEF CatalogPart
<1>2. CatalogTypes'
  BY <1>1 DEF CatalogPart, CatalogTypes
<1>3. Home'
  BY DEF CatalogPart, Home
<1>4. TypesExact'
  BY <1>1 DEF CatalogPart, TypesExact
<1>5. Listed'
  <2> SUFFICES ASSUME NEW f \in Id, entities'[f] # Nil, ~Changing(f)', NEW k \in Key
               PROVE  index'[f][k] >= Entries(heap'[entities'[f]])[k]
    BY DEF Listed
  <2>1. f \notin S
    OBVIOUS
  <2> QED BY <2>1 DEF CatalogPart, Listed
<1> QED BY <1>2, <1>3, <1>4, <1>5 DEF CatalogPart

\* So does a change of an object by a caller that is at "changed" from then on,
\* and whatever leaves the catalog alone.
LEMMA ChangeKeeps ==
  ASSUME CatalogInv, NEW t \in Goroutine, NEW o \in Object, NEW r \in Entity,
         r.id = heap[o].id, r.type = heap[o].type, Change(t, o, r)
  PROVE  CatalogInv'
<1>1. /\ heap' = [heap EXCEPT ![o] = r]
      /\ o \in held[t] /\ pc[t] = "got"
      /\ pc' = [pc EXCEPT ![t] = "changed"]
      /\ UNCHANGED <<entities, index, held, target>>
  BY DEF Change, Goto
<1>2. CatalogTypes'
  BY <1>1 DEF CatalogInv, CatalogPart, CatalogTypes
<1>3. \A p \in Object : heap'[p].id = heap[p].id /\ heap'[p].type = heap[p].type
  BY <1>1 DEF CatalogInv, CatalogPart, CatalogTypes
<1>4. Home' /\ TypesExact'
  BY <1>1, <1>3 DEF CatalogInv, CatalogPart, CatalogTypes, Home, TypesExact
<1>5. CallerPart'
  BY <1>1 DEF CatalogInv, CallerPart, CallerTypes, Single, Targeted
<1>6. Listed'
  <2> SUFFICES ASSUME NEW f \in Id, entities'[f] # Nil, ~Changing(f)', NEW k \in Key
               PROVE  index'[f][k] >= Entries(heap'[entities'[f]])[k]
    BY DEF Listed
  <2>1. pc'[t] = "changed" /\ held' = held /\ entities' = entities
    BY <1>1 DEF CatalogInv, CallerPart, CallerTypes
  <2>2. entities[f] # o
    BY <2>1, <1>1 DEF Changing
  <2>3. heap'[entities[f]] = heap[entities[f]]
    BY <2>1, <2>2, <1>1 DEF CatalogInv, CatalogPart, CatalogTypes
  <2>4. ~Changing(f)
    BY <2>1, <1>1 DEF Changing, CatalogInv, CallerPart, CallerTypes
  <2> QED BY <2>1, <2>3, <2>4, <1>1 DEF CatalogInv, CatalogPart, Listed
<1> QED BY <1>2, <1>4, <1>5, <1>6 DEF CatalogInv, CatalogPart

LEMMA CatalogUntouched ==
  ASSUME CatalogPart, UNCHANGED <<heap, entities, index>>,
         \A e \in Id : Changing(e) => Changing(e)'
  PROVE  CatalogPart'
BY DEF CatalogPart, CatalogTypes, Home, TypesExact, Listed

-----------------------------------------------------------------------------
LEMMA InitInv == Init => CatalogInv
<1> SUFFICES ASSUME Init PROVE CatalogInv
  OBVIOUS
<1>1. CatalogTypes
  BY KeyAssumption DEF Init, CatalogTypes, Entity
<1>2. Home /\ TypesExact /\ Listed
  <2>1. \A e \in Id : entities[e] = Nil
    BY DEF Init
  <2>2. \A e \in Id, ty \in Type : index[e][ty] = 0
    BY DEF Init, Key
  <2> QED BY <2>1, <2>2 DEF Home, TypesExact, Listed
<1>3. CallerPart
  BY DEF Init, CallerPart, CallerTypes, Single, Targeted
<1> QED BY <1>1, <1>2, <1>3 DEF CatalogInv, CatalogPart

\* A new object is nobody's.
LEMMA CreateKeeps ==
  ASSUME CatalogInv, NEW o \in Object, NEW r \in Entity, Create(o, r),
         \A e \in Id : Changing(e) => \E t \in Goroutine :
           pc'[t] = "changed" /\ entities[e] \in held'[t]
  PROVE  CatalogPart'
<1>1. /\ heap' = [heap EXCEPT ![o] = r]
      /\ Register(o, r)
      /\ \A e \in Id : entities[e] # o
  BY DEF Create, Reachable
<1>2. heap' \in [Object -> Entity] /\ heap'[o] = r
  BY <1>1 DEF CatalogInv, CatalogPart, CatalogTypes
<1>3. \A e \in Id : entities[e] # Nil => heap'[entities[e]] = heap[entities[e]]
  BY <1>1 DEF CatalogInv, CatalogPart, CatalogTypes
<1>4. \A e \in Id : e # r.id => entities'[e] = entities[e]
  BY <1>1 DEF Register, CatalogInv, CatalogPart, CatalogTypes
<1>5. \A e \in Id : e # r.id /\ Changing(e) => Changing(e)'
  BY <1>4 DEF Changing
<1> QED BY <1>1, <1>2, <1>3, <1>5, RegisterKeeps DEF CatalogInv

LEMMA EnterKeeps == CatalogInv /\ Enter => CatalogInv'
<1> SUFFICES ASSUME CatalogInv, NEW e \in Id, NEW ty \in Type,
                    \/ \E A \in SUBSET Adapter : RegisterNew(e, ty, A)
                    \/ \E t \in Goroutine, s \in State : Discover(t, e, ty, s)
             PROVE  CatalogInv'
  BY DEF Enter
<1>1. ASSUME NEW A \in SUBSET Adapter, RegisterNew(e, ty, A) PROVE CatalogInv'
  <2> DEFINE r == [id |-> e, type |-> ty, state |-> Unknown,
                   adapters |-> [a \in Adapter |-> IF a \in A THEN 1 ELSE 0]]
  <2>1. r \in Entity
    BY KeyAssumption DEF Entity
  <2>2. UNCHANGED <<pc, held, target>>
    BY <1>1 DEF RegisterNew
  <2>3. PICK o \in Object : Create(o, r)
    BY <1>1 DEF RegisterNew
  <2> HIDE DEF r
  <2>4. CatalogPart'
    BY <2>1, <2>2, <2>3, CreateKeeps DEF Changing
  <2>5. CallerPart'
    BY <2>2 DEF CatalogInv, CallerPart, CallerTypes, Single, Targeted
  <2> QED BY <2>4, <2>5 DEF CatalogInv
<1>2. ASSUME NEW t \in Goroutine, NEW s \in State, Discover(t, e, ty, s)
      PROVE  CatalogInv'
  <2> DEFINE r == [id |-> e, type |-> ty, state |-> s,
                   adapters |-> [a \in Adapter |-> 0]]
  <2>1. r \in Entity
    BY DEF Entity
  <2>2. PICK o \in Object : Create(o, r) /\ held' = [held EXCEPT ![t] = {o}]
    BY <1>2 DEF Discover
  <2>3. pc[t] = "idle" /\ pc' = [pc EXCEPT ![t] = "got"] /\ UNCHANGED target
    BY <1>2 DEF Discover, Goto
  <2> HIDE DEF r
  <2>4. \A u \in Goroutine : pc[u] = "changed" => pc'[u] = "changed" /\ held'[u] = held[u]
    BY <2>2, <2>3 DEF CatalogInv, CallerPart, CallerTypes
  <2>5. CatalogPart'
    BY <2>1, <2>2, <2>4, CreateKeeps DEF Changing
  <2>6. CallerPart'
    BY <2>2, <2>3 DEF CatalogInv, CallerPart, CallerTypes, Single, Targeted
  <2> QED BY <2>5, <2>6 DEF CatalogInv
<1> QED BY <1>1, <1>2

-----------------------------------------------------------------------------
\* A caller registers an object it holds, and forgets it.
LEMMA RegisterHeldKeeps ==
  ASSUME CatalogInv, NEW t \in Goroutine, NEW o \in Object, o \in held[t],
         Register(o, heap[o]), heap' = heap,
         \A u \in Goroutine \ {t} : pc'[u] = pc[u] /\ held'[u] = held[u],
         pc[t] = "changed" => held[t] = {o}
  PROVE  CatalogPart'
<1> DEFINE r == heap[o]
<1>1. r \in Entity
  BY DEF CatalogInv, CatalogPart, CatalogTypes
<1>2. ASSUME NEW e \in Id, e # r.id, Changing(e) PROVE Changing(e)'
  <2>1. PICK u \in Goroutine : pc[u] = "changed" /\ entities[e] \in held[u]
    BY <1>2 DEF Changing
  <2>2. entities'[e] = entities[e]
    BY <1>1, <1>2 DEF Register, CatalogInv, CatalogPart, CatalogTypes
  <2>3. u # t
    <3>1. SUFFICES ASSUME u = t PROVE FALSE
      OBVIOUS
    <3>2. entities[e] = o
      BY <2>1, <3>1
    <3>3. heap[o].id = e
      BY <3>2, NilAssumption DEF CatalogInv, CatalogPart, Home
    <3> QED BY <3>3, <1>2
  <2> QED BY <2>1, <2>2, <2>3 DEF Changing
<1>3. heap' \in [Object -> Entity]
  BY DEF CatalogInv, CatalogPart, CatalogTypes
<1> QED BY <1>1, <1>2, <1>3, RegisterKeeps DEF CatalogInv

LEMMA AlterKeeps == CatalogInv /\ Alter => CatalogInv'
<1> SUFFICES ASSUME CatalogInv, NEW t \in Goroutine,
                    \/ \E e \in Id : Get(t, e)
                    \/ \E o \in Object :
                         \/ \E s \in State : UpdateState(t, o, s)
                         \/ \E A \in SUBSET Adapter : UpdateAdapters(t, o, A)
                         \/ \E a \in Adapter : AttachAdapter(t, o, a)
                         \/ RegisterAgain(t, o)
                    \/ GiveUp(t)
             PROVE  CatalogInv'
  BY DEF Alter
<1>1. ASSUME NEW e \in Id, Get(t, e) PROVE CatalogInv'
  <2>1. \A u \in Goroutine : pc[u] = "changed" => pc'[u] = "changed" /\ held'[u] = held[u]
    BY <1>1 DEF Get, Goto, CatalogInv, CallerPart, CallerTypes
  <2>2. CatalogPart'
    BY <1>1, <2>1, CatalogUntouched DEF Get, Changing, CatalogInv
  <2>3. entities[e] \in Object
    BY <1>1 DEF Get, CatalogInv, CatalogPart, CatalogTypes
  <2>4. CallerPart'
    BY <1>1, <2>3 DEF Get, Goto, CatalogInv, CallerPart, CallerTypes, Single, Targeted
  <2> QED BY <2>2, <2>4 DEF CatalogInv
<1>2. ASSUME NEW o \in Object, NEW s \in State, UpdateState(t, o, s) PROVE CatalogInv'
  <2> DEFINE r == [heap[o] EXCEPT !.state = s]
  <2>1. r \in Entity /\ r.id = heap[o].id /\ r.type = heap[o].type
    BY DEF CatalogInv, CatalogPart, CatalogTypes, Entity
  <2>2. Change(t, o, r)
    BY <1>2 DEF UpdateState
  <2> HIDE DEF r
  <2> QED BY <2>1, <2>2, ChangeKeeps
<1>3. ASSUME NEW o \in Object, NEW A \in SUBSET Adapter, UpdateAdapters(t, o, A)
      PROVE  CatalogInv'
  <2> DEFINE r == [heap[o] EXCEPT !.adapters = [a \in Adapter |-> IF a \in A THEN 1 ELSE 0]]
  <2>1. r \in Entity /\ r.id = heap[o].id /\ r.type = heap[o].type
    BY DEF CatalogInv, CatalogPart, CatalogTypes, Entity
  <2>2. Change(t, o, r)
    BY <1>3 DEF UpdateAdapters
  <2> HIDE DEF r
  <2> QED BY <2>1, <2>2, ChangeKeeps
<1>4. ASSUME NEW o \in Object, NEW a \in Adapter, AttachAdapter(t, o, a) PROVE CatalogInv'
  <2> DEFINE A == [heap[o].adapters EXCEPT ![a] = @ + 1]
             r == [heap[o] EXCEPT !.adapters = A]
  <2>1. r \in Entity /\ r.id = heap[o].id /\ r.type = heap[o].type
    <3>1. heap[o] \in Entity
      BY DEF CatalogInv, CatalogPart, CatalogTypes
    <3>2. A \in [Adapter -> Nat]
      BY <3>1 DEF Entity
    <3> QED BY <3>1, <3>2 DEF Entity
  <2>2. Change(t, o, r)
    BY <1>4 DEF AttachAdapter
  <2> HIDE DEF r
  <2> QED BY <2>1, <2>2, ChangeKeeps
<1>5. ASSUME NEW o \in Object, RegisterAgain(t, o) PROVE CatalogInv'
  <2>1. /\ pc[t] \in {"got", "changed"} /\ o \in held[t]
        /\ Register(o, heap[o])
        /\ held' = [held EXCEPT ![t] = {}]
        /\ pc' = [pc EXCEPT ![t] = "idle"]
        /\ UNCHANGED <<heap, target>>
    BY <1>5 DEF RegisterAgain, Goto
  <2>2. held[t] = {o}
    BY <2>1 DEF CatalogInv, CallerPart, Single
  <2>3. \A u \in Goroutine \ {t} : pc'[u] = pc[u] /\ held'[u] = held[u]
    BY <2>1 DEF CatalogInv, CallerPart, CallerTypes
  <2>4. CatalogPart'
    BY <2>1, <2>2, <2>3, RegisterHeldKeeps
  <2>5. CallerPart'
    BY <2>1 DEF CatalogInv, CallerPart, CallerTypes, Single, Targeted
  <2> QED BY <2>4, <2>5 DEF CatalogInv
<1>6. CASE GiveUp(t)
  <2>1. \A u \in Goroutine : pc[u] = "changed" => pc'[u] = "changed" /\ held'[u] = held[u]
    BY <1>6 DEF GiveUp, Goto, CatalogInv, CallerPart, CallerTypes
  <2>2. CatalogPart'
    BY <1>6, <2>1, CatalogUntouched DEF GiveUp, Changing, CatalogInv
  <2>3. CallerPart'
    BY <1>6 DEF GiveUp, Goto, CatalogInv, CallerPart, CallerTypes, Single, Targeted
  <2> QED BY <2>2, <2>3 DEF CatalogInv
<1> QED BY <1>1, <1>2, <1>3, <1>4, <1>5, <1>6

-----------------------------------------------------------------------------
\* One ID is unlisted, as Unregister does.
LEMMA UnregisterKeeps ==
  ASSUME CatalogPart, NEW e \in Id,
         entities' = [entities EXCEPT ![e] = Nil],
         index' = [index EXCEPT ![e] = Unlisted(e)],
         heap' = heap,
         \A u \in Goroutine : pc[u] = "changed" => pc'[u] = "changed" /\ held'[u] = held[u]
  PROVE  CatalogPart'
<1>1. /\ entities' = [f \in Id |-> IF f \in {e} THEN Nil ELSE entities[f]]
      /\ index' = [f \in Id |-> IF f \in {e} THEN Unlisted(f) ELSE index[f]]
  BY DEF CatalogPart, CatalogTypes
<1>2. \A f \in Id \ {e} : Changing(f) => Changing(f)'
  BY <1>1 DEF Changing
<1> QED BY <1>1, <1>2, RemoveKeeps

LEMMA LeaveKeeps == CatalogInv /\ Leave => CatalogInv'
<1> SUFFICES ASSUME CatalogInv, Leave PROVE CatalogInv'
  OBVIOUS
<1>1. ASSUME NEW e \in Id, Unregister(e) PROVE CatalogInv'
  <2>1. CatalogPart'
    BY <1>1, UnregisterKeeps DEF Unregister, CatalogInv
  <2>2. CallerPart'
    BY <1>1 DEF Unregister, CatalogInv, CallerPart, CallerTypes, Single, Targeted
  <2> QED BY <2>1, <2>2 DEF CatalogInv
<1>2. ASSUME NEW stale \in SUBSET Id, CleanupStale(stale) PROVE CatalogInv'
  <2>1. \A e \in Id \ stale : Changing(e) => Changing(e)'
    BY <1>2 DEF CleanupStale, Changing
  <2>2. CatalogPart'
    BY <1>2, <2>1, RemoveKeeps DEF CleanupStale, CatalogInv
  <2>3. CallerPart'
    BY <1>2 DEF CleanupStale, CatalogInv, CallerPart, CallerTypes, Single, Targeted
  <2> QED BY <2>2, <2>3 DEF CatalogInv
<1>3. ASSUME NEW t \in Goroutine, NEW e \in Id, NEW impacted \in SUBSET Id,
             ForceDeregister(t, e, impacted)
      PROVE  CatalogInv'
  <2>1. \A u \in Goroutine : pc[u] = "changed" => pc'[u] = "changed" /\ held'[u] = held[u]
    BY <1>3 DEF ForceDeregister, Goto, CatalogInv, CallerPart, CallerTypes
  <2>2. CatalogPart'
    BY <1>3, <2>1, CatalogUntouched DEF ForceDeregister, Changing, CatalogInv
  <2>3. {entities[f] : f \in impacted} \in SUBSET Object
    BY <1>3 DEF ForceDeregister, CatalogInv, CatalogPart, CatalogTypes
  <2>4. CallerPart'
    BY <1>3, <2>3 DEF ForceDeregister, Goto, CatalogInv, CallerPart, CallerTypes, Single, Targeted
  <2> QED BY <2>2, <2>4 DEF CatalogInv
<1>4. ASSUME NEW t \in Goroutine, NEW o \in Object, RegisterImpacted(t, o)
      PROVE  CatalogInv'
  <2>1. /\ pc[t] = "force" /\ o \in held[t]
        /\ Register(o, heap[o])
        /\ held' = [held EXCEPT ![t] = @ \ {o}]
        /\ UNCHANGED <<heap, pc, target>>
    BY <1>4 DEF RegisterImpacted
  <2>2. \A u \in Goroutine \ {t} : pc'[u] = pc[u] /\ held'[u] = held[u]
    BY <2>1 DEF CatalogInv, CallerPart, CallerTypes
  <2>3. CatalogPart'
    BY <2>1, <2>2, RegisterHeldKeeps
  <2>4. CallerPart'
    BY <2>1 DEF CatalogInv, CallerPart, CallerTypes, Single, Targeted
  <2> QED BY <2>3, <2>4 DEF CatalogInv
<1>5. ASSUME NEW t \in Goroutine, ForceUnregister(t) PROVE CatalogInv'
  <2>1. /\ pc[t] = "force"
        /\ pc' = [pc EXCEPT ![t] = "idle"]
        /\ target' = [target EXCEPT ![t] = Nil]
        /\ UNCHANGED <<heap, held>>
    BY <1>5 DEF ForceUnregister, Goto
  <2>2. \A u \in Goroutine : pc[u] = "changed" => pc'[u] = "changed" /\ held'[u] = held[u]
    BY <2>1 DEF CatalogInv, CallerPart, CallerTypes
  <2>3. CatalogPart'
    <3>1. CASE entities[target[t]] = Nil
      BY <3>1, <1>5, <2>1, <2>2, CatalogUntouched
      DEF ForceUnregister, Changing, CatalogInv
    <3>2. CASE entities[target[t]] # Nil
      <4>1. target[t] \in Id
        BY <2>1 DEF CatalogInv, CallerPart, Targeted
      <4> QED BY <3>2, <4>1, <1>5, <2>1, <2>2, UnregisterKeeps
              DEF ForceUnregister, CatalogInv
    <3> QED BY <3>1, <3>2
  <2>4. CallerPart'
    BY <2>1 DEF CatalogInv, CallerPart, CallerTypes, Single, Targeted
  <2> QED BY <2>3, <2>4 DEF CatalogInv
<1> QED BY <1>1, <1>2, <1>3, <1>4, <1>5 DEF Leave

-----------------------------------------------------------------------------
LEMMA CatalogInvariant == Spec => []CatalogInv
<1>1. CatalogInv /\ [Next]_vars => CatalogInv'
  <2>1. CatalogInv /\ UNCHANGED vars => CatalogInv'
    <3> SUFFICES ASSUME CatalogInv, UNCHANGED vars PROVE CatalogInv'
      OBVIOUS
    <3>1. CatalogPart'
      BY CatalogUntouched DEF CatalogInv, Changing, vars
    <3>2. CallerPart'
      BY DEF CatalogInv, CallerPart, CallerTypes, Single, Targeted, vars
    <3> QED BY <3>1, <3>2 DEF CatalogInv
  <2> QED BY <2>1, EnterKeeps, AlterKeeps, LeaveKeeps DEF Next
<1> QED BY <1>1, InitInv, PTL DEF Spec

\* Every variable keeps its type (layer2/catalog.go and its callers).
THEOREM TypeCorrect == Spec => []TypeOK
<1>1. CatalogInv => TypeOK
  BY DEF CatalogInv, CatalogPart, CatalogTypes, CallerPart, CallerTypes, TypeOK
<1> QED BY <1>1, CatalogInvariant, PTL

\* Every registered entity that nobody is changing can be found under each of
\* its keys, for any number of entities, objects and callers
\* (addToIndexes and removeFromIndexes under the catalog's lock).
THEOREM ListedHolds == Spec => []Listed
<1>1. CatalogInv => Listed
  BY DEF CatalogInv, CatalogPart
<1> QED BY <1>1, CatalogInvariant, PTL

\* The index by type lists exactly the registered entities, once each
\* (EntityCatalog.GetStats, ListByType).
THEOREM TypesExactHolds == Spec => []TypesExact
<1>1. CatalogInv => TypesExact
  BY DEF CatalogInv, CatalogPart
<1> QED BY <1>1, CatalogInvariant, PTL
=============================================================================
