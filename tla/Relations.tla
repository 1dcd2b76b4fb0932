------------------------------ MODULE Relations ------------------------------
(***************************************************************************)
(* The relationships between the entities of the catalog                   *)
(* (layer2/relationship_mapper.go), the operations of the registration API *)
(* that go by them (registration.go), and the searches along them: for a   *)
(* cycle, for what is impacted by a failure, for the graph of an entity.   *)
(*                                                                         *)
(* Module Catalog has the objects, the indexes and the steps of the other  *)
(* operations; here an operation is one step, except Deregister.           *)
(***************************************************************************)
EXTENDS Integers, FiniteSetsExt, SequencesExt

CONSTANTS
  Entity,
  MaxListed,  \* a bound on the relationships there are
  Nil

VARIABLES
  entities,   \* the IDs in the catalog
  rel,        \* Relationships
  asked,      \* the entity that Deregister found nobody to depend on
  added,      \* history: a dependency on it was recorded since then
  stranded    \* history: Deregister took an entity that, without that, is depended on

vars == <<entities, rel, asked, added, stranded>>

On(t)       == [type |-> "depends_on", to |-> t]
For(t)      == [type |-> "provides_to", to |-> t]
PartOf(t)   == [type |-> "part_of", to |-> t]
Relationship == [type : {"depends_on", "provides_to", "part_of"}, to : Entity]
None        == [e \in Entity |-> <<>>]
DependsOn(e, t) == Contains(rel[e], On(t))

Init ==
  /\ entities = {}
  /\ rel = None
  /\ asked = Nil
  /\ added = FALSE
  /\ stranded = FALSE

-----------------------------------------------------------------------------
(* The searches *)

\* collectImpactedEntities, with what of the catalog is still to look at (in the
\* order of a map) for entities that depend on "of".
Impact == [of : Entity, todo : SUBSET entities, impacted : SUBSET entities]
Collects[s \in Impact] ==
  IF s.todo = {} THEN s.impacted
  ELSE LET f     == CHOOSE f \in s.todo : TRUE
           found == IF f \notin s.impacted /\ DependsOn(f, s.of)
                      THEN Collects[[of |-> f, todo |-> entities, impacted |-> s.impacted \cup {f}]]
                      ELSE s.impacted
       IN  Collects[[of |-> s.of, todo |-> s.todo \ {f}, impacted |-> found]]

\* GetImpactedEntities
Impacted(e) == Collects[[of |-> e, todo |-> entities, impacted |-> {}]]

\* detectCycle, with the n-th relationship of the entity as the next to follow.
Search == {s \in [at : entities, n : Nat \ {0}, visited : SUBSET Entity, stack : SUBSET Entity] :
             s.at \in s.stack /\ s.stack \subseteq s.visited}

\* An error goes straight to ValidateDependencies, whatever was visited.
Circular == [error |-> TRUE, visited |-> {}, stack |-> {}]
Searched(visited, stack) == [error |-> FALSE, visited |-> visited, stack |-> stack]

\* Mutant: an entity met before counts, whether or not it is on the way here.
MetBefore(d, s) == d \in s.visited

OnTheWay(d, s) == d \in s.stack

\* For an entity that is not there, recStack is not set back.
Detects[s \in Search] ==
  IF s.n > Len(rel[s.at]) THEN Searched(s.visited, s.stack \ {s.at})
  ELSE LET r     == rel[s.at][s.n]
           stack == s.stack \cup {r.to}
           seen  == s.visited \cup {r.to}
           found == IF r.type # "depends_on" THEN Searched(s.visited, s.stack)
                    ELSE IF r.to \notin s.visited
                      THEN IF r.to \in entities
                             THEN Detects[[at |-> r.to, n |-> 1, visited |-> seen, stack |-> stack]]
                             ELSE Searched(seen, stack)
                    ELSE IF OnTheWay(r.to, s) THEN Circular ELSE Searched(s.visited, s.stack)
       IN  IF found.error THEN Circular
           ELSE Detects[[at |-> s.at, n |-> s.n + 1, visited |-> found.visited, stack |-> found.stack]]

DetectCycle(e) == Detects[[at |-> e, n |-> 1, visited |-> {e}, stack |-> {e}]].error

\* ValidateDependencies returns an error.
Invalid == \E e \in entities : DetectCycle(e)

\* buildGraph: the nodes down to a depth, with the n-th relationship of the entity
\* as the next to follow.  What was visited on a longer way is not visited again
\* on a shorter one.
Build == [at : entities, depth : Nat, n : Nat \ {0}, nodes : SUBSET entities]
Builds[s \in Build] ==
  IF s.n > Len(rel[s.at]) THEN s.nodes
  ELSE LET t     == rel[s.at][s.n].to
           found == IF s.depth > 0 /\ t \in entities \ s.nodes
                      THEN Builds[[at |-> t, depth |-> s.depth - 1, n |-> 1, nodes |-> s.nodes \cup {t}]]
                      ELSE s.nodes
       IN  Builds[[at |-> s.at, depth |-> s.depth, n |-> s.n + 1, nodes |-> found]]

\* GetDependencyGraph
Graph(e, maxDepth) == Builds[[at |-> e, depth |-> maxDepth, n |-> 1, nodes |-> {e}]]

-----------------------------------------------------------------------------
(* MapRelationships *)

\* The relationships are cleared and the detectors run in the order of a map:
\* the provider detector may or may not see what e itself depends on.  The
\* metadata, which Update may have changed, name the dependencies.
Mappings(e, deps) ==
  LET on == LET s == SetToSeq(deps) IN [n \in DOMAIN s |-> On(s[n])]
      Users(own) == {f \in entities \ {e} : DependsOn(f, e)}
                      \cup (IF Contains(own, On(e)) THEN {e} ELSE {})
      Provided(own) == LET s == SetToSeq(Users(own)) IN [n \in DOMAIN s |-> For(s[n])]
  IN  {on \o Provided(on), Provided(<<>>) \o on}

Total(relations) == FoldFunction(LAMBDA s, n : Len(s) + n, 0, relations)

Recorded(e, relations) ==
  /\ rel' = [rel EXCEPT ![e] = relations]
  /\ Total(rel') <= MaxListed
  /\ added' = (added \/ Contains(relations, On(asked)))

MapRelationships(e, deps) ==
  /\ e \in entities
  /\ \E relations \in Mappings(e, deps) : Recorded(e, relations)
  /\ UNCHANGED <<entities, asked, stranded>>

-----------------------------------------------------------------------------
(* RegistrationAPI *)

\* The new object has no relationships, unless they are to be mapped.
Register(e, deps) ==
  /\ entities' = entities \cup {e}
  /\ \E relations \in Mappings(e, deps) \cup {<<>>} : Recorded(e, relations)
  /\ UNCHANGED <<asked, stranded>>

AddRelationship(e, r) ==
  /\ {e, r.to} \subseteq entities
  /\ Recorded(e, Append(rel[e], r))
  /\ UNCHANGED <<entities, asked, stranded>>

Unregister(e) ==
  /\ e \in entities
  /\ entities' = entities \ {e}

\* One call at a time.
Deregister(e) ==
  /\ e \in entities
  /\ asked = Nil
  /\ Impacted(e) = {}
  /\ asked' = e
  /\ added' = FALSE
  /\ UNCHANGED <<entities, rel, stranded>>

Deregistered(e) ==
  /\ asked = e
  /\ asked' = Nil
  /\ \/ /\ Unregister(e)
        /\ rel' = [rel EXCEPT ![e] = <<>>]
        /\ stranded' = (stranded \/ (~added /\ \E f \in entities' : DependsOn(f, e)))
     \/ e \notin entities /\ UNCHANGED <<entities, rel, stranded>>
  /\ added' = FALSE

\* newRelationships: those of a list that do not lead to e.
Without(list, e) ==
  LET kept[n \in 0..Len(list)] ==
        IF n = 0 THEN <<>>
        ELSE IF list[n].to = e THEN kept[n - 1] ELSE Append(kept[n - 1], list[n])
  IN  kept[Len(list)]

\* The impacted entities lose every relationship to e, the others keep theirs.
ForceDeregister(e) ==
  /\ Unregister(e)
  /\ LET impacted == Impacted(e)
     IN  rel' = [f \in Entity |->
           IF f = e THEN <<>> ELSE IF f \in impacted THEN Without(rel[f], e) ELSE rel[f]]
  /\ UNCHANGED <<asked, added, stranded>>

\* CleanupStale asks nobody.
Cleanup(e) ==
  /\ Unregister(e)
  /\ rel' = [rel EXCEPT ![e] = <<>>]
  /\ UNCHANGED <<asked, added, stranded>>

Next == \E e \in Entity :
  \/ \E deps \in SUBSET Entity : Register(e, deps) \/ MapRelationships(e, deps)
  \/ \E t \in Entity : AddRelationship(e, On(t)) \/ AddRelationship(e, PartOf(t))
  \/ Deregister(e) \/ Deregistered(e) \/ ForceDeregister(e) \/ Cleanup(e)

Spec == Init /\ [][Next]_vars

-----------------------------------------------------------------------------
(* Properties *)

\* Every variable has its type, and what is not in the catalog has no relationships.
TypeOK ==
  /\ entities \subseteq Entity /\ {added, stranded} \subseteq BOOLEAN /\ asked \in Entity \cup {Nil}
  /\ rel \in [Entity -> Seq(Relationship)]
  /\ \A e \in Entity \ entities : rel[e] = <<>>

\* From e to t along depends_on, or along any relationship, in one or more steps:
\* t is in every set that has what is one step from e and from its own members.
Reaches(e, t, Step(_, _)) == \A seen \in SUBSET Entity :
  (\A y \in {e} \cup seen, x \in Entity : y \in entities /\ Step(y, x) => x \in seen) => t \in seen

Linked(e, t) == \E n \in DOMAIN rel[e] : rel[e][n].to = t

\* Whatever was added and removed: a cycle is reported, and nothing else is,
\* except where an entity that is not there is depended on; the entities
\* impacted are the ones that depend on it by any number of steps; a graph deep
\* enough has all that can be reached.
SearchesRight ==
  LET cyclic == \E e \in entities : Reaches(e, e, DependsOn)
  IN  /\ cyclic => Invalid
      /\ Invalid => cyclic \/ \E e \in entities, t \in Entity \ entities : DependsOn(e, t)
      /\ \A e \in entities :
           /\ Impacted(e) = {f \in entities : Reaches(f, e, DependsOn)}
           /\ Graph(e, Cardinality(Entity)) = {e} \cup {t \in entities : Reaches(e, t, Linked)}

\* The searches are right after every operation; and Deregister leaves nobody
\* behind that depends on the entity, except who came to depend on it while it
\* was between its two steps.
DependenciesSound == SearchesRight /\ ~stranded
=============================================================================
