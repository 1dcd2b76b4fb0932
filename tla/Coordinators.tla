---------------------------- MODULE Coordinators ----------------------------
(***************************************************************************)
(* Discovery of the nodes of a mesh and the choice of a coordinator        *)
(* (layer1/mesh_discovery.go, mesh_coordinator.go).                        *)
(*                                                                         *)
(* Every node sends the same beacon over and over by UDP multicast, which  *)
(* may lose, repeat, delay and reorder it: so a beacon of a node that was  *)
(* started may arrive anywhere at any time, or not.  The first one of a    *)
(* node is reported, and the program adds the node to the coordinator's    *)
(* peers (the code has no such callback; it is taken to be AddPeer).       *)
(* Every change of the peers is followed by an election: the lowest ID     *)
(* wins.                                                                   *)
(***************************************************************************)
EXTENDS Integers, FiniteSetsExt

CONSTANTS
  Node,      \* node IDs, in the order of their strings
  Changes    \* a bound on the calls of RemovePeer and UpdatePeers

VARIABLES
  started,        \* the nodes that were started
  stopped,        \* and those that were stopped after that
  known,          \* MeshDiscovery.known
  found,          \* the peer listenLoop is about to report
  peers,          \* MeshCoordinator.peers
  coordinatorID,  \* 0 before the first election
  isCoordinator,
  changes,        \* the calls there may still be
  dropped         \* history: <<node, peer>>: the peer was taken from the list

discovery == <<started, stopped, known, found>>
choice    == <<peers, coordinatorID, isCoordinator>>
vars      == <<discovery, choice, changes, dropped>>

Init ==
  /\ started = {} /\ stopped = {}
  /\ known = [n \in Node |-> {}]
  /\ found = [n \in Node |-> {}]
  /\ peers = [n \in Node |-> {}]
  /\ coordinatorID = [n \in Node |-> 0]
  /\ isCoordinator = [n \in Node |-> FALSE]
  /\ changes = Changes
  /\ dropped = {}

-----------------------------------------------------------------------------
(* MeshDiscovery *)

Running == started \ stopped

Start(n) ==
  /\ n \notin started
  /\ started' = started \cup {n}
  /\ UNCHANGED <<stopped, known, found, choice, changes, dropped>>

\* For good: the stop channel is closed.
Stop(n) ==
  /\ n \in Running
  /\ stopped' = stopped \cup {n}
  /\ UNCHANGED <<started, known, found, choice, changes, dropped>>

\* broadcastLoop sends until the node is stopped; what it sent may be late.
Beacons == started

\* Mutant: nobody is told of the peer.
ReceiveUnreported(n, m) ==
  /\ n \in Beacons \ known[m]
  /\ m \in Running /\ found[m] = {}
  /\ known' = [known EXCEPT ![m] = @ \cup {n}]
  /\ UNCHANGED <<started, stopped, found, choice, changes, dropped>>

\* listenLoop takes a beacon of n.
\* Another one is read only after the callback has returned.  That of a known
\* node takes the place of its last one, which is the same.
Receive(n, m) ==
  /\ n \in Beacons \ known[m]
  /\ m \in Running /\ found[m] = {}
  /\ found' = [found EXCEPT ![m] = {n}]
  /\ known' = [known EXCEPT ![m] = @ \cup {n}]
  /\ UNCHANGED <<started, stopped, choice, changes, dropped>>

-----------------------------------------------------------------------------
(* MeshCoordinator *)

Elect(n, list) ==
  LET first == Min(list \cup {n})
  IN  /\ peers' = [peers EXCEPT ![n] = list]
      /\ coordinatorID' = [coordinatorID EXCEPT ![n] = first]
      /\ isCoordinator' = [isCoordinator EXCEPT ![n] = (first = n)]

\* A peer that is listed already changes nothing.
AddPeer(n) ==
  /\ found[n] # {}
  /\ found' = [found EXCEPT ![n] = {}]
  /\ IF found[n] \subseteq peers[n] THEN UNCHANGED choice
                                    ELSE Elect(n, peers[n] \cup found[n])
  /\ UNCHANGED <<started, stopped, known, changes, dropped>>

RemovePeer(n, m) ==
  /\ changes > 0
  /\ changes' = changes - 1
  /\ Elect(n, peers[n] \ {m})
  /\ dropped' = dropped \cup {<<n, m>>}
  /\ UNCHANGED discovery

UpdatePeers(n, list) ==
  /\ changes > 0
  /\ changes' = changes - 1
  /\ Elect(n, list)
  /\ dropped' = dropped \cup {<<n, m>> : m \in peers[n] \ list}
  /\ UNCHANGED discovery

\* In the hierarchical topology.
ShouldConnectTo(n) ==
  IF isCoordinator[n] THEN peers[n] ELSE {coordinatorID[n]} \ {0, n}

-----------------------------------------------------------------------------
\* A node ignores its own beacon.
Listen(m) == AddPeer(m) \/ \E n \in Node \ {m} : Receive(n, m)

Next == \E n \in Node :
  \/ Start(n) \/ Stop(n) \/ Listen(n)
  \/ \E m \in Node \ {n} : RemovePeer(n, m)
  \/ \E list \in SUBSET (Node \ {n}) : UpdatePeers(n, list)

\* The program goes on with what listenLoop reports.  A running node sends a
\* beacon every five seconds: some of them come through.
Fairness == \A m \in Node :
  WF_vars(AddPeer(m) \/ \E n \in Running \ {m} : Receive(n, m))

Spec == Init /\ [][Next]_vars /\ Fairness

-----------------------------------------------------------------------------
(* Properties *)

\* Every variable has its type.
TypeOK ==
  /\ stopped \subseteq started /\ started \subseteq Node /\ dropped \subseteq Node \X Node
  /\ \A n \in Node :
       /\ n \notin known[n] \cup peers[n] /\ found[n] \subseteq known[n]
       /\ coordinatorID[n] \in {0} \cup Node
  /\ changes \in 0..Changes

\* Of nodes that list one another and nobody else, one holds itself for the
\* coordinator, all the others name it, and together they have a connection from
\* each to it.
Agreed == \A group \in SUBSET Node :
  /\ Cardinality(group) > 1
  /\ \A n \in group : peers[n] = group \ {n}
  => \E c \in group : \A n \in group :
       /\ coordinatorID[n] = c
       /\ isCoordinator[n] <=> n = c
       /\ ShouldConnectTo(n) = IF n = c THEN group \ {c} ELSE {c}

\* Nodes that agree about the group have one coordinator; and two nodes that
\* run come to list each other, however beacons are lost and reordered, unless
\* one of them is stopped or the peer is taken from the list: discovery does
\* not report a node twice.
OneCoordinator ==
  /\ []Agreed
  /\ <>[](\A n, m \in Running : n # m => n \in peers[m] \/ <<m, n>> \in dropped)
=============================================================================
