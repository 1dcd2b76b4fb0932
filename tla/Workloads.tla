------------------------------ MODULE Workloads ------------------------------
(***************************************************************************)
(* The simulated runtime of layer 5 (container_runtime.go), the networks   *)
(* (network_manager.go) and the manager over both (manager.go).            *)
(*                                                                         *)
(* Each table has a lock and every operation on it is one step.  The       *)
(* manager's RunContainer, RestartContainer and Prune are several: another *)
(* caller comes in between.  A network knows containers by ID only and     *)
(* asks the runtime nothing.                                               *)
(***************************************************************************)
EXTENDS Integers, FiniteSets, Functions, FiniteSetsExt

CONSTANTS
  Container,  \* container IDs (uuids, so never reused)
  Net,        \* IDs of networks made by CreateNetwork (uuids)
  Name,       \* names of networks
  Caller,     \* goroutines that use the manager: a bound
  Given       \* addresses that callers give (their last parts): a bound

VARIABLES
  status,     \* Container.Status; "none" before, "removed" after
  running,    \* State.Running
  paused,     \* State.Paused
  calls,      \* what each caller has still to do
  name,       \* the names of the networks there are
  address,    \* of the endpoints, by network: the last part of 172.18.0.x
  odd,        \* history: the containers stopped while Paused was set
  freed,      \* history: the networks an endpoint was taken from
  given       \* history: the endpoints whose address the caller gave

boxes == <<status, running, paused, odd>>
nets  == <<name, address, freed, given>>
vars  == <<boxes, nets, calls>>

Idle   == [op |-> "idle", left |-> {}]
AnyNet == Net \cup {"bridge"}
Exists(c) == status[c] \notin {"none", "removed"}

\* The default networks "host" and "none" are left out: they are never removed
\* and, having no address pool, give no addresses.
Init ==
  /\ status = [c \in Container |-> "none"]
  /\ running = {} /\ paused = {} /\ odd = {}
  /\ calls = [k \in Caller |-> Idle]
  /\ name = [n \in {"bridge"} |-> n]
  /\ address = [n \in AnyNet |-> << >>]
  /\ freed = {} /\ given = {}

-----------------------------------------------------------------------------
(* ContainerRuntime *)

Create(c) ==
  /\ status[c] = "none"
  /\ status' = [status EXCEPT ![c] = "created"]
  /\ UNCHANGED <<running, paused, odd>>

Startable(c) == Exists(c) /\ c \notin running

Start(c) ==
  /\ Startable(c)
  /\ status' = [status EXCEPT ![c] = "running"]
  /\ running' = running \cup {c}
  /\ UNCHANGED <<paused, odd>>

\* Mutant: the flag is left set.
StopStatusOnly(c) ==
  /\ c \in running
  /\ status' = [status EXCEPT ![c] = "exited"]
  /\ odd' = IF c \in paused THEN odd \cup {c} ELSE odd
  /\ UNCHANGED <<running, paused>>

\* State.Paused is left as it is.
Stop(c) ==
  /\ c \in running
  /\ status' = [status EXCEPT ![c] = "exited"]
  /\ running' = running \ {c}
  /\ odd' = IF c \in paused THEN odd \cup {c} ELSE odd
  /\ UNCHANGED paused

\* Mutant: a container that runs is removed without force.
RemovableAnyhow(c, force) == Exists(c)

Removable(c, force) == Exists(c) /\ (c \in running => force)

Remove(c, force) ==
  /\ Removable(c, force)
  /\ status' = [status EXCEPT ![c] = "removed"]
  /\ running' = running \ {c}
  /\ paused' = paused \ {c}
  /\ UNCHANGED odd

Pause(c) ==
  /\ c \in running
  /\ status' = [status EXCEPT ![c] = "paused"]
  /\ paused' = paused \cup {c}
  /\ UNCHANGED <<running, odd>>

\* Whether it is running is not asked.
Unpause(c) ==
  /\ c \in paused
  /\ status' = [status EXCEPT ![c] = "running"]
  /\ paused' = paused \ {c}
  /\ UNCHANGED <<running, odd>>

Once(c) ==
  \/ Create(c) \/ Start(c) \/ Stop(c) \/ Pause(c) \/ Unpause(c)
  \/ \E force \in BOOLEAN : Remove(c, force)

-----------------------------------------------------------------------------
(* RunContainer, RestartContainer, Prune *)

Then(k, op, left) == calls' = [calls EXCEPT ![k] = [op |-> op, left |-> left]]

Run(k, c)     == calls[k] = Idle /\ Create(c) /\ Then(k, "start", {c})
Restart(k, c) == calls[k] = Idle /\ Stop(c) /\ Then(k, "start", {c})

\* The second half of Run and of Restart; if it fails, only the error tells
\* that the first half was done.
StartAfter(k) ==
  /\ calls[k].op = "start"
  /\ \E c \in calls[k].left :
       Start(c) \/ (~Startable(c) /\ UNCHANGED boxes)
  /\ calls' = [calls EXCEPT ![k] = Idle]

Prune(k) ==
  /\ calls[k] = Idle
  /\ Then(k, "look", {c \in Container : Exists(c)})
  /\ UNCHANGED boxes

\* Running is read from the listed object, with no lock.
PruneLook(k) ==
  /\ calls[k].op = "look"
  /\ \E c \in calls[k].left :
       IF c \in running THEN Then(k, "look", calls[k].left \ {c})
                        ELSE Then(k, c, calls[k].left \ {c})
  /\ UNCHANGED boxes

PruneRemove(k) ==
  /\ calls[k].op \in Container
  /\ LET c == calls[k].op IN Remove(c, FALSE) \/ (~Removable(c, FALSE) /\ UNCHANGED boxes)
  /\ Then(k, "look", calls[k].left)

-----------------------------------------------------------------------------
(* NetworkManager *)

Empty(n) == DOMAIN address[n] = {}
Without(f, removed) == Restrict(f, DOMAIN f \ removed)

\* Mutant: the names there are are not looked at.
CreateNetworkAnyName(n, m) ==
  /\ n \in Net \ DOMAIN name
  /\ n \notin freed /\ Empty(n)
  /\ name' = [x \in DOMAIN name \cup {n} |-> IF x = n THEN m ELSE name[x]]
  /\ UNCHANGED <<address, freed, given>>

CreateNetwork(n, m) ==
  /\ n \in Net \ DOMAIN name
  /\ n \notin freed /\ Empty(n)
  /\ m \notin {name[x] : x \in DOMAIN name}
  /\ name' = [x \in DOMAIN name \cup {n} |-> IF x = n THEN m ELSE name[x]]
  /\ UNCHANGED <<address, freed, given>>

RemoveNetwork(n) ==
  /\ n \in Net \cap DOMAIN name
  /\ Empty(n)
  /\ name' = Without(name, {n})
  /\ UNCHANGED <<address, freed, given>>

PruneNetworks ==
  /\ name' = Without(name, {n \in Net : Empty(n)})
  /\ UNCHANGED <<address, freed, given>>

\* Mutant: an address for each two endpoints.
NextAddressForTwo(n) == (Cardinality(DOMAIN address[n]) \div 2) + 2

\* The number of endpoints plus two.
NextAddress(n) == Cardinality(DOMAIN address[n]) + 2

Endpoint(n, c, a) ==
  /\ n \in DOMAIN name
  /\ c \notin DOMAIN address[n]
  /\ address' = [address EXCEPT ![n] =
       [x \in DOMAIN @ \cup {c} |-> IF x = c THEN a ELSE @[x]]]
  /\ UNCHANGED <<name, freed>>

\* With no configuration, or one without an address.  The container need not exist.
Connect(n, c) == Endpoint(n, c, NextAddress(n)) /\ UNCHANGED given

\* With an address in the configuration, as in one that was used before.  It is
\* compared with no other.
ConnectAt(n, c, a) == Endpoint(n, c, a) /\ given' = given \cup {<<n, c>>}

Disconnect(n, c) ==
  /\ n \in DOMAIN name
  /\ c \in DOMAIN address[n]
  /\ address' = [address EXCEPT ![n] = Without(@, {c})]
  /\ freed' = freed \cup {n}
  /\ given' = given \ {<<n, c>>}
  /\ UNCHANGED name

PruneEnds(k) ==
  /\ calls[k] = [op |-> "look", left |-> {}]
  /\ PruneNetworks
  /\ calls' = [calls EXCEPT ![k] = Idle]

-----------------------------------------------------------------------------
Network ==
  \E n \in AnyNet :
    \/ \E m \in Name : CreateNetwork(n, m)
    \/ RemoveNetwork(n)
    \/ \E c \in Container : \/ Connect(n, c) \/ Disconnect(n, c)
                            \/ \E a \in Given : ConnectAt(n, c, a)

Manager(k) ==
  \/ \E c \in Container : Run(k, c) \/ Restart(k, c)
  \/ StartAfter(k) \/ Prune(k) \/ PruneLook(k) \/ PruneRemove(k)

Next ==
  \/ (\E c \in Container : Once(c)) /\ UNCHANGED <<nets, calls>>
  \/ (\E k \in Caller : Manager(k)) /\ UNCHANGED nets
  \/ Network /\ UNCHANGED <<boxes, calls>>
  \/ (\E k \in Caller : PruneEnds(k)) /\ UNCHANGED boxes

Spec == Init /\ [][Next]_vars

-----------------------------------------------------------------------------
(* Properties *)

\* Every variable has its type, and no two networks have one name.
TypeOK ==
  /\ status \in [Container -> {"none", "created", "running", "paused", "exited", "removed"}]
  /\ running \cup paused \subseteq {c \in Container : Exists(c)}
  /\ \A k \in Caller : calls[k].op \in {"idle", "start", "look"} \cup Container
  /\ IsInjective(name)
  /\ \A n \in AnyNet \ DOMAIN name : Empty(n)

\* The status a listing shows and the Running flag that Stop, Remove and the
\* statistics go by agree, except for a container that was stopped while its
\* Paused flag was set: unpausing that one makes it "running" and not running.
StatusAgrees == \A c \in Container \ odd :
  c \in running <=> status[c] \in {"running", "paused"}

\* Prune reads Running without the lock and may be overtaken by a start: it
\* still never removes a container that runs at that moment.
PruneSpares == [][\A k \in Caller, c \in Container :
  calls[k].op = c /\ calls'[k] # calls[k] /\ c \in running => status'[c] # "removed"]_vars

\* The addresses a network computes differ as long as no endpoint is taken from
\* it: two endpoints have one address only after a disconnection, or if a caller
\* gave one of them its address.
AddressesDiffer == \A n \in AnyNet \ freed : \A c, d \in DOMAIN address[n] :
  address[n][c] = address[n][d] => c = d \/ {<<n, c>>, <<n, d>>} \cap given # {}
=============================================================================
