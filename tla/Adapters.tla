------------------------------ MODULE Adapters ------------------------------
(***************************************************************************)
(* The adapters of layer 1 and their registry (registry.go, factory.go,    *)
(* manager.go, adapter.go and the http, ssh, grpc, mqtt and mesh adapters) *)
(* and the bridge that connects them with the entities of layer 2          *)
(* (integration/bridge.go).                                                *)
(*                                                                         *)
(* The registry's map is guarded by a mutex, which Unregister and Clear    *)
(* keep while they disconnect.  CreateAndConnect registers the adapter,    *)
(* connects it without the mutex, and when that fails unregisters whatever *)
(* adapter the registry then has under the same ID.  The adapters          *)
(* themselves have no lock.                                                *)
(***************************************************************************)
EXTENDS Naturals, FiniteSets

CONSTANTS
  Id,        \* adapter IDs
  Adapter,   \* adapter objects, one for each Create: a bound
  Worker,    \* goroutines that call the manager or the bridge
  Kinds,     \* the kinds of adapter that are created
  Attempts,  \* Connect calls of RetryWithBackoff: RetryAttempts + 1
  None

ASSUME AdaptersAssumption ==
  /\ None \notin Adapter /\ None \notin Id
  /\ Kinds \subseteq {"http", "ssh", "grpc", "mqtt", "mesh"} \ {None}
  /\ Attempts \in Nat \ {0}

VARIABLES
  adapters,  \* AdapterRegistry.adapters: the object registered under each ID
  id,        \* the ID each object was created with
  kind,      \* AdapterConfig.Type of each object
  open,      \* the objects that are connected
  health,    \* BaseAdapter.health: the status
  stopped,   \* mesh adapters whose node was stopped; a second stop panics
  stray,     \* a connection of each object that is none of its own any more
  worker,    \* what each goroutine is doing
  entity,    \* the state and the Adapters of one entity of the catalog
  monitor,   \* Manager.stopCh: "open" or "closed"
  crashed,   \* a goroutine panicked
  early      \* history: objects that were removed while being connected

objects == <<id, kind, open, health, stopped, stray>>
vars == <<adapters, objects, worker, entity, monitor, crashed, early>>

Statuses == {"unknown", "healthy", "degraded", "unhealthy"}
Idle == [pc |-> "idle", adapter |-> None, tries |-> 0, attach |-> FALSE,
         seen |-> "unknown", list |-> {}]

Registered == {a \in Adapter : \E i \in Id : adapters[i] = a}
Free       == {a \in Adapter : id[a] = None}

Init ==
  /\ adapters = [i \in Id |-> None]
  /\ id = [a \in Adapter |-> None]
  /\ kind = [a \in Adapter |-> None]
  /\ open = {}
  /\ health = [a \in Adapter |-> "unknown"]
  /\ stopped = {}
  /\ stray = [a \in Adapter |-> "none"]
  /\ worker = [w \in Worker |-> Idle]
  /\ entity = [state |-> "unknown", adapters |-> {}]
  /\ monitor = "open"
  /\ crashed = FALSE
  /\ early = {}

Goes(w, pc) == worker' = [worker EXCEPT ![w].pc = pc]
Ends(w) == worker' = [worker EXCEPT ![w] = Idle]

Connecting(a) == \E w \in Worker :
  worker[w].pc \in {"connecting", "unregister"} /\ worker[w].adapter = a

-----------------------------------------------------------------------------
(* Disconnect of a set of adapters.  The http and the ssh adapter leave their *)
(* health as it is, a grpc adapter that is not connected too.                *)

Forgets(a) ==
  \/ kind[a] \in {"mqtt", "mesh"}
  \/ kind[a] = "grpc" /\ a \in open

\* Connect makes the node, stores it and then dials the peers.  Disconnect closes
\* their connections, but what keeps each of them alive takes it for lost then,
\* and dials again.
Meshes(as) == {a \in as : kind[a] = "mesh"}
Dialled(a) == a \in open \/ \E w \in Worker : worker[w].pc = "connecting" /\ worker[w].adapter = a

Disconnect(as) == \E noNode \in SUBSET {a \in Meshes(as) \ (stopped \cup open) : Dialled(a)} :
  LET nodes == Meshes(as) \ noNode
  IN  /\ open' = open \ as
      /\ health' = [a \in Adapter |-> IF a \in as /\ Forgets(a) THEN "unknown" ELSE health[a]]
      /\ stopped' = stopped \cup nodes
      /\ crashed' = (nodes \cap stopped # {})
      /\ stray' = [a \in Adapter |-> IF a \in nodes /\ Dialled(a) THEN "dialling" ELSE stray[a]]

-----------------------------------------------------------------------------
(* CreateAndConnect, and CreateAdapterForEntity, which attaches the adapter  *)
(* to the entity afterwards                                                 *)

\* Mutant: an adapter with the same ID is replaced.
CreateReplaces(w, i, k, attach) ==
  /\ worker[w].pc = "idle"
  /\ \E a \in Free :
       /\ adapters' = [adapters EXCEPT ![i] = a]
       /\ id' = [id EXCEPT ![a] = i]
       /\ kind' = [kind EXCEPT ![a] = k]
       /\ worker' = [worker EXCEPT ![w] =
            [Idle EXCEPT !.pc = "connecting", !.adapter = a, !.attach = attach]]
  /\ UNCHANGED <<open, health, stopped, stray, entity, monitor, crashed, early>>

\* An ID in use is refused.
Create(w, i, k, attach) ==
  /\ worker[w].pc = "idle"
  /\ adapters[i] = None
  /\ \E a \in Free :
       /\ adapters' = [adapters EXCEPT ![i] = a]
       /\ id' = [id EXCEPT ![a] = i]
       /\ kind' = [kind EXCEPT ![a] = k]
       /\ worker' = [worker EXCEPT ![w] =
            [Idle EXCEPT !.pc = "connecting", !.adapter = a, !.attach = attach]]
  /\ UNCHANGED <<open, health, stopped, stray, entity, monitor, crashed, early>>

Connected(w) ==
  /\ worker[w].pc = "connecting"
  /\ LET a == worker[w].adapter
     IN  /\ open' = open \cup {a}
         /\ health' = [health EXCEPT ![a] = "healthy"]
  /\ IF worker[w].attach THEN Goes(w, "attach") ELSE Ends(w)
  /\ UNCHANGED <<adapters, id, kind, stopped, stray, entity, monitor, crashed, early>>

\* One attempt of several fails.
ConnectFails(w, most) ==
  /\ worker[w].pc = "connecting"
  /\ LET tries == worker[w].tries + 1
     IN  worker' = [worker EXCEPT ![w].tries = tries,
                                  ![w].pc = IF tries = most THEN "unregister" ELSE @]
  /\ UNCHANGED <<adapters, objects, entity, monitor, crashed, early>>

\* An attempt of the adapter's own protocol: a request, a dial, a client.
Attempt(w, k, most) ==
  /\ worker[w].pc = "connecting"
  /\ kind[worker[w].adapter] = k
  /\ Connected(w) \/ ConnectFails(w, most)

ConnectHTTP(w) == Attempt(w, "http", Attempts)
ConnectSSH(w)  == Attempt(w, "ssh", Attempts)
ConnectGRPC(w) == Attempt(w, "grpc", Attempts)
ConnectMQTT(w) == Attempt(w, "mqtt", Attempts)
\* The mesh adapter makes one attempt.
ConnectMesh(w) == Attempt(w, "mesh", 1)

\* The 30 seconds of CreateAndConnect are over, which a mesh adapter does not mind.
\* An mqtt client that was still connecting goes on, and nobody holds it.
ConnectTimesOut(w) ==
  /\ worker[w].pc = "connecting"
  /\ kind[worker[w].adapter] # "mesh"
  /\ \/ UNCHANGED stray
     \/ /\ kind[worker[w].adapter] = "mqtt"
        /\ stray' = [stray EXCEPT ![worker[w].adapter] = "dialling"]
  /\ Goes(w, "unregister")
  /\ UNCHANGED <<adapters, id, kind, open, health, stopped, entity, monitor, crashed, early>>

\* The client of the attempt that ran out of time, or the peer dialled again.
ConnectsLate(a) ==
  /\ stray[a] = "dialling"
  /\ stray' = [stray EXCEPT ![a] = "open"]
  /\ UNCHANGED <<adapters, id, kind, open, health, stopped, worker, entity, monitor, crashed, early>>

\* Mutant: the connection is left open.
UnregisterOnly(i) ==
  /\ adapters' = [adapters EXCEPT ![i] = None]
  /\ UNCHANGED <<open, health, stopped, stray, crashed>>

\* Mutant: the adapter stays in the map.
DisconnectOnly(i) ==
  /\ adapters[i] = None => UNCHANGED <<open, health, stopped, stray, crashed>>
  /\ adapters[i] # None => Disconnect({adapters[i]})
  /\ UNCHANGED adapters

\* Registry.Unregister: disconnects and deletes under the mutex.
Unregister(i) ==
  IF adapters[i] = None
    THEN UNCHANGED <<adapters, open, health, stopped, stray, crashed>>
    ELSE /\ Disconnect({adapters[i]})
         /\ adapters' = [adapters EXCEPT ![i] = None]

\* By ID: the object found may be another one by now.
UnregisterFailed(w) ==
  /\ worker[w].pc = "unregister"
  /\ Unregister(id[worker[w].adapter])
  /\ early' = early \cup
       {a \in {adapters[id[worker[w].adapter]]} \ {worker[w].adapter} : Connecting(a)}
  /\ Ends(w)
  /\ UNCHANGED <<id, kind, entity, monitor>>

\* The entity's list is read, appended to and stored with no lock.  Where the
\* entity is not found the adapter stays, attached to nothing.
ReadAdapters(w) ==
  /\ worker[w].pc = "attach"
  /\ \/ worker' = [worker EXCEPT ![w].pc = "append", ![w].list = entity.adapters]
     \/ Ends(w)
  /\ UNCHANGED <<adapters, objects, entity, monitor, crashed, early>>

AppendAdapter(w) ==
  /\ worker[w].pc = "append"
  /\ entity' = [entity EXCEPT !.adapters = worker[w].list \cup {id[worker[w].adapter]}]
  /\ Ends(w)
  /\ UNCHANGED <<adapters, objects, monitor, crashed, early>>

-----------------------------------------------------------------------------
(* RemoveAdapter and Shutdown *)

Remove(i) ==
  /\ adapters[i] # None
  /\ Unregister(i)
  /\ early' = early \cup {a \in {adapters[i]} : Connecting(a)}
  /\ UNCHANGED <<id, kind, worker, entity, monitor>>

\* Every adapter is disconnected by a goroutine of its own, and the registry
\* cleared when all are done; a second Shutdown closes a closed channel.
Shutdown(w) ==
  /\ worker[w].pc = "idle"
  /\ crashed' = (monitor = "closed")
  /\ monitor' = "closed"
  /\ worker' = [worker EXCEPT ![w].pc = "shutdown"]
  /\ UNCHANGED <<adapters, objects, entity, early>>

DisconnectAll(w) ==
  /\ worker[w].pc = "shutdown"
  /\ Disconnect(Registered)
  /\ early' = early \cup {a \in Registered : Connecting(a)}
  /\ Goes(w, "clear")
  /\ UNCHANGED <<adapters, id, kind, entity, monitor>>

\* Registry.Clear disconnects them once more.
Clear(w) ==
  /\ worker[w].pc = "clear"
  /\ Disconnect(Registered)
  /\ adapters' = [i \in Id |-> None]
  /\ early' = early \cup {a \in Registered : Connecting(a)}
  /\ Ends(w)
  /\ UNCHANGED <<id, kind, entity, monitor>>

-----------------------------------------------------------------------------
(* ReadState, SendCommand and HealthCheck *)

\* The http adapter does not look; a mqtt client checks by itself.
Looks(a) == kind[a] \in {"ssh", "grpc"}

BeginUse(w, a) ==
  /\ worker[w].pc = "idle"
  /\ a \in Registered
  /\ Looks(a) => a \in open
  /\ worker' = [worker EXCEPT ![w].pc = "use", ![w].adapter = a]
  /\ UNCHANGED <<adapters, objects, entity, monitor, crashed, early>>

\* Bridge.ExecuteCommand goes to an adapter of the entity.
ExecuteCommand(w) == \E a \in Adapter : id[a] \in entity.adapters /\ BeginUse(w, a)

Serves(w, k) ==
  /\ worker[w].pc = "use"
  /\ kind[worker[w].adapter] = k
  /\ Ends(w)
  /\ UNCHANGED <<adapters, id, kind, open, stopped, stray, entity, monitor, early>>

\* The client that was looked at may be nil by now, and calling it panics.
NilClient(w) == crashed' = (worker[w].adapter \notin open)

Healthy(w) == health' = [health EXCEPT ![worker[w].adapter] = "healthy"]

\* A ReadState that succeeds sets the health; the ssh adapter's does whatever
\* its commands returned, the mqtt adapter's never.
ReadHTTP(w) == Serves(w, "http") /\ (Healthy(w) \/ UNCHANGED health) /\ UNCHANGED crashed
ReadSSH(w)  == Serves(w, "ssh")  /\ NilClient(w) /\ Healthy(w)
ReadGRPC(w) == Serves(w, "grpc") /\ NilClient(w) /\ (Healthy(w) \/ UNCHANGED health)
ReadMQTT(w) == Serves(w, "mqtt") /\ UNCHANGED <<health, crashed>>

\* A SendCommand leaves the health.  An empty grpc method is refused first.
SendHTTP(w) == Serves(w, "http") /\ UNCHANGED <<health, crashed>>
SendSSH(w)  == Serves(w, "ssh")  /\ NilClient(w) /\ UNCHANGED health
SendGRPC(w) == Serves(w, "grpc") /\ (NilClient(w) \/ UNCHANGED crashed) /\ UNCHANGED health
SendMQTT(w) == Serves(w, "mqtt") /\ UNCHANGED <<health, crashed>>

\* Neither does any of it.
UseMesh(w) == Serves(w, "mesh") /\ UNCHANGED <<health, crashed>>

Use(w) ==
  \/ ReadHTTP(w) \/ ReadSSH(w) \/ ReadGRPC(w) \/ ReadMQTT(w)
  \/ SendHTTP(w) \/ SendSSH(w) \/ SendGRPC(w) \/ SendMQTT(w)
  \/ UseMesh(w)

\* The connection to a broker is lost: the client reconnects by itself, the
\* health stays until the next check.
ConnectionLost(a) ==
  /\ kind[a] = "mqtt" /\ a \in open
  /\ health' = [health EXCEPT ![a] = "unhealthy"]
  /\ UNCHANGED <<adapters, id, kind, open, stopped, stray, worker, entity, monitor, crashed, early>>

\* What HealthCheck can return, whether it stores it, and whether it returns
\* an error beside it.
Result(status, err, stored) == [status |-> status, err |-> err, stored |-> stored]

Graded == {Result(s, FALSE, TRUE) : s \in {"healthy", "degraded", "unhealthy"}}

CheckHTTP == Graded \cup {Result("unhealthy", TRUE, TRUE)}
CheckSSH(a) ==
  {Result("unhealthy", TRUE, TRUE)} \cup {Result("healthy", FALSE, TRUE) : x \in {a} \cap open}
CheckGRPC(a) == IF a \in open THEN Graded ELSE {Result("unhealthy", FALSE, FALSE)}
CheckMQTT(a) ==
  {Result("unhealthy", FALSE, FALSE)} \cup {Result("healthy", FALSE, TRUE) : x \in {a} \cap open}
CheckMesh == Graded

Check(a) ==
  CASE kind[a] = "http" -> CheckHTTP
    [] kind[a] = "ssh"  -> CheckSSH(a)
    [] kind[a] = "grpc" -> CheckGRPC(a)
    [] kind[a] = "mqtt" -> CheckMQTT(a)
    [] kind[a] = "mesh" -> CheckMesh

\* The periodic health check, which ends when the channel is closed.
MonitorChecks(a) ==
  /\ monitor = "open"
  /\ a \in Registered
  /\ \E r \in Check(a) : r.stored /\ health' = [health EXCEPT ![a] = r.status]
  /\ UNCHANGED <<adapters, id, kind, open, stopped, stray, worker, entity, monitor, crashed, early>>

\* SyncAdapterHealth: the check, and the end if it returned an error.
SyncCheck(w, a) ==
  /\ worker[w].pc = "idle"
  /\ a \in Registered
  /\ \E r \in Check(a) :
       /\ health' = IF r.stored THEN [health EXCEPT ![a] = r.status] ELSE health
       /\ worker' = [worker EXCEPT ![w].pc = IF r.err THEN "synced" ELSE "sync",
                                   ![w].adapter = a, ![w].seen = r.status]
  /\ UNCHANGED <<adapters, id, kind, open, stopped, stray, entity, monitor, crashed, early>>

\* The entities that the adapter serves get its status.
SyncStore(w) ==
  /\ worker[w].pc = "sync"
  /\ entity' = [entity EXCEPT !.state =
                   IF id[worker[w].adapter] \in entity.adapters THEN worker[w].seen ELSE @]
  /\ Goes(w, "synced")
  /\ UNCHANGED <<adapters, objects, monitor, crashed, early>>

SyncEnds(w) ==
  /\ worker[w].pc = "synced"
  /\ Ends(w)
  /\ UNCHANGED <<adapters, objects, entity, monitor, crashed, early>>
-----------------------------------------------------------------------------
Creates(w) ==
  \/ \E i \in Id, k \in Kinds, attach \in BOOLEAN : Create(w, i, k, attach)
  \/ ConnectHTTP(w) \/ ConnectSSH(w) \/ ConnectGRPC(w) \/ ConnectMQTT(w) \/ ConnectMesh(w)
  \/ ConnectTimesOut(w) \/ UnregisterFailed(w)
  \/ ReadAdapters(w) \/ AppendAdapter(w)

ShutsDown(w) == Shutdown(w) \/ DisconnectAll(w) \/ Clear(w)

Uses(w) ==
  \/ \E a \in Adapter : BeginUse(w, a) \/ SyncCheck(w, a)
  \/ ExecuteCommand(w) \/ Use(w) \/ SyncStore(w) \/ SyncEnds(w)

\* A panic ends the process.
Next ==
  /\ ~crashed
  /\ \/ \E w \in Worker : Creates(w) \/ ShutsDown(w) \/ Uses(w)
     \/ \E i \in Id : Remove(i)
     \/ \E a \in Adapter : ConnectsLate(a) \/ ConnectionLost(a) \/ MonitorChecks(a)

Spec == Init /\ [][Next]_vars

-----------------------------------------------------------------------------
(* Properties *)

\* Every variable has its type.
TypeOK ==
  /\ adapters \in [Id -> Adapter \cup {None}]
  /\ id \in [Adapter -> Id \cup {None}]
  /\ kind \in [Adapter -> Kinds \cup {None}]
  /\ open \subseteq Adapter
  /\ health \in [Adapter -> Statuses]
  /\ stopped \subseteq Adapter
  /\ stray \in [Adapter -> {"none", "dialling", "open"}]
  /\ worker \in [Worker -> [pc : {"idle", "connecting", "unregister", "attach", "append",
                                  "shutdown", "clear", "use", "sync", "synced"},
                            adapter : Adapter \cup {None}, tries : 0..Attempts,
                            attach : BOOLEAN, seen : Statuses, list : SUBSET Id]]
  /\ entity \in [state : Statuses, adapters : SUBSET Id]
  /\ monitor \in {"open", "closed"}
  /\ crashed \in BOOLEAN
  /\ early \subseteq Adapter

\* A connection that no registered adapter holds, and so nobody can close any more,
\* has one of three causes: the adapter was removed while it was still being connected;
\* an attempt to connect an mqtt adapter ran out of time, and no other succeeded; or a
\* mesh adapter was disconnected, which dials its peers again.  http, ssh and grpc
\* adapters leave one in the first way only.
OrphansExplained == \A a \in Adapter :
  /\ a \in open => a \in Registered \/ a \in early
  /\ stray[a] = "open" => \/ kind[a] = "mqtt" /\ a \notin open
                          \/ kind[a] = "mesh" /\ a \in stopped

\* A registered adapter is connected, or somebody is at work on it: the one who
\* connects it or gives that up, or a Shutdown on its way.
RegisteredOpen == \A a \in Registered : a \notin open =>
  \E w \in Worker : \/ worker[w].adapter = a /\ worker[w].pc \in {"connecting", "unregister"}
                    \/ worker[w].pc = "clear"

\* CreateAndConnect takes back the adapter it created and no other one, unless
\* its own had been removed before and the ID been given away again.
TakesBack == \A w \in Worker, a \in Registered :
  /\ worker[w].pc = "unregister" /\ worker'[w].pc # "unregister"
  /\ \A i \in Id : adapters'[i] # a
  => a = worker[w].adapter \/ worker[w].adapter \in early
TakesBackItsOwn == [][TakesBack]_vars
=============================================================================
