---------------------------- MODULE RealContainer ----------------------------
(***************************************************************************)
(* Container processes (layer5/real_container_runtime.go).                 *)
(*                                                                         *)
(* StartContainer starts an OS process and a goroutine that waits for it   *)
(* and then, under r.mu, marks the container exited - by container ID, not *)
(* by process.  StopContainer keeps r.mu while it signals the process and  *)
(* waits for its end, a timeout at most; a second goroutine does the       *)
(* waiting.  So up to two goroutines wait for one process, only one gets   *)
(* its exit status, and what a monitor reports may come after the          *)
(* container has been started again.                                       *)
(*                                                                         *)
(* Processes are kept by the operating system: "alive", "zombie" until a   *)
(* wait reaps them, then "reaped".                                         *)
(***************************************************************************)
EXTENDS Integers, FiniteSets

CONSTANTS
  Container,  \* container IDs (uuids, so never reused)
  Process,    \* OS processes, one for each start
  Nil

ASSUME NilAssumption ==
  /\ Nil \notin Process /\ Nil \notin Container
  /\ {"free", "stuck"} \cap Container = {}

VARIABLES
  status,    \* RealContainer.Status; "none" before, "removed" after
  running,   \* the containers whose Running flag is set
  process,   \* RealContainer.Process
  exitCode,  \* RealContainer.ExitCode: unset (Nil), a process's own, or "lost"
  mu,        \* r.mu: "free", "stuck", or the container being stopped
  home,      \* the container each process was started for
  life,      \* what the operating system knows of each process
  killed,    \* the processes that were sent SIGKILL
  monitor,   \* monitorContainer of each process
  waiter,    \* the wait goroutine of StopContainer, by process
  starts     \* history: how often each container was started

container == <<status, running, process, exitCode>>
os        == <<home, life, killed>>
vars      == <<container, mu, os, monitor, waiter, starts>>

Exists(c) == status[c] \in {"created", "running", "exited"}
Dead(p)   == life[p] \in {"zombie", "reaped"}

Init ==
  /\ status = [c \in Container |-> "none"]
  /\ running = {}
  /\ process = [c \in Container |-> Nil]
  /\ exitCode = [c \in Container |-> Nil]
  /\ mu = "free"
  /\ home = [p \in Process |-> Nil]
  /\ life = [p \in Process |-> "unborn"]
  /\ killed = {}
  /\ monitor = [p \in Process |-> "none"]
  /\ waiter = [p \in Process |-> "none"]
  /\ starts = [c \in Container |-> 0]

-----------------------------------------------------------------------------
(* CreateContainer and StartContainer *)

Create(c) ==
  /\ mu = "free"
  /\ status[c] = "none"
  /\ status' = [status EXCEPT ![c] = "created"]
  /\ UNCHANGED <<running, process, exitCode, mu, os, monitor, waiter, starts>>

\* With an image named, extractImageToContainer takes the read lock while its
\* caller has the write lock: the call never returns.
CreateFromImage(c) ==
  /\ mu = "free"
  /\ status[c] = "none"
  /\ mu' = "stuck"
  /\ UNCHANGED <<container, os, monitor, waiter, starts>>

Startable(c) == mu = "free" /\ Exists(c) /\ c \notin running

\* Mutant: nobody waits for the process.
StartUnwatched(c, p) ==
  /\ Startable(c)
  /\ life[p] = "unborn"
  /\ home' = [home EXCEPT ![p] = c]
  /\ life' = [life EXCEPT ![p] = "alive"]
  /\ monitor' = [monitor EXCEPT ![p] = "done"]
  /\ process' = [process EXCEPT ![c] = p]
  /\ status' = [status EXCEPT ![c] = "running"]
  /\ running' = running \cup {c}
  /\ starts' = [starts EXCEPT ![c] = @ + 1]
  /\ UNCHANGED <<exitCode, mu, killed, waiter>>

\* A process that cannot be started leaves everything as it is.
Start(c, p) ==
  /\ Startable(c)
  /\ life[p] = "unborn"
  /\ home' = [home EXCEPT ![p] = c]
  /\ life' = [life EXCEPT ![p] = "alive"]
  /\ monitor' = [monitor EXCEPT ![p] = "waiting"]
  /\ process' = [process EXCEPT ![c] = p]
  /\ status' = [status EXCEPT ![c] = "running"]
  /\ running' = running \cup {c}
  /\ starts' = [starts EXCEPT ![c] = @ + 1]
  /\ UNCHANGED <<exitCode, mu, killed, waiter>>

-----------------------------------------------------------------------------
(* StopContainer *)

\* SIGTERM, which the process may ignore; where it cannot be sent, SIGKILL.
\* r.mu is kept from here on.
Stop(c) ==
  /\ mu = "free"
  /\ Exists(c)
  /\ c \in running
  /\ mu' = c
  /\ killed' \in {killed, killed \cup {process[c]}}
  /\ waiter' = [waiter EXCEPT ![process[c]] = "waiting"]
  /\ UNCHANGED <<container, home, life, monitor, starts>>

Stopped(c) ==
  /\ mu = c
  /\ mu' = "free"
  /\ status' = [status EXCEPT ![c] = "exited"]
  /\ running' = running \ {c}
  /\ UNCHANGED <<process, exitCode, home, life, monitor, waiter, starts>>

\* Mutant: after the timeout the process is left alone.
StopTimesOutOnly(c) == Stopped(c) /\ UNCHANGED killed

\* The timeout may come at any time; the process may die in between.
StopTimesOut(c) == Stopped(c) /\ killed' = killed \cup {process[c]}

StopSeesExit(c) ==
  /\ mu = c
  /\ waiter[process[c]] = "done"
  /\ Stopped(c)
  /\ UNCHANGED killed

-----------------------------------------------------------------------------
(* RemoveContainer *)

\* The fields of a removed container are cleared: nothing reads them.
Forget(c) ==
  /\ status' = [status EXCEPT ![c] = "removed"]
  /\ process' = [process EXCEPT ![c] = Nil]
  /\ exitCode' = [exitCode EXCEPT ![c] = Nil]

\* Mutant: the process of a container that runs is left alone.
RemoveKeepsProcess(c, force) ==
  /\ mu = "free"
  /\ Exists(c)
  /\ c \in running => force
  /\ running' = running \ {c}
  /\ Forget(c)
  /\ UNCHANGED <<mu, os, monitor, waiter, starts>>

\* If the directory cannot be removed the container stays, its process killed.
Remove(c, force) ==
  /\ mu = "free"
  /\ Exists(c)
  /\ c \in running => force
  /\ killed' = IF c \in running THEN killed \cup {process[c]} ELSE killed
  /\ running' = running \ {c}
  /\ Forget(c) \/ UNCHANGED <<status, process, exitCode>>
  /\ UNCHANGED <<mu, home, life, monitor, waiter, starts>>

-----------------------------------------------------------------------------
(* The operating system and the goroutines that wait *)

\* A process ends, by itself or of a signal.
Exit(p) ==
  /\ life[p] = "alive"
  /\ life' = [life EXCEPT ![p] = "zombie"]
  /\ UNCHANGED <<container, mu, home, killed, monitor, waiter, starts>>

\* Whoever waits first reaps the process and gets its status; the other
\* gets an error that says nothing of it.
MonitorWaits(p) ==
  /\ monitor[p] = "waiting"
  /\ Dead(p)
  /\ monitor' = [monitor EXCEPT ![p] = IF life[p] = "zombie" THEN "own" ELSE "lost"]
  /\ life' = [life EXCEPT ![p] = "reaped"]
  /\ UNCHANGED <<container, mu, home, killed, waiter, starts>>

WaiterWaits(p) ==
  /\ waiter[p] = "waiting"
  /\ Dead(p)
  /\ waiter' = [waiter EXCEPT ![p] = "done"]
  /\ life' = [life EXCEPT ![p] = "reaped"]
  /\ UNCHANGED <<container, mu, home, killed, monitor, starts>>

\* Mutant: the Running flag is left set.
MonitorRecordsStatus(p) ==
  /\ monitor[p] \in {"own", "lost"}
  /\ mu = "free"
  /\ monitor' = [monitor EXCEPT ![p] = "done"]
  /\ LET c == home[p]
     IN  IF Exists(c)
           THEN status' = [status EXCEPT ![c] = "exited"]
           ELSE UNCHANGED status
  /\ UNCHANGED <<running, process, exitCode, mu, os, waiter, starts>>

\* monitorContainer's end: whatever runs in the container now, it has exited.
MonitorRecords(p) ==
  /\ monitor[p] \in {"own", "lost"}
  /\ mu = "free"
  /\ monitor' = [monitor EXCEPT ![p] = "done"]
  /\ LET c == home[p]
     IN  IF Exists(c)
           THEN /\ running' = running \ {c}
                /\ status' = [status EXCEPT ![c] = "exited"]
                /\ exitCode' = [exitCode EXCEPT ![c] =
                                  IF monitor[p] = "own" THEN p ELSE "lost"]
           ELSE UNCHANGED <<running, status, exitCode>>
  /\ UNCHANGED <<process, mu, os, waiter, starts>>

-----------------------------------------------------------------------------
Call == \E c \in Container :
  \/ Create(c)
  \/ CreateFromImage(c)
  \/ \E p \in Process : Start(c, p)
  \/ Stop(c)
  \/ \E force \in BOOLEAN : Remove(c, force)

StopGoesOn == \E c \in Container : StopTimesOut(c) \/ StopSeesExit(c)

Watch(p) == MonitorWaits(p) \/ MonitorRecords(p)

Next ==
  \/ Call
  \/ StopGoesOn
  \/ \E p \in Process : Exit(p) \/ Watch(p) \/ WaiterWaits(p)

Spec == Init /\ [][Next]_vars

\* The timer of a Stop fires; a killed process ends; the goroutines that wait
\* are scheduled, and a mutex that is free again and again is handed in the
\* end to a goroutine that waits for it (sync.Mutex does not starve).
FairSpec ==
  /\ Spec
  /\ WF_vars(StopGoesOn)
  /\ \A p \in Process :
       /\ WF_vars(p \in killed /\ Exit(p))
       /\ SF_vars(Watch(p))
       /\ WF_vars(WaiterWaits(p))

-----------------------------------------------------------------------------
(* Properties *)

\* Every variable has its type.
TypeOK ==
  /\ status \in [Container -> {"none", "created", "running", "exited", "removed"}]
  /\ running \subseteq {c \in Container : Exists(c)}
  /\ process \in [Container -> Process \cup {Nil}]
  /\ exitCode \in [Container -> Process \cup {"lost", Nil}]
  /\ mu \in {"free", "stuck"} \cup Container
  /\ home \in [Process -> Container \cup {Nil}]
  /\ life \in [Process -> {"unborn", "alive", "zombie", "reaped"}]
  /\ killed \subseteq Process
  /\ monitor \in [Process -> {"none", "waiting", "own", "lost", "done"}]
  /\ waiter \in [Process -> {"none", "waiting", "done"}]
  /\ starts \in [Container -> Nat]

\* A container that is shown running has a monitor that has still to report
\* the end of the process it shows: it cannot stay "running" for ever after
\* its process died, whoever else waited for that process.
RunningWatched == \A c \in running :
  process[c] \in Process /\ monitor[process[c]] \notin {"none", "done"}

\* A process that nobody has killed is accounted for as long as its container
\* was started only once: the container is there and shown running, so it can
\* be stopped and cannot be removed without force.
OnlyRunTracked == \A p \in Process :
  life[p] = "alive" /\ p \notin killed /\ starts[home[p]] = 1 => home[p] \in running

\* StopContainer does not return with a process that goes on: it is dead, or
\* on its way.
StopsProcess == \A c \in Container : mu = c /\ mu' = "free" =>
  /\ Dead(process[c]) \/ process[c] \in killed'
  /\ c \notin running'
StopKills == [][StopsProcess]_vars

\* The end of a container's process is noticed, unless no call can return any
\* more because of a CreateContainer that named an image.
DeathNoticed == \A c \in Container :
  (c \in running /\ Dead(process[c])) ~> (c \notin running \/ mu = "stuck")

\* "container already running" (real_container_runtime.go): a container has
\* one process at most that lives and was not killed.
OneProcess == \A p, q \in Process :
  /\ p # q /\ home[p] = home[q]
  /\ life[p] = "alive" /\ life[q] = "alive"
  => p \in killed \/ q \in killed
=============================================================================
