------------------------ MODULE RealContainerProofs ------------------------
(* Theorems about RealContainer, for every value of its constants. *)
EXTENDS RealContainer, TLAPS

\* A container's process was started for it.
Own == \A c \in Container : process[c] # Nil =>
  home[process[c]] = c /\ life[process[c]] # "unborn"

\* The container being stopped has a process: nobody else comes in between.
StopHolds == mu \in Container => process[mu] # Nil

\* Who has waited for a process was told of its end.
Waited == \A p \in Process :
  monitor[p] \in {"own", "lost", "done"} \/ waiter[p] = "done" => life[p] = "reaped"

\* Processes are counted where they were started.
Counted == \A p \in Process : life[p] # "unborn" =>
  /\ home[p] \in Container
  /\ starts[home[p]] > 0
  /\ \A q \in Process : life[q] # "unborn" /\ q # p /\ home[q] = home[p] => starts[home[p]] > 1

IInv == /\ TypeOK /\ Own /\ StopHolds /\ Waited /\ Counted
        /\ RunningWatched /\ OnlyRunTracked

USE NilAssumption

LEMMA InitHolds == Init => IInv
  BY DEF Init, IInv, TypeOK, Own, StopHolds, Waited, Counted, RunningWatched,
         OnlyRunTracked, Exists

-----------------------------------------------------------------------------
\* CreateContainer
LEMMA CreateKeeps ==
  ASSUME IInv, NEW c \in Container, Create(c) \/ CreateFromImage(c)
  PROVE  IInv'
<1>1. /\ UNCHANGED <<running, process, exitCode, home, life, killed, monitor, waiter, starts>>
      /\ mu' \in {mu, "stuck"}
      /\ status' \in {status, [status EXCEPT ![c] = "created"]}
  BY DEF Create, CreateFromImage, container, os
<1>2. TypeOK'
  BY <1>1 DEF IInv, TypeOK, Exists
<1>3. (Own /\ StopHolds /\ Waited /\ Counted)'
  BY <1>1 DEF IInv, Own, StopHolds, Waited, Counted
<1>4. (RunningWatched /\ OnlyRunTracked)'
  BY <1>1 DEF IInv, RunningWatched, OnlyRunTracked
<1> QED BY <1>2, <1>3, <1>4 DEF IInv

\* StartContainer: the process is a new one.
LEMMA StartKeeps ==
  ASSUME IInv, NEW c \in Container, NEW p \in Process, Start(c, p)
  PROVE  IInv'
<1>1. /\ mu = "free" /\ UNCHANGED <<exitCode, mu, killed, waiter>>
      /\ life[p] = "unborn" /\ c \notin running
      /\ home' = [home EXCEPT ![p] = c]
      /\ life' = [life EXCEPT ![p] = "alive"]
      /\ monitor' = [monitor EXCEPT ![p] = "waiting"]
      /\ process' = [process EXCEPT ![c] = p]
      /\ status' = [status EXCEPT ![c] = "running"]
      /\ running' = running \cup {c}
      /\ starts' = [starts EXCEPT ![c] = @ + 1]
  BY DEF Start, Startable
<1>2. TypeOK'
  BY <1>1 DEF IInv, TypeOK, Exists
<1>3. Own' /\ StopHolds'
  BY <1>1 DEF IInv, TypeOK, Own, StopHolds
<1>4. Waited'
  BY <1>1 DEF IInv, TypeOK, Waited
<1>5. Counted'
  BY <1>1 DEF IInv, TypeOK, Counted
<1>6. RunningWatched'
  BY <1>1 DEF IInv, TypeOK, Own, RunningWatched
<1>7. OnlyRunTracked'
  <2> SUFFICES ASSUME NEW q \in Process, life'[q] = "alive", q \notin killed,
                      starts'[home'[q]] = 1
               PROVE  home'[q] \in running'
    BY <1>1 DEF OnlyRunTracked
  <2>1. CASE q = p
    BY <1>1, <2>1 DEF IInv, TypeOK
  <2>2. CASE q # p
    <3>1. life[q] = "alive" /\ home'[q] = home[q]
      BY <1>1, <2>2 DEF IInv, TypeOK
    <3>2. home[q] \in Container /\ starts[home[q]] > 0
      BY <3>1 DEF IInv, Counted
    <3>3. home[q] # c /\ starts[home[q]] = 1
      BY <1>1, <3>1, <3>2 DEF IInv, TypeOK
    <3> QED BY <1>1, <3>1, <3>3 DEF IInv, OnlyRunTracked
  <2> QED BY <2>1, <2>2
<1> QED BY <1>2, <1>3, <1>4, <1>5, <1>6, <1>7 DEF IInv

\* A process that is the only one of its container is the container's.
LEMMA OnlyProcess ==
  ASSUME IInv, NEW c \in Container, process[c] # Nil,
         NEW q \in Process, life[q] = "alive", home[q] = c, starts[c] = 1
  PROVE  q = process[c]
<1>1. process[c] \in Process /\ home[process[c]] = c /\ life[process[c]] # "unborn"
  BY DEF IInv, TypeOK, Own
<1> QED BY <1>1 DEF IInv, Counted

\* The first half of StopContainer.
LEMMA StopKeeps ==
  ASSUME IInv, NEW c \in Container, Stop(c)
  PROVE  IInv'
<1>1. /\ mu' = c /\ killed' \in {killed, killed \cup {process[c]}}
      /\ waiter' = [waiter EXCEPT ![process[c]] = "waiting"]
      /\ UNCHANGED <<status, running, process, exitCode, home, life, monitor, starts>>
      /\ process[c] \in Process
  BY DEF Stop, container, IInv, RunningWatched
<1>2. TypeOK'
  BY <1>1 DEF IInv, TypeOK, Exists
<1>3. (Own /\ StopHolds)'
  BY <1>1 DEF IInv, Own, StopHolds
<1>4. Waited'
  BY <1>1 DEF IInv, TypeOK, Waited
<1>5. (Counted /\ RunningWatched /\ OnlyRunTracked)'
  BY <1>1 DEF IInv, Counted, RunningWatched, OnlyRunTracked
<1> QED BY <1>2, <1>3, <1>4, <1>5 DEF IInv

\* The second half: the process is dead or has been killed.
LEMMA StoppedKeeps ==
  ASSUME IInv, NEW c \in Container, StopTimesOut(c) \/ StopSeesExit(c)
  PROVE  IInv'
<1>1. /\ mu = c /\ mu' = "free"
      /\ status' = [status EXCEPT ![c] = "exited"]
      /\ running' = running \ {c}
      /\ UNCHANGED <<process, exitCode, home, life, monitor, waiter, starts>>
  BY DEF StopTimesOut, StopSeesExit, Stopped
<1>2. process[c] \in Process
  BY <1>1 DEF IInv, StopHolds, TypeOK
<1>3. killed' = killed \/ killed' = killed \cup {process[c]}
  BY DEF StopTimesOut, StopSeesExit
<1>4. life[process[c]] = "reaped" \/ process[c] \in killed'
  BY <1>2 DEF StopTimesOut, StopSeesExit, IInv, Waited
<1>5. TypeOK'
  BY <1>1, <1>2, <1>3 DEF IInv, TypeOK, Exists
<1>6. (Own /\ StopHolds /\ Waited /\ Counted /\ RunningWatched)'
  BY <1>1 DEF IInv, Own, StopHolds, Waited, Counted, RunningWatched
<1>7. OnlyRunTracked'
  <2> SUFFICES ASSUME NEW q \in Process, life[q] = "alive", q \notin killed',
                      starts[home[q]] = 1
               PROVE  home[q] \in running'
    BY <1>1 DEF OnlyRunTracked
  <2>1. home[q] \in running
    BY <1>3 DEF IInv, OnlyRunTracked
  <2>2. home[q] # c
    BY <1>2, <1>4, OnlyProcess
  <2> QED BY <1>1, <2>1, <2>2
<1> QED BY <1>5, <1>6, <1>7 DEF IInv

\* RemoveContainer
LEMMA RemoveKeeps ==
  ASSUME IInv, NEW c \in Container, NEW force \in BOOLEAN, Remove(c, force)
  PROVE  IInv'
<1>1. /\ mu = "free" /\ running' = running \ {c}
      /\ UNCHANGED <<mu, home, life, monitor, waiter, starts>>
      /\ killed' = IF c \in running THEN killed \cup {process[c]} ELSE killed
  BY DEF Remove
<1>2. \/ UNCHANGED <<status, process, exitCode>>
      \/ /\ status' = [status EXCEPT ![c] = "removed"]
         /\ process' = [process EXCEPT ![c] = Nil]
         /\ exitCode' = [exitCode EXCEPT ![c] = Nil]
  BY DEF Remove, Forget
<1>3. c \in running => process[c] \in Process
  BY DEF IInv, RunningWatched
<1>4. TypeOK'
  BY <1>1, <1>2, <1>3 DEF IInv, TypeOK, Exists
<1>5. (Own /\ StopHolds)'
  BY <1>1, <1>2 DEF IInv, TypeOK, Own, StopHolds
<1>6. (Waited /\ Counted)'
  BY <1>1 DEF IInv, Waited, Counted
<1>7. RunningWatched'
  BY <1>1, <1>2 DEF IInv, TypeOK, RunningWatched
<1>8. OnlyRunTracked'
  <2> SUFFICES ASSUME NEW q \in Process, life[q] = "alive", q \notin killed',
                      starts[home[q]] = 1
               PROVE  home[q] \in running'
    BY <1>1 DEF OnlyRunTracked
  <2>1. home[q] \in running
    BY <1>1 DEF IInv, OnlyRunTracked
  <2>2. home[q] # c
    BY <1>1, <1>3, <2>1, OnlyProcess
  <2> QED BY <1>1, <2>1, <2>2
<1> QED BY <1>4, <1>5, <1>6, <1>7, <1>8 DEF IInv

\* The end of a process, and those who wait for it.
LEMMA ExitKeeps ==
  ASSUME IInv, NEW p \in Process, Exit(p) \/ MonitorWaits(p) \/ WaiterWaits(p)
  PROVE  IInv'
<1>1. /\ UNCHANGED <<status, running, process, exitCode, mu, home, killed, starts>>
      /\ life[p] \in {"alive", "zombie", "reaped"}
      /\ \/ /\ life[p] = "alive" /\ life' = [life EXCEPT ![p] = "zombie"]
            /\ UNCHANGED <<monitor, waiter>>
         \/ /\ life' = [life EXCEPT ![p] = "reaped"]
            /\ \/ /\ monitor[p] = "waiting" /\ UNCHANGED waiter
                  /\ \E end \in {"own", "lost"} : monitor' = [monitor EXCEPT ![p] = end]
               \/ UNCHANGED monitor /\ waiter' = [waiter EXCEPT ![p] = "done"]
  BY DEF Exit, MonitorWaits, WaiterWaits, Dead, container
<1>2. TypeOK'
  BY <1>1 DEF IInv, TypeOK, Exists
<1>3. (Own /\ StopHolds /\ Counted)'
  BY <1>1 DEF IInv, TypeOK, Own, StopHolds, Counted
<1>4. Waited'
  BY <1>1 DEF IInv, TypeOK, Waited
<1>5. (RunningWatched /\ OnlyRunTracked)'
  BY <1>1 DEF IInv, TypeOK, RunningWatched, OnlyRunTracked
<1> QED BY <1>2, <1>3, <1>4, <1>5 DEF IInv

\* What a monitor records: its process is dead, and if that was the only one
\* there is nobody left to be lost.
LEMMA RecordKeeps ==
  ASSUME IInv, NEW p \in Process, MonitorRecords(p)
  PROVE  IInv'
<1> DEFINE c == home[p]
<1>1. /\ monitor' = [monitor EXCEPT ![p] = "done"]
      /\ UNCHANGED <<process, mu, home, life, killed, waiter, starts>>
      /\ monitor[p] \in {"own", "lost"}
  BY DEF MonitorRecords, os
<1>2. life[p] = "reaped" /\ c \in Container
  BY <1>1 DEF IInv, Waited, Counted
<1>3. \/ /\ Exists(c) /\ running' = running \ {c}
         /\ status' = [status EXCEPT ![c] = "exited"]
         /\ \E code \in {p, "lost"} : exitCode' = [exitCode EXCEPT ![c] = code]
      \/ ~Exists(c) /\ UNCHANGED <<running, status, exitCode>>
  BY DEF MonitorRecords
<1>4. c \notin running' /\ running' \subseteq running /\ running \ {c} \subseteq running'
  BY <1>2, <1>3 DEF IInv, TypeOK
<1>5. TypeOK'
  BY <1>1, <1>2, <1>3 DEF IInv, TypeOK, Exists
<1>6. (Own /\ StopHolds /\ Waited /\ Counted)'
  BY <1>1, <1>2 DEF IInv, TypeOK, Own, StopHolds, Waited, Counted
<1>7. RunningWatched'
  BY <1>1, <1>4 DEF IInv, TypeOK, RunningWatched, Own
<1>8. OnlyRunTracked'
  <2> SUFFICES ASSUME NEW q \in Process, life[q] = "alive", q \notin killed,
                      starts[home[q]] = 1
               PROVE  home[q] \in running'
    BY <1>1 DEF OnlyRunTracked
  <2>1. home[q] \in running
    BY DEF IInv, OnlyRunTracked
  <2>2. home[q] # c
    BY <1>2 DEF IInv, Counted
  <2> QED BY <1>4, <2>1, <2>2
<1> QED BY <1>5, <1>6, <1>7, <1>8 DEF IInv

LEMMA StutterKeeps == IInv /\ UNCHANGED vars => IInv'
  BY DEF vars, container, os, IInv, TypeOK, Own, StopHolds, Waited, Counted,
         RunningWatched, OnlyRunTracked, Exists

\* Every step of every behaviour keeps the invariant.
LEMMA InductiveInvariant == Spec => []IInv
<1>1. IInv /\ [Next]_vars => IInv'
  <2> SUFFICES ASSUME IInv, [Next]_vars PROVE IInv'
    OBVIOUS
  <2>1. CASE Call
    BY <2>1, CreateKeeps, StartKeeps, StopKeeps, RemoveKeeps DEF Call
  <2>2. CASE StopGoesOn
    BY <2>2, StoppedKeeps DEF StopGoesOn
  <2>3. CASE \E p \in Process : Exit(p) \/ Watch(p) \/ WaiterWaits(p)
    BY <2>3, ExitKeeps, RecordKeeps DEF Watch
  <2>4. CASE UNCHANGED vars
    BY <2>4, StutterKeeps
  <2> QED BY <2>1, <2>2, <2>3, <2>4 DEF Next
<1> QED BY InitHolds, <1>1, PTL DEF Spec

-----------------------------------------------------------------------------
\* Every variable of the container runtime keeps its type (CreateContainer,
\* StartContainer, StopContainer, RemoveContainer, monitorContainer).
THEOREM TypeCorrect == Spec => []TypeOK
<1>1. IInv => TypeOK
  BY DEF IInv
<1> QED BY InductiveInvariant, <1>1, PTL

\* A container that is shown running has a monitor that has still to report the
\* end of the process it shows: StartContainer and monitorContainer keep it so.
THEOREM RunningWatchedHolds == Spec => []RunningWatched
<1>1. IInv => RunningWatched
  BY DEF IInv
<1> QED BY InductiveInvariant, <1>1, PTL

\* A live process of a container that was started once, and that StopContainer
\* or RemoveContainer has not killed, is still shown running.
THEOREM OnlyRunTrackedHolds == Spec => []OnlyRunTracked
<1>1. IInv => OnlyRunTracked
  BY DEF IInv
<1> QED BY InductiveInvariant, <1>1, PTL

\* StopContainer does not return with its process alive and not killed.
THEOREM StopKillsHolds == Spec => StopKills
<1>1. IInv /\ [Next]_vars => [StopsProcess]_vars
  <2> SUFFICES ASSUME IInv, Next, NEW c \in Container, mu = c, mu' = "free"
               PROVE  (Dead(process[c]) \/ process[c] \in killed') /\ c \notin running'
    BY DEF StopsProcess
  <2>1. PICK d \in Container : StopTimesOut(d) \/ StopSeesExit(d)
    BY DEF Next, Call, StopGoesOn, Create, CreateFromImage, Start, Startable, Stop, Remove,
           Exit, Watch, MonitorWaits, MonitorRecords, WaiterWaits, os
  <2>2. d = c /\ running' = running \ {c}
    BY <2>1 DEF StopTimesOut, StopSeesExit, Stopped
  <2>3. process[c] \in Process
    BY DEF IInv, StopHolds, TypeOK
  <2> QED BY <2>1, <2>2, <2>3 DEF StopTimesOut, StopSeesExit, IInv, Waited, Dead
<1> QED BY InductiveInvariant, <1>1, PTL DEF Spec, StopKills
=============================================================================
