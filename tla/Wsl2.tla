-------------------------------- MODULE Wsl2 --------------------------------
(***************************************************************************)
(* The containers of the command line and of the terminal interface        *)
(* (layer5/wsl2_runtime.go, cmd/aizo/cmd/container.go and shortcuts.go,    *)
(* tui/views.go).                                                          *)
(*                                                                         *)
(* A container is a directory inside WSL2 with a state.json.  Nothing else *)
(* is shared: a user of the runtime acts on a copy of the record as it read *)
(* it, and writes the whole record back afterwards.  A command lists once, *)
(* does one thing and ends; the interface keeps what it listed, and lists  *)
(* again after each thing it did.  There is no lock between them, and      *)
(* StartContainer does not look at Running.                                *)
(***************************************************************************)
EXTENDS Integers, FiniteSets

CONSTANTS
  Box,      \* container IDs (cut from uuids, so never reused)
  Proc,     \* OS processes, one for each start: a bound
  User,     \* commands and interfaces: a bound on how many act at a time
  Interface, \* those of them that are interfaces
  Nil

VARIABLES
  dir,      \* the containers whose directory exists
  disk,     \* state.json, where it exists and is whole
  copy,     \* the records each user holds
  doing,    \* how far each user's operation is
  alive,    \* the processes that run
  started,  \* the container each process was started for
  odd       \* history: containers used in a way nothing protects

vars == <<dir, disk, copy, doing, alive, started, odd>>

Record  == [pid : Proc \cup {Nil}, running : BOOLEAN]
Command == User \ Interface
None    == [b \in Box |-> Nil]
Idle    == [op |-> "idle", box |-> Nil]
Refresh == [op |-> "refresh", box |-> Nil]
Doing(op, b) == [op |-> op, box |-> b]

Init ==
  /\ dir = {}
  /\ disk = [b \in Box |-> Nil]
  /\ copy = [u \in User |-> None]
  /\ doing = [u \in User |-> Idle]
  /\ alive = {}
  /\ started = [p \in Proc |-> Nil]
  /\ odd = {}

-----------------------------------------------------------------------------
(* CreateContainer and ListContainers *)

\* After an operation, whatever came of it.
Then(u) == doing' = [doing EXCEPT ![u] = IF u \in Interface THEN Refresh ELSE Idle]
Ends(u) == Then(u) /\ copy' = IF u \in Interface THEN copy ELSE [copy EXCEPT ![u] = None]

\* The copy CreateContainer returns is only printed.  A step that fails leaves
\* the directory without a record.  The ID is a new one.
Create(u, b) ==
  /\ doing[u] = Idle
  /\ b \notin dir /\ b \notin odd
  /\ \A p \in Proc : started[p] # b
  /\ \A w \in User : copy[w][b] = Nil
  /\ dir' = dir \cup {b}
  /\ \/ disk' = [disk EXCEPT ![b] = [pid |-> Nil, running |-> FALSE]]
     \/ UNCHANGED disk
  /\ Then(u)
  /\ UNCHANGED <<copy, alive, started, odd>>

\* Whatever was listed before is replaced.  A record that cannot be read, as one
\* that is being written, is left out.
List(u) ==
  /\ \E read \in SUBSET Box :
       copy' = [copy EXCEPT ![u] = [b \in Box |-> IF b \in read THEN disk[b] ELSE Nil]]
  /\ doing' = [doing EXCEPT ![u] = Idle]
  /\ UNCHANGED <<dir, disk, alive, started, odd>>

\* Two may act on a container at a time, or one on a copy that is out of date.
Unprotected(u, b) == copy[u][b] # disk[b] \/ \E w \in User : doing[w].box = b

-----------------------------------------------------------------------------
(* StartContainer, StopContainer, RemoveContainer *)

Holds(u, b) == doing[u] = Idle /\ copy[u][b] # Nil

\* Some process for the container: it may not be able to run at all.
Launch(b, p) ==
  /\ started[p] = Nil
  /\ started' = [started EXCEPT ![p] = b]
  /\ alive' \in IF b \in dir THEN {alive, alive \cup {p}} ELSE {alive}

\* The shell puts the command in the background and reports its pid whether it
\* can run or not.
Start(u, b, p) ==
  /\ Holds(u, b)
  /\ Launch(b, p)
  /\ copy' = [copy EXCEPT ![u][b] = [pid |-> p, running |-> TRUE]]
  /\ doing' = [doing EXCEPT ![u] = Doing("persist", b)]
  /\ odd' = IF Unprotected(u, b) \/ copy[u][b].running THEN odd \cup {b} ELSE odd
  /\ UNCHANGED <<dir, disk>>

\* No pid can be read, as the command's own output came after it: what was
\* launched is on no record.  The next strategy is taken, if one is left.
StartUnread(u, b, p) ==
  /\ Holds(u, b)
  /\ Launch(b, p)
  /\ odd' = odd \cup {b}
  /\ Ends(u) \/ UNCHANGED <<doing, copy>>
  /\ UNCHANGED <<dir, disk>>

\* By the copy; one that is not running is "stopped" at once.  SIGTERM is
\* followed by a wait: the output of kill is empty, so it always lasts the
\* whole timeout.
Stop(u, b) ==
  /\ Holds(u, b)
  /\ IF copy[u][b].running
     THEN /\ doing' = [doing EXCEPT ![u] = Doing("kill", b)]
          /\ odd' = IF Unprotected(u, b) THEN odd \cup {b} ELSE odd
          /\ UNCHANGED copy
     ELSE Ends(u) /\ UNCHANGED odd
  /\ UNCHANGED <<dir, disk, alive, started>>

\* Mutant: the process is asked to end, and not made to.
KillForgotten(u, b, next) ==
  /\ copy' = [copy EXCEPT ![u][b].running = FALSE]
  /\ doing' = [doing EXCEPT ![u] = Doing(next, b)]
  /\ UNCHANGED alive

Kill(u, b, next) ==
  /\ alive' = alive \ {copy[u][b].pid}
  /\ copy' = [copy EXCEPT ![u][b].running = FALSE]
  /\ doing' = [doing EXCEPT ![u] = Doing(next, b)]

Killed(u, b) ==
  /\ \/ doing[u] = Doing("kill", b) /\ Kill(u, b, "persist")
     \/ doing[u] = Doing("remove_kill", b) /\ Kill(u, b, "remove_persist")
  /\ UNCHANGED <<dir, disk, started, odd>>

\* Errors are not looked at; without the directory there is one.
Persisted(u, b) ==
  /\ \/ doing[u] = Doing("persist", b) /\ Ends(u)
     \/ /\ doing[u] = Doing("remove_persist", b)
        /\ doing' = [doing EXCEPT ![u] = Doing("remove", b)]
        /\ UNCHANGED copy
  /\ \/ /\ b \in dir
        /\ disk' = [disk EXCEPT ![b] = copy[u][b]]
        /\ UNCHANGED odd
     \/ odd' = odd \cup {b} /\ UNCHANGED disk
  /\ UNCHANGED <<dir, alive, started>>

Remove(u, b) ==
  /\ Holds(u, b)
  /\ doing' = [doing EXCEPT ![u] =
                 Doing(IF copy[u][b].running THEN "remove_kill" ELSE "remove", b)]
  /\ odd' = IF Unprotected(u, b) THEN odd \cup {b} ELSE odd
  /\ UNCHANGED <<dir, disk, copy, alive, started>>

Removed(u, b) ==
  /\ doing[u] = Doing("remove", b)
  /\ Ends(u)
  /\ \/ dir' = dir \ {b} /\ disk' = [disk EXCEPT ![b] = Nil]
     \/ UNCHANGED <<dir, disk>>
  /\ UNCHANGED <<alive, started, odd>>

-----------------------------------------------------------------------------
(* The commands: each lists, then acts on what it listed. *)

CommandList(u) == u \in Command /\ doing[u] = Idle /\ copy[u] = None /\ List(u)

CommandCreate(u, b) == u \in Command /\ copy[u] = None /\ Create(u, b)
CommandStart(u, b, p) == u \in Command /\ (Start(u, b, p) \/ StartUnread(u, b, p))
CommandStop(u, b) == u \in Command /\ Stop(u, b)
CommandRemove(u, b) == u \in Command /\ Remove(u, b)

-----------------------------------------------------------------------------
(* The containers tab: every operation is on a row of the last refresh, and is
   followed by another refresh.  One that fails shows the old rows. *)

refresh(u) ==
  \/ List(u)
  \/ doing' = [doing EXCEPT ![u] = Idle] /\ UNCHANGED <<dir, disk, copy, alive, started, odd>>

createContainer(u, b) == Create(u, b)
startContainer(u, b) == \E p \in Proc : Start(u, b, p) \/ StartUnread(u, b, p)
stopContainer(u, b) == Stop(u, b)
removeContainer(u, b) == Remove(u, b)

Update(u) ==
  /\ u \in Interface
  /\ \/ doing[u] \in {Idle, Refresh} /\ refresh(u)
     \/ \E b \in Box : \/ createContainer(u, b) \/ startContainer(u, b)
                        \/ stopContainer(u, b) \/ removeContainer(u, b)

-----------------------------------------------------------------------------
\* A process ends by itself: nothing watches it and the record stays.
Exit(p) ==
  /\ p \in alive
  /\ alive' = alive \ {p}
  /\ UNCHANGED <<dir, disk, copy, doing, started, odd>>

\* A user is interrupted where it is and loses its copies.
Quit(u) ==
  /\ copy' = [copy EXCEPT ![u] = None]
  /\ doing' = [doing EXCEPT ![u] = Idle]
  /\ odd' = IF doing[u].box = Nil THEN odd ELSE odd \cup {doing[u].box}
  /\ UNCHANGED <<dir, disk, alive, started>>

Next ==
  \/ \E u \in User :
       \/ CommandList(u) \/ Update(u) \/ Quit(u)
       \/ \E b \in Box :
            \/ CommandCreate(u, b) \/ CommandStop(u, b) \/ CommandRemove(u, b)
            \/ Killed(u, b) \/ Persisted(u, b) \/ Removed(u, b)
            \/ \E p \in Proc : CommandStart(u, b, p)
  \/ \E p \in Proc : Exit(p)

Spec == Init /\ [][Next]_vars

-----------------------------------------------------------------------------
(* Properties *)

\* Every variable has its type.
TypeOK ==
  /\ dir \subseteq Box /\ odd \subseteq Box
  /\ disk \in [Box -> Record \cup {Nil}]
  /\ copy \in [User -> [Box -> Record \cup {Nil}]]
  /\ \A u \in User : doing[u] \in {Idle, Refresh} \/ (doing[u].box \in Box /\ copy[u][doing[u].box] # Nil)
  /\ alive \subseteq {p \in Proc : started[p] \in Box}

\* As long as a container is used by one at a time, with a fresh listing, and
\* not started twice, and the pid of its process could be read, every process that runs in it is the one its record
\* names as running, or is being started or stopped just now: the next listing
\* shows it, and whoever lists it can stop it.
RunningRecorded == \A p \in alive : LET b == started[p] IN
  b \notin odd =>
    \/ disk[b] = [pid |-> p, running |-> TRUE]
    \/ \E u \in User : doing[u] = Doing("persist", b) /\ copy[u][b].pid = p /\ copy[u][b].running
=============================================================================
