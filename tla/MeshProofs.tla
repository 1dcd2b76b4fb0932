----------------------------- MODULE MeshProofs -----------------------------
(* Theorems about Mesh, for every value of its constants. *)
EXTENDS Mesh, TLAPS

Halves == [part : {"header", "payload"}, req : Reqs]
Loops  == [pc : {"none", "load", "ping", "payload", "dial", "done"},
           peer : Peer \cup {None}, conn : Conn \cup {None}, tries : 0..Retries]
Calls  == [pc : {"idle", "write", "payload", "head", "body", "answered", "failed"},
           kind : Kinds, conn : Conn \cup {None}, chunk : 1..Chunks, got : Reqs \cup {None}]

\* The type invariant in parts.
PeerTypes ==
  /\ node \in {"new", "starting", "up", "stopped"}
  /\ todo \subseteq Peer
  /\ peers \in [Peer -> Conn \cup {None}]
  /\ peerStates \in [Peer -> {"unknown", "online", "offline"}]
LinkTypes ==
  /\ link \in [Conn -> {"free", "up", "lost", "reset", "closed"}]
  /\ remote \in [Conn -> Peer \cup {None}]
  /\ shared \subseteq Conn
WireTypes ==
  /\ out \in [Conn -> Seq(Halves)]
  /\ back \in [Conn -> Seq(Reqs)]
  /\ reader \in [Conn -> Call \cup {None, "torn"}]
LoopTypes == maintainer \in [Conn -> Loops]
CallTypes == call \in [Call -> Calls]
Types == PeerTypes /\ LinkTypes /\ WireTypes /\ LoopTypes /\ CallTypes

\* The goroutine started with a connection is one of its peer; a connection
\* that was not made yet has none.
Tied == \A c \in Conn :
  /\ maintainer[c].peer = remote[c]
  /\ link[c] = "free" <=> remote[c] = None
  /\ maintainer[c].pc = "none" <=> remote[c] = None

\* The map has connections of the right peer.
InMap == \A p \in Peer : peers[p] # None => remote[peers[p]] = p

\* A goroutine that pings does so on a connection of its peer; dials are counted.
Loaded == \A m \in Conn :
  /\ maintainer[m].pc \in {"ping", "payload"} =>
       /\ maintainer[m].conn \in Conn
       /\ remote[maintainer[m].conn] = maintainer[m].peer
       /\ maintainer[m].tries = 0
  /\ maintainer[m].pc = "dial" => maintainer[m].tries < Retries

\* A call at work has a connection.
Busy == \A q \in Call :
  call[q].pc \in {"write", "payload", "head", "body"} =>
    call[q].conn \in Conn /\ remote[call[q].conn] \in Peer

\* Who reads a message has one to read.
Reading == \A c \in Conn : reader[c] \in Call => back[c] # <<>>

IInv == Types /\ Tied /\ InMap /\ Loaded /\ Busy /\ Reading /\ Maintained /\ LostOnlyByReconnection

USE MeshAssumption

LEMMA TypesAre == Types <=> TypeOK
  BY DEF Types, PeerTypes, LinkTypes, WireTypes, LoopTypes, CallTypes, TypeOK,
         Halves, Loops, Calls

LEMMA LoopType ==
  ASSUME NEW r \in Loops, NEW tries \in 0..Retries,
         NEW pc \in {"none", "load", "ping", "payload", "dial", "done"}
  PROVE  /\ [r EXCEPT !.pc = pc, !.tries = tries] \in Loops
         /\ \A conn \in Conn \cup {None} :
              [r EXCEPT !.pc = pc, !.conn = conn, !.tries = tries] \in Loops
  BY DEF Loops

LEMMA RetriesType == 0 \in 0..Retries
  OBVIOUS

LEMMA InitHolds == Init => IInv
<1> SUFFICES ASSUME Init PROVE IInv
  OBVIOUS
<1>1. Idle \in Calls
  BY DEF Idle, Calls
<1>2. NoLoop \in Loops
  BY DEF NoLoop, Loops
<1>3. Types
  BY <1>1, <1>2 DEF Init, Types, PeerTypes, LinkTypes, WireTypes, LoopTypes, CallTypes
<1>4. Tied /\ InMap /\ Loaded /\ Maintained /\ LostOnlyByReconnection
  BY DEF Init, Tied, InMap, Loaded, NoLoop, Maintained, LostOnlyByReconnection
<1>5. Busy /\ Reading
  BY DEF Init, Busy, Idle, Reading
<1> QED BY <1>3, <1>4, <1>5 DEF IInv

-----------------------------------------------------------------------------
\* A connection is made and put into the map, its goroutine started; another
\* goroutine of the peer may have dialled.
LEMMA ConnectPeerKeeps ==
  ASSUME IInv, NEW p \in Peer, NEW c \in Conn, NEW loops \in [Conn -> Loops],
         \/ loops = maintainer
         \/ \E m \in Conn : /\ maintainer[m].pc = "dial" /\ maintainer[m].peer = p
                            /\ loops = [maintainer EXCEPT ![m].pc = "load", ![m].tries = 0],
         ConnectPeer(p, c, loops), UNCHANGED <<node, peerStates, wire, call, shared>>,
         todo' \subseteq todo
  PROVE  IInv'
<1>1. /\ link[c] = "free"
      /\ link' = [link EXCEPT ![c] = "up"]
      /\ remote' = [remote EXCEPT ![c] = p]
      /\ peers' = [peers EXCEPT ![p] = c]
      /\ maintainer' = [loops EXCEPT ![c] = Loop(p)]
      /\ UNCHANGED <<node, peerStates, out, back, reader, call, shared>>
  BY DEF ConnectPeer, wire
<1>2. Loop(p) \in Loops
  BY DEF Loop, Loops
<1>3. Types'
  BY <1>1, <1>2 DEF IInv, Types, PeerTypes, LinkTypes, WireTypes, LoopTypes, CallTypes
<1>4. /\ remote[c] = None /\ maintainer[c].pc = "none"
  BY <1>1 DEF IInv, Tied
<1>5. /\ \A m \in Conn \ {c} : /\ maintainer'[m].peer = maintainer[m].peer
                               /\ maintainer'[m].conn = maintainer[m].conn
                               /\ maintainer'[m] = maintainer[m] \/ maintainer'[m].pc = "load"
                               /\ maintainer[m].pc = "none" <=> maintainer'[m].pc = "none"
                               /\ maintainer[m].pc = "done" <=> maintainer'[m].pc = "done"
      /\ maintainer'[c].peer = p /\ maintainer'[c].pc = "load"
  <2>1. \A m \in Conn : /\ loops[m].peer = maintainer[m].peer
                        /\ loops[m].conn = maintainer[m].conn
                        /\ loops[m] = maintainer[m] \/ loops[m].pc = "load"
                        /\ maintainer[m].pc = "none" <=> loops[m].pc = "none"
                        /\ maintainer[m].pc = "done" <=> loops[m].pc = "done"
    <3>1. CASE loops = maintainer
      BY <3>1
    <3>2. CASE \E m \in Conn : /\ maintainer[m].pc = "dial"
                               /\ loops = [maintainer EXCEPT ![m].pc = "load", ![m].tries = 0]
      <4>1. PICK n \in Conn : /\ maintainer[n].pc = "dial"
                              /\ loops = [maintainer EXCEPT ![n].pc = "load", ![n].tries = 0]
        BY <3>2
      <4>2. \A m \in Conn : m # n => loops[m] = maintainer[m]
        BY <4>1 DEF IInv, Types, LoopTypes
      <4>3. /\ loops[n].peer = maintainer[n].peer /\ loops[n].conn = maintainer[n].conn
            /\ loops[n].pc = "load"
        BY <4>1 DEF IInv, Types, LoopTypes, Loops
      <4> QED BY ONLY <4>1, <4>2, <4>3
    <3> QED BY <3>1, <3>2
  <2>2. /\ \A m \in Conn \ {c} : maintainer'[m] = loops[m]
        /\ maintainer'[c] = Loop(p)
    BY <1>1
  <2> QED BY <2>1, <2>2 DEF Loop
<1>6. Tied'
  BY <1>1, <1>5 DEF IInv, Types, LinkTypes, Tied
<1>7. InMap'
  BY <1>1, <1>4 DEF IInv, Types, PeerTypes, LinkTypes, InMap
<1>8. Loaded'
  BY <1>1, <1>4, <1>5 DEF IInv, Types, LinkTypes, LoopTypes, Loops, Loaded, Tied
<1>9. Busy' /\ Reading'
  BY <1>1, <1>4 DEF IInv, Types, LinkTypes, Busy, Reading
<1>10. Maintained'
  <2> SUFFICES ASSUME NEW r \in Peer, peers'[r] # None
               PROVE  \E m \in Conn : maintainer'[m].peer = r /\ maintainer'[m].pc # "done"
    BY DEF Maintained
  <2>1. CASE r = p
    BY <1>5, <2>1
  <2>2. CASE r # p
    <3>1. peers[r] # None
      BY <1>1, <2>2 DEF IInv, Types, PeerTypes
    <3>2. PICK m \in Conn : maintainer[m].peer = r /\ maintainer[m].pc # "done"
      BY <3>1 DEF IInv, Maintained
    <3>3. m # c
      BY <1>4, <3>2 DEF IInv, Tied
    <3> QED BY <1>5, <3>2, <3>3
  <2> QED BY <2>1, <2>2
<1>11. LostOnlyByReconnection'
  <2> SUFFICES ASSUME NEW d \in Conn, link'[d] = "up", \A r \in Peer : peers'[r] # d
               PROVE  \E m \in Conn \ {d} : maintainer'[m].peer = remote'[d]
    BY DEF LostOnlyByReconnection
  <2>1. d # c /\ link[d] = "up" /\ remote'[d] = remote[d]
    BY <1>1 DEF IInv, Types, LinkTypes, PeerTypes
  <2>2. CASE peers[p] = d
    BY <1>5, <2>1, <2>2 DEF IInv, InMap
  <2>3. CASE peers[p] # d
    <3>1. \A r \in Peer : peers[r] # d
      BY <1>1, <2>3 DEF IInv, Types, PeerTypes
    <3>2. PICK m \in Conn \ {d} : maintainer[m].peer = remote[d]
      BY <2>1, <3>1 DEF IInv, LostOnlyByReconnection
    <3>3. m # c
      BY <1>4, <2>1, <3>2 DEF IInv, Tied
    <3> QED BY <1>5, <2>1, <3>2, <3>3
  <2> QED BY <2>2, <2>3
<1> QED BY <1>3, <1>6, <1>7, <1>8, <1>9, <1>10, <1>11 DEF IInv

\* Connect, Connected and a dial of Connect's that fails.
LEMMA ConnectKeeps ==
  ASSUME IInv, UNCHANGED <<peers, peerStates, link, remote, wire, maintainer, call, shared>>,
         node' \in {"new", "starting", "up", "stopped"}, todo' \subseteq Peer
  PROVE  IInv'
<1>1. Types'
  BY DEF IInv, Types, PeerTypes, LinkTypes, WireTypes, LoopTypes, CallTypes, wire
<1> QED
  BY <1>1 DEF IInv, Tied, InMap, Loaded, Busy, Reading, Maintained, LostOnlyByReconnection, wire

\* Disconnect
LEMMA DisconnectKeeps ==
  ASSUME IInv, Disconnect
  PROVE  IInv'
<1> DEFINE cs == {peers[p] : p \in Peer} \ {None}
<1>1. /\ Close(cs)
      /\ peers' = [p \in Peer |-> None]
      /\ node' = "stopped"
      /\ UNCHANGED <<todo, peerStates, remote, maintainer, call, shared>>
  BY DEF Disconnect
<1>2. \A c \in Conn : /\ link'[c] = IF c \in cs THEN "closed" ELSE link[c]
                      /\ c \in cs => link[c] # "free"
  BY <1>1 DEF Close, IInv, Tied, InMap
<1>3. Types'
  BY <1>1 DEF Close, IInv, Types, PeerTypes, LinkTypes, WireTypes, LoopTypes, CallTypes
<1>4. Tied' /\ InMap' /\ Loaded' /\ Busy' /\ Maintained'
  BY <1>1, <1>2 DEF IInv, Tied, InMap, Loaded, Busy, Maintained
<1>5. Reading'
  BY <1>1 DEF Close, IInv, Reading
<1>6. LostOnlyByReconnection'
  BY <1>1, <1>2 DEF IInv, LostOnlyByReconnection
<1> QED BY <1>3, <1>4, <1>5, <1>6 DEF IInv

-----------------------------------------------------------------------------
\* A step of a goroutine that leaves the connections' links and the map alone
\* and does not end while there is a connection.
LEMMA LoopMoves ==
  ASSUME IInv, NEW m \in Conn, NEW pc, NEW conn, NEW tries,
         maintainer' = [maintainer EXCEPT ![m].pc = pc, ![m].conn = conn, ![m].tries = tries],
         UNCHANGED <<peers, remote>>,
         [maintainer[m] EXCEPT !.pc = pc, !.conn = conn, !.tries = tries] \in Loops,
         maintainer[m].pc # "none" /\ pc # "none",
         pc = "done" => peers[maintainer[m].peer] = None,
         pc \in {"ping", "payload"} =>
           conn \in Conn /\ remote[conn] = maintainer[m].peer /\ tries = 0,
         pc = "dial" => tries < Retries,
         \A c \in Conn : link'[c] = "free" <=> link[c] = "free",
         \A c \in Conn : link'[c] = "up" => link[c] = "up"
  PROVE  LoopTypes' /\ Tied' /\ InMap' /\ Loaded' /\ Maintained' /\ LostOnlyByReconnection'
<1>1. LoopTypes'
  BY DEF IInv, Types, LoopTypes
<1>2. \A n \in Conn : n # m => maintainer'[n] = maintainer[n]
  BY DEF IInv, Types, LoopTypes
<1>3. /\ maintainer'[m].peer = maintainer[m].peer /\ maintainer'[m].pc = pc
      /\ maintainer'[m].conn = conn /\ maintainer'[m].tries = tries
  BY DEF IInv, Types, LoopTypes, Loops
<1> HIDE DEF Loops
<1>4. Tied'
  BY ONLY IInv, UNCHANGED <<peers, remote>>, <1>2, <1>3, maintainer[m].pc # "none" /\ pc # "none",
     \A c \in Conn : link'[c] = "free" <=> link[c] = "free" DEF IInv, Tied
<1>5. InMap'
  BY ONLY IInv, UNCHANGED <<peers, remote>> DEF IInv, InMap
<1>6. Loaded'
  BY ONLY IInv, UNCHANGED <<peers, remote>>, <1>2, <1>3,
     pc \in {"ping", "payload"} => conn \in Conn /\ remote[conn] = maintainer[m].peer /\ tries = 0,
     pc = "dial" => tries < Retries DEF IInv, Loaded
<1>7. Maintained'
  BY ONLY IInv, UNCHANGED <<peers, remote>>, <1>2, <1>3, MeshAssumption,
     pc = "done" => peers[maintainer[m].peer] = None DEF IInv, Maintained
<1>8. LostOnlyByReconnection'
  BY ONLY IInv, UNCHANGED <<peers, remote>>, <1>2, <1>3,
     \A c \in Conn : link'[c] = "up" => link[c] = "up" DEF IInv, LostOnlyByReconnection
<1> QED BY <1>1, <1>4, <1>5, <1>6, <1>7, <1>8

\* Steps that change no connection's existence keep what is known of the calls.
LEMMA BusyStays ==
  ASSUME IInv, UNCHANGED <<call, remote>>
  PROVE  CallTypes' /\ Busy'
  BY DEF IInv, Types, CallTypes, Busy

LEMMA LoadKeeps ==
  ASSUME IInv, NEW m \in Conn, LoadPeer(m)
  PROVE  IInv'
<1> DEFINE conn == peers[maintainer[m].peer]
           pc   == IF conn = None THEN "done" ELSE "ping"
<1>1. /\ maintainer[m].pc = "load"
      /\ maintainer' = [maintainer EXCEPT ![m].pc = pc, ![m].conn = conn, ![m].tries = 0]
      /\ UNCHANGED <<node, todo, peers, peerStates, link, remote, out, back, reader, call, shared>>
  BY DEF LoadPeer, wire
<1>2. maintainer[m].peer \in Peer /\ conn \in Conn \cup {None}
  BY <1>1 DEF IInv, Types, PeerTypes, LinkTypes, LoopTypes, Loops, Tied
<1>3. /\ pc \in {"ping", "done"}
      /\ pc = "done" => peers[maintainer[m].peer] = None
      /\ pc = "ping" => conn \in Conn /\ remote[conn] = maintainer[m].peer
  BY <1>2 DEF IInv, InMap
<1> HIDE DEF conn, pc
<1>4. [maintainer[m] EXCEPT !.pc = pc, !.conn = conn, !.tries = 0] \in Loops
  <2>1. maintainer[m] \in Loops
    BY DEF IInv, Types, LoopTypes
  <2> QED BY <1>2, <1>3, <2>1, LoopType, RetriesType
<1>5. LoopTypes' /\ Tied' /\ InMap' /\ Loaded' /\ Maintained' /\ LostOnlyByReconnection'
  BY <1>1, <1>3, <1>4, LoopMoves
<1>6. PeerTypes' /\ LinkTypes' /\ WireTypes' /\ Reading'
  BY <1>1 DEF IInv, Types, PeerTypes, LinkTypes, WireTypes, Reading
<1> QED BY <1>1, <1>5, <1>6, BusyStays DEF IInv, Types

\* Writing half a message.
LEMMA WriteKeeps ==
  ASSUME IInv, NEW c \in Conn, NEW half \in Halves, Write(c, half),
         UNCHANGED <<back, reader>>
  PROVE  /\ WireTypes' /\ Reading'
         /\ link' \in [Conn -> {"free", "up", "lost", "reset", "closed"}]
         /\ \A d \in Conn : link'[d] = "free" <=> link[d] = "free"
         /\ \A d \in Conn : link'[d] = "up" => link[d] = "up"
<1> USE DEF IInv, Types, LinkTypes, WireTypes, Reading
<1>1. CASE link[c] = "up" /\ out' = [out EXCEPT ![c] = Append(@, half)] /\ UNCHANGED link
  <2>1. Append(out[c], half) \in Seq(Halves)
    OBVIOUS
  <2> QED BY <1>1, <2>1
<1>2. CASE link[c] = "lost" /\ link' = [link EXCEPT ![c] = "reset"] /\ UNCHANGED out
  BY <1>2
<1> QED BY <1>1, <1>2 DEF Write

LEMMA PingKeeps ==
  ASSUME IInv, NEW m \in Conn, PingHeader(m) \/ PingPayload(m)
  PROVE  IInv'
<1>1. /\ maintainer[m].pc \in {"ping", "payload"}
      /\ \E half \in {Half("header", PingRequest(m)), Half("payload", PingRequest(m))} :
           Write(maintainer[m].conn, half)
      /\ \E pc \in {"payload", "load"} : maintainer' = [maintainer EXCEPT ![m].pc = pc]
      /\ shared' \in {shared, shared \cup {maintainer[m].conn}}
      /\ UNCHANGED <<node, todo, peers, peerStates, remote, back, reader, call>>
  BY DEF PingHeader, PingPayload
<1>2. /\ maintainer[m].conn \in Conn /\ maintainer[m].tries = 0
      /\ remote[maintainer[m].conn] = maintainer[m].peer
      /\ maintainer[m] \in Loops
  BY <1>1 DEF IInv, Loaded, Types, LoopTypes
<1>3. PingRequest(m) \in Reqs
  BY DEF PingRequest, Request, Reqs
<1>4. {Half("header", PingRequest(m)), Half("payload", PingRequest(m))} \subseteq Halves
  BY <1>3 DEF Half, Halves
<1>5. PICK pc \in {"payload", "load"} : maintainer' = [maintainer EXCEPT ![m].pc = pc]
  BY <1>1
<1>6. /\ [maintainer[m] EXCEPT !.pc = pc, !.conn = maintainer[m].conn, !.tries = 0] \in Loops
      /\ maintainer' = [maintainer EXCEPT ![m].pc = pc, ![m].conn = maintainer[m].conn, ![m].tries = 0]
  BY <1>2, <1>5 DEF IInv, Types, LoopTypes, Loops
<1>7. /\ WireTypes' /\ Reading'
      /\ link' \in [Conn -> {"free", "up", "lost", "reset", "closed"}]
      /\ \A d \in Conn : link'[d] = "free" <=> link[d] = "free"
      /\ \A d \in Conn : link'[d] = "up" => link[d] = "up"
  BY <1>1, <1>2, <1>4, WriteKeeps
<1>8. LoopTypes' /\ Tied' /\ InMap' /\ Loaded' /\ Maintained' /\ LostOnlyByReconnection'
  BY <1>1, <1>2, <1>5, <1>6, <1>7, LoopMoves
<1>9. PeerTypes' /\ LinkTypes'
  BY <1>1, <1>2, <1>7 DEF IInv, Types, PeerTypes, LinkTypes
<1> QED BY <1>1, <1>7, <1>8, <1>9, BusyStays DEF IInv, Types

\* The goroutine deletes the entry of its peer.  An open connection that this
\* loses is not the one it pinged, whose goroutine is of the same peer.
LEMMA PingFailsKeeps ==
  ASSUME IInv, NEW m \in Conn, PingFails(m)
  PROVE  IInv'
<1> DEFINE p == maintainer[m].peer
           c == maintainer[m].conn
<1>1. /\ maintainer[m].pc \in {"ping", "payload"}
      /\ Close({c})
      /\ peers' = [peers EXCEPT ![p] = None]
      /\ peerStates' = [peerStates EXCEPT ![p] = IF @ = "unknown" THEN @ ELSE "offline"]
      /\ maintainer' = [maintainer EXCEPT ![m].pc = "dial", ![m].conn = None]
      /\ UNCHANGED <<node, todo, remote, call, shared>>
  BY DEF PingFails
<1>2. c \in Conn /\ remote[c] = p /\ maintainer[m].tries = 0 /\ p \in Peer
  BY <1>1 DEF IInv, Loaded, Tied, Types, LinkTypes
<1>3. /\ WireTypes' /\ Reading'
      /\ \A d \in Conn : link'[d] = IF d = c THEN "closed" ELSE link[d]
      /\ link' \in [Conn -> {"free", "up", "lost", "reset", "closed"}]
  BY <1>1, <1>2 DEF Close, IInv, Types, WireTypes, LinkTypes, Reading
<1>4. PeerTypes'
  BY <1>1 DEF IInv, Types, PeerTypes
<1>5. LoopTypes'
  BY <1>1 DEF IInv, Types, LoopTypes, Loops
<1>6. /\ \A n \in Conn : n # m => maintainer'[n] = maintainer[n]
      /\ maintainer'[m].peer = p /\ maintainer'[m].pc = "dial" /\ maintainer'[m].tries = 0
  BY <1>1, <1>2 DEF IInv, Types, LoopTypes, Loops
<1>7. \A r \in Peer : peers'[r] = IF r = p THEN None ELSE peers[r]
  BY <1>1 DEF IInv, Types, PeerTypes
<1>8. link[c] # "free" /\ maintainer[c].peer = p
  BY <1>2 DEF IInv, Tied
<1> HIDE DEF p, c
<1>9. UNCHANGED remote
  BY <1>1
<1>10. Tied'
  <2> SUFFICES ASSUME NEW d \in Conn
               PROVE  /\ maintainer'[d].peer = remote[d]
                      /\ link'[d] = "free" <=> remote[d] = None
                      /\ maintainer'[d].pc = "none" <=> remote[d] = None
    BY <1>9 DEF Tied
  <2>1. /\ maintainer[d].peer = remote[d]
        /\ link[d] = "free" <=> remote[d] = None
        /\ maintainer[d].pc = "none" <=> remote[d] = None
    BY DEF IInv, Tied
  <2>2. link'[d] = "free" <=> link[d] = "free"
    BY <1>3, <1>8
  <2>3. remote[m] = p /\ p # None
    BY <1>2 DEF IInv, Tied, p
  <2> QED BY <1>6, <2>1, <2>2, <2>3
<1>11. InMap'
  BY <1>7, <1>9 DEF IInv, InMap
<1>12. Loaded'
  BY <1>6, <1>9 DEF IInv, Loaded
<1>13. Maintained'
  BY <1>6, <1>7 DEF IInv, Maintained, p
<1>14. LostOnlyByReconnection'
  <2> SUFFICES ASSUME NEW d \in Conn, link'[d] = "up", \A r \in Peer : peers'[r] # d
               PROVE  \E n \in Conn \ {d} : maintainer'[n].peer = remote[d]
    BY <1>9 DEF LostOnlyByReconnection
  <2>1. d # c /\ link[d] = "up"
    BY <1>3
  <2>2. CASE peers[p] = d
    <3>1. remote[d] = p
      BY <1>2, <2>2 DEF IInv, InMap
    <3>2. maintainer'[c].peer = p
      BY <1>2, <1>6, <1>8
    <3> QED BY <1>2, <2>1, <3>1, <3>2
  <2>3. CASE peers[p] # d
    <3>1. PICK n \in Conn \ {d} : maintainer[n].peer = remote[d]
      BY <1>7, <2>1, <2>3 DEF IInv, LostOnlyByReconnection
    <3>2. maintainer'[n].peer = maintainer[n].peer
      BY <1>6, <3>1 DEF p
    <3> QED BY <3>1, <3>2
  <2> QED BY <2>2, <2>3
<1>15. LinkTypes'
  BY <1>1, <1>3 DEF IInv, Types, LinkTypes
<1> QED BY <1>1, <1>3, <1>4, <1>5, <1>10, <1>11, <1>12, <1>13, <1>14, <1>15, BusyStays DEF IInv, Types

LEMMA RedialKeeps ==
  ASSUME IInv, NEW m \in Conn, Redial(m)
  PROVE  IInv'
<1>1. maintainer[m].pc = "dial" /\ UNCHANGED <<node, todo, peerStates, wire, call, shared>>
  BY DEF Redial
<1>2. /\ maintainer[m].peer \in Peer /\ maintainer[m].tries + 1 \in 0..Retries
      /\ maintainer[m] \in Loops
  BY <1>1 DEF IInv, Types, LinkTypes, LoopTypes, Loops, Tied, Loaded
<1>3. CASE \E c \in Conn : ConnectPeer(maintainer[m].peer, c,
                              [maintainer EXCEPT ![m].pc = "load", ![m].tries = 0])
  <2>1. [maintainer EXCEPT ![m].pc = "load", ![m].tries = 0] \in [Conn -> Loops]
    <3>1. [maintainer EXCEPT ![m].pc = "load", ![m].tries = 0]
            = [maintainer EXCEPT ![m] = [maintainer[m] EXCEPT !.pc = "load", !.tries = 0]]
      BY DEF IInv, Types, LoopTypes
    <3>2. [maintainer[m] EXCEPT !.pc = "load", !.tries = 0] \in Loops
      BY <1>2, LoopType, RetriesType
    <3> QED BY <3>1, <3>2 DEF IInv, Types, LoopTypes
  <2> QED BY <1>1, <1>2, <1>3, <2>1, ConnectPeerKeeps
<1>4. CASE /\ maintainer' = [maintainer EXCEPT
                ![m].tries = @ + 1,
                ![m].pc = IF maintainer[m].tries + 1 = Retries THEN "load" ELSE "dial"]
           /\ UNCHANGED <<link, remote, peers>>
  <2> DEFINE tries == maintainer[m].tries + 1
             pc    == IF tries = Retries THEN "load" ELSE "dial"
             conn  == maintainer[m].conn
  <2>1. [maintainer[m] EXCEPT !.pc = pc, !.conn = conn, !.tries = tries] \in Loops
    BY <1>2 DEF Loops
  <2>2. maintainer' = [maintainer EXCEPT ![m].pc = pc, ![m].conn = conn, ![m].tries = tries]
    BY <1>2, <1>4 DEF IInv, Types, LoopTypes, Loops
  <2>3. pc = "dial" => tries < Retries
    BY <1>2
  <2>4. pc \notin {"none", "done", "ping", "payload"}
    OBVIOUS
  <2> HIDE DEF pc, tries, conn
  <2>5. LoopTypes' /\ Tied' /\ InMap' /\ Loaded' /\ Maintained' /\ LostOnlyByReconnection'
    BY <1>1, <1>4, <2>1, <2>2, <2>3, <2>4, LoopMoves
  <2>6. PeerTypes' /\ LinkTypes' /\ WireTypes' /\ Reading'
    BY <1>1, <1>4 DEF IInv, Types, PeerTypes, LinkTypes, WireTypes, Reading, wire
  <2> QED BY <1>1, <1>4, <2>5, <2>6, BusyStays DEF IInv, Types
<1> QED BY <1>3, <1>4 DEF Redial

-----------------------------------------------------------------------------
\* The peers and the calls: no connection is made, and none leaves the map.
LEMMA LoopStays ==
  ASSUME IInv, UNCHANGED <<peers, remote, maintainer>>,
         \A c \in Conn : link'[c] = "free" <=> link[c] = "free",
         \A c \in Conn : link'[c] = "up" => link[c] = "up"
  PROVE  LoopTypes' /\ Tied' /\ InMap' /\ Loaded' /\ Maintained' /\ LostOnlyByReconnection'
  BY DEF IInv, Types, LoopTypes, Tied, InMap, Loaded, Maintained, LostOnlyByReconnection

LEMMA PeerFailsKeeps ==
  ASSUME IInv, NEW c \in Conn, PeerFails(c)
  PROVE  IInv'
<1>1. /\ link[c] = "up" /\ link' = [link EXCEPT ![c] = "lost"]
      /\ out' = [out EXCEPT ![c] = <<>>]
      /\ UNCHANGED <<node, todo, peers, peerStates, remote, back, reader, maintainer, call, shared>>
  BY DEF PeerFails
<1>2. Types'
  BY <1>1 DEF IInv, Types, PeerTypes, LinkTypes, WireTypes, LoopTypes, CallTypes
<1>3. Tied' /\ InMap' /\ Loaded' /\ Maintained' /\ LostOnlyByReconnection'
  BY <1>1, LoopStays DEF IInv, Types, LinkTypes
<1>4. Busy' /\ Reading'
  BY <1>1 DEF IInv, Busy, Reading
<1> QED BY <1>2, <1>3, <1>4 DEF IInv

LEMMA TwoOff ==
  ASSUME NEW S, NEW s \in Seq(S), Len(s) >= 2
  PROVE  s[1] \in S /\ Tail(Tail(s)) \in Seq(S)
<1> DEFINE t == Tail(s)
<1>1. t \in Seq(S) /\ Len(t) = Len(s) - 1
  OBVIOUS
<1> HIDE DEF t
<1>2. t # <<>> /\ Tail(t) \in Seq(S)
  BY <1>1
<1> QED BY <1>2 DEF t

LEMMA OneOn ==
  ASSUME NEW S, NEW s \in Seq(S), NEW x \in S
  PROVE  Append(s, x) \in Seq(S) /\ Append(s, x) # <<>>
<1>1. Append(s, x) \in Seq(S) /\ Len(Append(s, x)) = Len(s) + 1
  OBVIOUS
<1> QED BY <1>1

LEMMA HandleKeeps ==
  ASSUME IInv, NEW c \in Conn, Handle(c)
  PROVE  IInv'
<1>1. /\ link[c] = "up" /\ Len(out[c]) >= 2
      /\ UNCHANGED <<node, todo, peers, peerStates, remote, reader, maintainer, call, shared>>
  BY DEF Handle
<1>2. out[c] \in Seq(Halves) /\ back[c] \in Seq(Reqs)
  BY DEF IInv, Types, WireTypes
<1>3. CASE Whole(out[c])
  <2>1. /\ out' = [out EXCEPT ![c] = Tail(Tail(out[c]))]
        /\ back' = [back EXCEPT ![c] = Append(back[c], out[c][1].req)]
        /\ UNCHANGED link
    BY <1>3 DEF Handle
  <2>2. Tail(Tail(out[c])) \in Seq(Halves) /\ out[c][1] \in Halves
    BY <1>1, <1>2, TwoOff
  <2>3. Append(back[c], out[c][1].req) \in Seq(Reqs) \ {<<>>}
    <3>1. out[c][1].req \in Reqs
      BY <2>2 DEF Halves
    <3> QED BY <1>2, <3>1, OneOn
  <2>4. WireTypes' /\ Reading'
    BY <1>1, <2>1, <2>2, <2>3 DEF IInv, Types, WireTypes, Reading
  <2>5. PeerTypes' /\ LinkTypes' /\ CallTypes' /\ Busy'
    BY <1>1, <2>1 DEF IInv, Types, PeerTypes, LinkTypes, CallTypes, Busy
  <2>6. LoopTypes' /\ Tied' /\ InMap' /\ Loaded' /\ Maintained' /\ LostOnlyByReconnection'
    BY <1>1, <2>1, LoopStays
  <2> QED BY <2>4, <2>5, <2>6 DEF IInv, Types
<1>4. CASE ~Whole(out[c])
  <2>1. /\ out' = [out EXCEPT ![c] = <<>>] /\ UNCHANGED back
        /\ link' = [link EXCEPT ![c] = "lost"]
    BY <1>4 DEF Handle
  <2>2. Types'
    BY <1>1, <2>1 DEF IInv, Types, PeerTypes, LinkTypes, WireTypes, LoopTypes, CallTypes
  <2>3. Tied' /\ InMap' /\ Loaded' /\ Maintained' /\ LostOnlyByReconnection'
    BY <1>1, <2>1, LoopStays DEF IInv, Types, LinkTypes
  <2>4. Busy' /\ Reading'
    BY <1>1, <2>1 DEF IInv, Busy, Reading
  <2> QED BY <2>2, <2>3, <2>4 DEF IInv
<1> QED BY <1>3, <1>4

\* A step of a call that does not write.
LEMMA CallMoves ==
  ASSUME IInv, NEW q \in Call, NEW r \in Calls, call' = [call EXCEPT ![q] = r],
         r.pc \in {"write", "payload", "head", "body"} =>
           r.conn \in Conn /\ remote[r.conn] \in Peer,
         UNCHANGED remote
  PROVE  CallTypes' /\ Busy'
<1>1. CallTypes'
  BY DEF IInv, Types, CallTypes
<1>2. call'[q] = r /\ \A s \in Call : s # q => call'[s] = call[s]
  BY DEF IInv, Types, CallTypes
<1>3. Busy'
  BY <1>2 DEF IInv, Busy
<1> QED BY <1>1, <1>3

LEMMA CallType ==
  /\ Idle \in Calls /\ Failed \in Calls /\ Failed.pc = "failed"
  /\ \A r \in Calls, pc \in {"payload", "head", "body"} :
       [r EXCEPT !.pc = pc] \in Calls /\ [r EXCEPT !.pc = pc].conn = r.conn
  BY DEF Idle, Failed, Calls

LEMMA BeginKeeps ==
  ASSUME IInv, NEW q \in Call, NEW kind \in Kinds, NEW p \in Peer, Begin(q, kind, p)
  PROVE  IInv'
<1> DEFINE r == [Idle EXCEPT !.pc = "write", !.kind = kind, !.conn = peers[p]]
<1>1. /\ peers[p] # None /\ call' = [call EXCEPT ![q] = r]
      /\ shared' \in {shared, shared \cup {peers[p]}}
      /\ UNCHANGED <<node, todo, peers, peerStates, link, remote, out, back, reader, maintainer>>
  BY DEF Begin, wire
<1>2. peers[p] \in Conn /\ remote[peers[p]] = p
  BY <1>1 DEF IInv, Types, PeerTypes, InMap
<1>3. r \in Calls /\ r.conn = peers[p]
  BY <1>2, 1 \in 1..Chunks DEF Idle, Calls
<1> HIDE DEF r
<1>4. CallTypes' /\ Busy'
  BY <1>1, <1>2, <1>3, CallMoves
<1>5. PeerTypes' /\ LinkTypes' /\ WireTypes' /\ Reading'
  BY <1>1, <1>2 DEF IInv, Types, PeerTypes, LinkTypes, WireTypes, Reading
<1>6. LoopTypes' /\ Tied' /\ InMap' /\ Loaded' /\ Maintained' /\ LostOnlyByReconnection'
  BY <1>1, LoopStays
<1> QED BY <1>4, <1>5, <1>6 DEF IInv, Types

LEMMA CallWriteKeeps ==
  ASSUME IInv, NEW q \in Call, WriteHeader(q) \/ WritePayload(q)
  PROVE  IInv'
<1>1. /\ call[q].pc \in {"write", "payload"}
      /\ \E part \in {"header", "payload"} : Write(call[q].conn, Half(part, CallRequest(q)))
      /\ \E pc \in {"payload", "head"} : call' = [call EXCEPT ![q].pc = pc]
      /\ UNCHANGED <<node, todo, peers, peerStates, remote, back, reader, maintainer, shared>>
  BY DEF WriteHeader, WritePayload
<1>2. call[q] \in Calls /\ call[q].conn \in Conn /\ remote[call[q].conn] \in Peer
  BY <1>1 DEF IInv, Busy, Types, CallTypes
<1>3. CallRequest(q) \in Reqs
  BY <1>2 DEF CallRequest, Request, Reqs, Calls
<1>4. \A part \in {"header", "payload"} : Half(part, CallRequest(q)) \in Halves
  BY <1>3 DEF Half, Halves
<1>5. PICK pc \in {"payload", "head"} : call' = [call EXCEPT ![q].pc = pc]
  BY <1>1
<1> DEFINE r == [call[q] EXCEPT !.pc = pc]
<1>6. call' = [call EXCEPT ![q] = r] /\ r \in Calls /\ r.conn = call[q].conn
  <2>1. r \in Calls /\ r.conn = call[q].conn
    BY <1>2, CallType
  <2> QED BY <1>5, <2>1
<1> HIDE DEF r
<1>7. CallTypes' /\ Busy'
  BY <1>1, <1>2, <1>6, CallMoves
<1>8. /\ WireTypes' /\ Reading'
      /\ link' \in [Conn -> {"free", "up", "lost", "reset", "closed"}]
      /\ \A d \in Conn : link'[d] = "free" <=> link[d] = "free"
      /\ \A d \in Conn : link'[d] = "up" => link[d] = "up"
  BY <1>1, <1>2, <1>4, WriteKeeps
<1>9. LoopTypes' /\ Tied' /\ InMap' /\ Loaded' /\ Maintained' /\ LostOnlyByReconnection'
  BY <1>1, <1>8, LoopStays
<1>10. PeerTypes' /\ LinkTypes'
  BY <1>1, <1>8 DEF IInv, Types, PeerTypes, LinkTypes
<1> QED BY <1>7, <1>8, <1>9, <1>10 DEF IInv, Types

\* A step of a call that neither writes nor reads the answer.
LEMMA CallFailsKeeps ==
  ASSUME IInv, NEW q \in Call, WriteError(q) \/ ReadHeader(q) \/ GiveUp(q)
  PROVE  IInv'
<1>1. /\ call[q].pc \in {"write", "payload", "head", "body"}
      /\ UNCHANGED <<node, todo, peers, peerStates, link, remote, out, back, maintainer>>
      /\ shared' \in {shared, shared \cup {call[q].conn}}
  BY DEF WriteError, ReadHeader, GiveUp, wire
<1>2. call[q] \in Calls /\ call[q].conn \in Conn /\ remote[call[q].conn] \in Peer
  BY <1>1 DEF IInv, Busy, Types, CallTypes
<1>3. PICK r \in {Failed, [call[q] EXCEPT !.pc = "body"]} : call' = [call EXCEPT ![q] = r]
  BY DEF WriteError, ReadHeader, GiveUp
<1>4. CallTypes' /\ Busy'
  <2>1. r \in Calls /\ (r.pc = "failed" \/ r.conn = call[q].conn)
    <3>1. CASE r = Failed
      BY <3>1, CallType
    <3>2. CASE r = [call[q] EXCEPT !.pc = "body"]
      <4> DEFINE s == [call[q] EXCEPT !.pc = "body"]
      <4>1. s \in Calls /\ s.conn = call[q].conn
        BY <1>2, CallType
      <4> HIDE DEF s
      <4> QED BY <3>2, <4>1 DEF s
    <3> QED BY <1>3, <3>1, <3>2
  <2> QED BY <1>1, <1>2, <1>3, <2>1, CallMoves
<1>5. \/ UNCHANGED reader
      \/ reader' = [reader EXCEPT ![call[q].conn] = "torn"]
      \/ /\ reader' = [reader EXCEPT ![call[q].conn] = q]
         /\ back[call[q].conn] # <<>>
  BY DEF WriteError, ReadHeader, GiveUp, wire, IInv, Types, WireTypes
<1>6. WireTypes' /\ Reading'
  <2>1. WireTypes'
    <3>1. \E who \in Call \cup {None, "torn"} :
            reader' = reader \/ reader' = [reader EXCEPT ![call[q].conn] = who]
      BY <1>5
    <3>2. reader' \in [Conn -> Call \cup {None, "torn"}]
      BY <3>1 DEF IInv, Types, WireTypes
    <3> QED BY <1>1, <3>2 DEF IInv, Types, WireTypes
  <2>2. Reading'
    <3> SUFFICES ASSUME NEW d \in Conn, reader'[d] \in Call PROVE back[d] # <<>>
      BY <1>1 DEF Reading
    <3>1. reader'[d] = reader[d] \/ (d = call[q].conn /\ back[d] # <<>>)
      BY <1>2, <1>5 DEF IInv, Types, WireTypes
    <3> QED BY <3>1 DEF IInv, Reading
  <2> QED BY <2>1, <2>2
<1>7. LoopTypes' /\ Tied' /\ InMap' /\ Loaded' /\ Maintained' /\ LostOnlyByReconnection'
  BY <1>1, LoopStays
<1>8. PeerTypes' /\ LinkTypes'
  BY <1>1, <1>2 DEF IInv, Types, PeerTypes, LinkTypes
<1> QED BY <1>4, <1>6, <1>7, <1>8 DEF IInv, Types

\* An answer that is accepted.
LEMMA AcceptKeeps ==
  ASSUME IInv, NEW q \in Call, NEW answer \in Reqs, call[q] \in Calls,
         call[q].conn \in Conn, remote[call[q].conn] \in Peer,
         Accept(q, answer), UNCHANGED <<node, todo, peers, remote>>
  PROVE  PeerTypes' /\ CallTypes' /\ Busy'
<1>1. PeerTypes'
  BY DEF Accept, IInv, Types, PeerTypes
<1>2. CASE call[q].kind = "chunk" /\ call[q].chunk < Chunks
  <2> DEFINE r == [call[q] EXCEPT !.pc = "write", !.chunk = @ + 1]
  <2>1. call' = [call EXCEPT ![q] = r]
    <3>1. call' = [call EXCEPT ![q] =
                     IF call[q].kind = "chunk" /\ call[q].chunk < Chunks
                       THEN r ELSE [call[q] EXCEPT !.pc = "answered", !.got = answer]]
      BY DEF Accept
    <3> QED BY <1>2, <3>1
  <2>2. r \in Calls /\ r.conn = call[q].conn
    <3>1. call[q].chunk + 1 \in 1..Chunks
      BY <1>2 DEF Calls
    <3> QED BY <3>1 DEF Calls
  <2> HIDE DEF r
  <2> QED BY <1>1, <2>1, <2>2, CallMoves
<1>3. CASE ~(call[q].kind = "chunk" /\ call[q].chunk < Chunks)
  <2> DEFINE r == [call[q] EXCEPT !.pc = "answered", !.got = answer]
  <2>1. call' = [call EXCEPT ![q] = r]
    BY <1>3 DEF Accept
  <2>2. r \in Calls /\ r.pc = "answered"
    BY DEF Calls
  <2> HIDE DEF r
  <2> QED BY <1>1, <2>1, <2>2, CallMoves
<1> QED BY <1>2, <1>3

LEMMA ReadBodyKeeps ==
  ASSUME IInv, NEW q \in Call, ReadBody(q)
  PROVE  IInv'
<1> DEFINE c == call[q].conn
<1>1. /\ call[q].pc = "body"
      /\ UNCHANGED <<node, todo, peers, link, remote, out, maintainer, shared>>
  BY DEF ReadBody
<1>2. call[q] \in Calls /\ c \in Conn /\ remote[c] \in Peer
  BY <1>1 DEF IInv, Busy, Types, CallTypes
<1>3. LoopTypes' /\ Tied' /\ InMap' /\ Loaded' /\ Maintained' /\ LostOnlyByReconnection'
  BY <1>1, LoopStays
<1>4. LinkTypes'
  BY <1>1 DEF IInv, Types, LinkTypes
<1>5. CASE reader[c] = q
  <2>1. back[c] \in Seq(Reqs) /\ back[c] # <<>>
    BY <1>2, <1>5 DEF IInv, Reading, Types, WireTypes
  <2>2. Tail(back[c]) \in Seq(Reqs) /\ Head(back[c]) \in Reqs
    BY <2>1
  <2>3. reader' = [reader EXCEPT ![c] = None] /\ back' = [back EXCEPT ![c] = Tail(back[c])]
    BY <1>5 DEF ReadBody
  <2>4. WireTypes' /\ Reading'
    BY <1>1, <1>2, <2>2, <2>3 DEF IInv, Types, WireTypes, Reading
  <2>5. PeerTypes' /\ CallTypes' /\ Busy'
    <3>1. CASE Accept(q, Head(back[c]))
      BY <1>1, <1>2, <2>2, <3>1, AcceptKeeps
    <3>2. CASE call' = [call EXCEPT ![q] = Failed] /\ UNCHANGED peerStates
      BY <1>1, <3>2, CallType, CallMoves DEF IInv, Types, PeerTypes
    <3> QED BY <1>5, <3>1, <3>2 DEF ReadBody
  <2> QED BY <1>3, <1>4, <2>4, <2>5 DEF IInv, Types
<1>6. CASE reader[c] # q
  <2>1. call' = [call EXCEPT ![q] = Failed] /\ UNCHANGED <<peerStates, back, reader>>
    BY <1>6 DEF ReadBody
  <2>2. CallTypes' /\ Busy'
    BY <1>1, <2>1, CallType, CallMoves
  <2>3. PeerTypes' /\ WireTypes' /\ Reading'
    BY <1>1, <2>1 DEF IInv, Types, PeerTypes, WireTypes, Reading
  <2> QED BY <1>3, <1>4, <2>2, <2>3 DEF IInv, Types
<1> QED BY <1>5, <1>6

-----------------------------------------------------------------------------
\* Every step of every behaviour keeps the invariant.
LEMMA InductiveInvariant == Spec => []IInv
<1>1. IInv /\ [Next]_vars => IInv'
  <2> SUFFICES ASSUME IInv, [Next]_vars PROVE IInv'
    OBVIOUS
  <2>1. CASE Connect \/ Connected
    BY <2>1, ConnectKeeps DEF Connect, Connected, IInv, Types, PeerTypes
  <2>2. CASE Disconnect
    BY <2>2, DisconnectKeeps
  <2>3. ASSUME NEW p \in Peer, ConnectOne(p) PROVE IInv'
    <3>1. /\ UNCHANGED <<node, peerStates, wire, call, shared>>
          /\ todo' = todo \ {p}
      BY <2>3 DEF ConnectOne
    <3>2. CASE UNCHANGED <<link, remote, peers, maintainer>>
      BY <3>1, <3>2, ConnectKeeps DEF IInv, Types, PeerTypes
    <3>3. CASE \E c \in Conn : ConnectPeer(p, c, maintainer)
      BY <3>1, <3>3, ConnectPeerKeeps DEF IInv, Types, LoopTypes
    <3> QED BY <2>3, <3>2, <3>3 DEF ConnectOne
  <2>4. ASSUME NEW c \in Conn, PeerFails(c) \/ Handle(c) \/ Maintain(c) PROVE IInv'
    BY <2>4, PeerFailsKeeps, HandleKeeps, LoadKeeps, PingKeeps, PingFailsKeeps, RedialKeeps
    DEF Maintain
  <2>5. ASSUME NEW q \in Call, NEW kind, Exchange(q, kind) PROVE IInv'
    <3>1. CASE kind \in Kinds /\ \E p \in Peer : Begin(q, kind, p)
      BY <3>1, BeginKeeps
    <3>2. CASE Goroutine(q)
      BY <3>2, CallWriteKeeps, CallFailsKeeps, ReadBodyKeeps DEF Goroutine
    <3> QED BY <2>5, <3>1, <3>2 DEF Exchange
  <2>6. CASE UNCHANGED vars
    BY <2>6, ConnectKeeps DEF vars, wire, IInv, Types, PeerTypes
  <2> QED BY <2>1, <2>2, <2>3, <2>4, <2>5, <2>6
       DEF Next, ReadState, SendCommand, HealthCheck, SendFile
<1> QED BY InitHolds, <1>1, PTL DEF Spec

\* Every variable of the mesh adapter and the wire keeps its type.
THEOREM TypeCorrect == Spec => []TypeOK
<1>1. IInv => TypeOK
  BY TypesAre DEF IInv
<1> QED BY InductiveInvariant, <1>1, PTL

\* A connection in MeshAdapter.peers always has a maintainPeer goroutine of its
\* peer that has not ended.
THEOREM MaintainedHolds == Spec => []Maintained
<1>1. IInv => Maintained
  BY DEF IInv
<1> QED BY InductiveInvariant, <1>1, PTL

\* maintainPeer and connectPeer lose an open connection only of a peer that was
\* connected more than once.
THEOREM LostHolds == Spec => []LostOnlyByReconnection
<1>1. IInv => LostOnlyByReconnection
  BY DEF IInv
<1> QED BY InductiveInvariant, <1>1, PTL


-----------------------------------------------------------------------------
(* Whose answer a call gets: a connection that is not shared serves one     *)
(* call at a time, and holds no message but that call's.                    *)

Uses(q, c) == call[q].conn = c /\ call[q].pc \in {"write", "payload", "head", "body"}
Empty(c)   == out[c] = <<>> /\ back[c] = <<>> /\ reader[c] = None

\* What there is of a call's message on the connection, from the call to the
\* node and back; or nothing, as the other end has gone.
Turn(q, c) ==
  \/ Empty(c) /\ call[q].pc = "write"
  \/ Empty(c) /\ link[c] # "up" /\ call[q].pc \in {"payload", "head"}
  \/ Empty(c) /\ link[c] = "closed" /\ call[q].pc = "body"
  \/ /\ link[c] = "up" /\ back[c] = <<>> /\ reader[c] = None
     /\ \/ call[q].pc = "payload" /\ out[c] = <<Half("header", CallRequest(q))>>
        \/ /\ call[q].pc = "head"
           /\ out[c] = <<Half("header", CallRequest(q)), Half("payload", CallRequest(q))>>
  \/ /\ out[c] = <<>> /\ back[c] = <<CallRequest(q)>>
     /\ \/ call[q].pc = "head" /\ reader[c] = None
        \/ call[q].pc = "body" /\ reader[c] = q

Sole(c) == c \notin shared =>
  /\ (\A q \in Call : ~Uses(q, c)) => Empty(c)
  /\ \A q, r \in Call : Uses(q, c) /\ Uses(r, c) => q = r
  /\ \A q \in Call : Uses(q, c) => Turn(q, c)

\* A goroutine between the two writes of a ping has marked its connection.
Pinged == \A m \in Conn : maintainer[m].pc = "payload" => maintainer[m].conn \in shared

PairInv == Pinged /\ Paired /\ \A c \in Conn : Sole(c)


\* A connection that a step leaves alone, with the calls that use it.
LEMMA SoleElsewhere ==
  ASSUME NEW c \in Conn, Sole(c), c \in shared => c \in shared',
         link'[c] = link[c], out'[c] = out[c], back'[c] = back[c], reader'[c] = reader[c],
         \A q \in Call : call'[q] = call[q] \/ (~Uses(q, c) /\ ~Uses(q, c)')
  PROVE  Sole(c)'
<1>1. \A q \in Call : /\ Uses(q, c)' <=> Uses(q, c)
                      /\ Uses(q, c) => call'[q] = call[q]
  BY DEF Uses
<1>2. Empty(c)' <=> Empty(c)
  BY DEF Empty
<1>3. ASSUME NEW q \in Call, Uses(q, c), Turn(q, c)
      PROVE  Turn(q, c)'
  <2>1. call'[q] = call[q]
    BY <1>1, <1>3
  <2>2. CallRequest(q)' = CallRequest(q)
    BY <2>1 DEF CallRequest
  <2> QED BY <1>2, <1>3, <2>1, <2>2 DEF Turn
<1> QED BY <1>1, <1>2, <1>3 DEF Sole

\* The one call that uses a connection takes a step.
LEMMA SoleOf ==
  ASSUME NEW c \in Conn, NEW q \in Call, Sole(c), c \notin shared, Uses(q, c),
         \A r \in Call : r # q => call'[r] = call[r],
         IF Uses(q, c)' THEN Turn(q, c)' ELSE Empty(c)'
  PROVE  Sole(c)'
<1>1. \A r \in Call : r # q => ~Uses(r, c)'
  BY DEF Sole, Uses
<1> QED BY <1>1 DEF Sole

\* A step of call q on connection c.
LEMMA CallPairs ==
  ASSUME IInv, PairInv, NEW q \in Call, NEW c \in Conn,
         call[q].conn \in {c, None}, call'[q].conn \in {c, None},
         \A r \in Call : r # q => call'[r] = call[r],
         \A d \in Conn : d # c => /\ link'[d] = link[d] /\ out'[d] = out[d]
                                  /\ back'[d] = back[d] /\ reader'[d] = reader[d],
         shared \subseteq shared', UNCHANGED maintainer, Sole(c)',
         call'[q].pc = "answered" /\ call'[q].conn \notin shared'
           => call'[q].got = CallRequest(q)'
  PROVE  PairInv'
<1>1. Pinged'
  BY DEF PairInv, Pinged
<1>2. ASSUME NEW r \in Call, call'[r].pc = "answered" /\ call'[r].conn \notin shared'
      PROVE  call'[r].got = CallRequest(r)'
  <2>1. CASE r = q
    BY <1>2, <2>1
  <2>2. CASE r # q
    BY <1>2, <2>2 DEF PairInv, Paired, CallRequest
  <2> QED BY <2>1, <2>2
<1>3. ASSUME NEW d \in Conn, d # c PROVE Sole(d)'
  <2>1. \A r \in Call : call'[r] = call[r] \/ (~Uses(r, d) /\ ~Uses(r, d)')
    BY <1>3 DEF Uses
  <2> QED BY <1>3, <2>1, SoleElsewhere DEF PairInv
<1> QED BY <1>1, <1>2, <1>3 DEF PairInv, Paired

-----------------------------------------------------------------------------
\* A step that moves no message and no call; a connection may be made.
LEMMA QuietPairs ==
  ASSUME IInv, PairInv, Pinged', UNCHANGED <<call, shared, out, back, reader>>,
         \A c \in Conn : link'[c] = link[c] \/ link[c] = "free"
  PROVE  PairInv'
<1>1. Paired'
  BY DEF PairInv, Paired, CallRequest
<1>2. ASSUME NEW c \in Conn PROVE Sole(c)'
  <2>1. CASE link'[c] = link[c]
    BY <2>1, SoleElsewhere DEF PairInv
  <2>2. CASE link[c] = "free"
    <3>1. remote[c] = None
      BY <2>2 DEF IInv, Tied
    <3>2. \A q \in Call : ~Uses(q, c)
      BY <3>1 DEF IInv, Busy, Uses
    <3>3. \A q \in Call : ~Uses(q, c)'
      BY <3>2 DEF Uses
    <3>4. c \notin shared => Empty(c)
      BY <3>2 DEF PairInv, Sole
    <3> QED BY <3>3, <3>4 DEF Sole, Empty
  <2> QED BY <2>1, <2>2
<1> QED BY <1>1, <1>2 DEF PairInv

\* Closing connections forgets what they held.
LEMMA ClosePairs ==
  ASSUME IInv, PairInv, NEW cs, Close(cs), Pinged', UNCHANGED <<call, shared>>
  PROVE  PairInv'
<1>1. Paired'
  BY DEF PairInv, Paired, CallRequest
<1>2. ASSUME NEW c \in Conn PROVE Sole(c)'
  <2>1. CASE c \notin cs
    <3>1. link'[c] = link[c] /\ out'[c] = out[c] /\ back'[c] = back[c] /\ reader'[c] = reader[c]
      BY <2>1 DEF Close
    <3> QED BY <3>1, SoleElsewhere DEF PairInv
  <2>2. CASE c \in cs
    <3>1. link'[c] = "closed" /\ Empty(c)'
      BY <2>2 DEF Close, Empty
    <3>2. \A q \in Call : Uses(q, c)' <=> Uses(q, c)
      BY DEF Uses
    <3>3. \A q \in Call : Uses(q, c) => Turn(q, c)'
      BY <3>1 DEF Uses, Turn
    <3> QED BY <3>1, <3>2, <3>3 DEF PairInv, Sole
  <2> QED BY <2>1, <2>2
<1> QED BY <1>1, <1>2 DEF PairInv

\* A ping's connection is shared from its header on.
LEMMA PingPairs ==
  ASSUME IInv, PairInv, NEW m \in Conn, PingHeader(m) \/ PingPayload(m)
  PROVE  PairInv'
<1> DEFINE c == maintainer[m].conn
<1>1. /\ c \in shared' /\ shared \subseteq shared'
      /\ \E half : Write(c, half)
      /\ \E pc \in {"payload", "load"} : maintainer' = [maintainer EXCEPT ![m].pc = pc]
      /\ UNCHANGED <<back, reader, call>>
  BY DEF PingHeader, PingPayload, PairInv, Pinged
<1>2. \A d \in Conn : d # c => link'[d] = link[d] /\ out'[d] = out[d]
  BY <1>1 DEF Write, IInv, Types, LinkTypes, WireTypes
<1>3. \A n \in Conn : /\ maintainer'[n].conn = maintainer[n].conn
                      /\ n # m => maintainer'[n].pc = maintainer[n].pc
  BY <1>1 DEF IInv, Types, LoopTypes, Loops
<1>4. Pinged'
  BY <1>1, <1>3 DEF PairInv, Pinged
<1>5. Paired'
  BY <1>1 DEF PairInv, Paired, CallRequest
<1>6. ASSUME NEW d \in Conn PROVE Sole(d)'
  <2>1. CASE d = c
    BY <1>1, <2>1 DEF Sole
  <2>2. CASE d # c
    BY <1>1, <1>2, <2>2, SoleElsewhere DEF PairInv
  <2> QED BY <2>1, <2>2
<1> QED BY <1>4, <1>5, <1>6 DEF PairInv

\* The node loses a message, or answers the one call there is.
LEMMA PeerFailsPairs ==
  ASSUME IInv, PairInv, NEW c \in Conn, PeerFails(c)
  PROVE  PairInv'
<1>1. /\ link[c] = "up"
      /\ link' = [link EXCEPT ![c] = "lost"] /\ out' = [out EXCEPT ![c] = <<>>]
      /\ UNCHANGED <<back, reader, maintainer, call, shared>>
  BY DEF PeerFails
<1>2. Pinged' /\ Paired'
  BY <1>1 DEF PairInv, Pinged, Paired, CallRequest
<1>3. ASSUME NEW d \in Conn PROVE Sole(d)'
  <2>1. CASE d # c
    <3>1. link'[d] = link[d] /\ out'[d] = out[d]
      BY <1>1, <2>1
    <3> QED BY <1>1, <3>1, SoleElsewhere DEF PairInv
  <2>2. CASE d = c
    <3>1. link'[c] = "lost" /\ out'[c] = <<>> /\ back'[c] = back[c] /\ reader'[c] = reader[c]
      BY <1>1 DEF IInv, Types, LinkTypes, WireTypes
    <3>2. \A q \in Call : (Uses(q, c)' <=> Uses(q, c)) /\ CallRequest(q)' = CallRequest(q)
      BY <1>1 DEF Uses, CallRequest
    <3>3. \A q \in Call : Turn(q, c) => Turn(q, c)'
      BY <1>1, <3>1, <3>2 DEF Turn, Empty
    <3>4. Empty(c) => Empty(c)'
      BY <1>1, <3>1 DEF Empty
    <3> QED BY <1>1, <2>2, <3>2, <3>3, <3>4 DEF PairInv, Sole
  <2> QED BY <2>1, <2>2
<1> QED BY <1>2, <1>3 DEF PairInv

LEMMA HandlePairs ==
  ASSUME IInv, PairInv, NEW c \in Conn, Handle(c)
  PROVE  PairInv'
<1>1. /\ link[c] = "up" /\ Len(out[c]) >= 2
      /\ UNCHANGED <<reader, maintainer, call, shared>>
  BY DEF Handle
<1>2. Pinged' /\ Paired'
  BY <1>1 DEF PairInv, Pinged, Paired, CallRequest
<1>3. ASSUME NEW d \in Conn, d # c PROVE Sole(d)'
  <2>1. link'[d] = link[d] /\ out'[d] = out[d] /\ back'[d] = back[d]
    BY <1>3 DEF Handle, IInv, Types, LinkTypes, WireTypes
  <2> QED BY <1>1, <2>1, SoleElsewhere DEF PairInv
<1>4. ASSUME c \notin shared PROVE Sole(c)'
  <2>1. PICK q \in Call : Uses(q, c)
    <3>1. ~Empty(c)
      BY <1>1 DEF Empty
    <3> QED BY <1>4, <3>1 DEF PairInv, Sole
  <2> DEFINE R == CallRequest(q)
  <2>2. /\ call[q].pc = "head" /\ out[c] = <<Half("header", R), Half("payload", R)>>
        /\ back[c] = <<>> /\ reader[c] = None
    <3>1. Turn(q, c)
      BY <1>4, <2>1 DEF PairInv, Sole
    <3> HIDE DEF R
    <3>2. out[c] # <<>>
      BY <1>1
    <3>3. out[c] # <<Half("header", R)>>
      <4> SUFFICES ASSUME NEW x, out[c] = <<x>> PROVE FALSE
        OBVIOUS
      <4> QED BY <1>1
    <3> QED BY <3>1, <3>2, <3>3 DEF Turn, Empty, R
  <2>3. R' = R
    BY <1>1 DEF CallRequest
  <2> HIDE DEF R
  <2>4. Whole(out[c])
    BY <2>2 DEF Whole, Half
  <2>5. /\ out' = [out EXCEPT ![c] = Tail(Tail(out[c]))]
        /\ back' = [back EXCEPT ![c] = Append(back[c], out[c][1].req)]
        /\ UNCHANGED link
    BY <2>4 DEF Handle
  <2>6. out'[c] = <<>>
    <3>1. out'[c] = Tail(Tail(out[c]))
      BY <2>5 DEF IInv, Types, WireTypes
    <3> QED BY <2>2, <3>1
  <2>7. back'[c] = <<R>>
    <3>1. back'[c] = Append(back[c], out[c][1].req)
      BY <2>5 DEF IInv, Types, WireTypes
    <3>2. out[c][1].req = R
      BY <2>2 DEF Half
    <3> QED BY <2>2, <3>1, <3>2
  <2>8. Turn(q, c)'
    BY <1>1, <2>2, <2>3, <2>6, <2>7 DEF Turn, R
  <2> QED BY <1>1, <1>4, <2>1, <2>8, SoleOf DEF PairInv, Uses
<1>5. Sole(c)'
  BY <1>1, <1>4 DEF Sole
<1> QED BY <1>2, <1>3, <1>5 DEF PairInv

\* A call takes a connection of the map: it is alone there, or marks it.
LEMMA BeginPairs ==
  ASSUME IInv, PairInv, NEW q \in Call, NEW kind \in Kinds, NEW p \in Peer, Begin(q, kind, p)
  PROVE  PairInv'
<1>2. PICK c \in Conn : c = peers[p]
  BY DEF Begin, IInv, Types, PeerTypes
<1> DEFINE r == [Idle EXCEPT !.pc = "write", !.kind = kind, !.conn = c]
<1>1. /\ call[q].pc = "idle" /\ call' = [call EXCEPT ![q] = r]
      /\ shared' = IF Using(c) = {} THEN shared ELSE shared \cup {c}
      /\ UNCHANGED <<link, out, back, reader, maintainer>>
  BY <1>2 DEF Begin, wire
<1>3. r.pc = "write" /\ r.conn = c
  BY DEF Idle
<1> HIDE DEF r
<1>4. call'[q] = r /\ \A s \in Call : s # q => call'[s] = call[s]
  BY <1>1 DEF IInv, Types, CallTypes
<1>5. ASSUME NEW d \in Conn PROVE Sole(d)'
  <2>1. CASE d # c
    <3>1. \A s \in Call : call'[s] = call[s] \/ (~Uses(s, d) /\ ~Uses(s, d)')
      BY <1>1, <1>3, <1>4, <2>1 DEF Uses
    <3>2. d \in shared => d \in shared'
      BY <1>1
    <3> QED BY <1>1, <3>1, <3>2, SoleElsewhere DEF PairInv
  <2>2. CASE d = c /\ c \notin shared'
    <3>1. \A s \in Call : ~Uses(s, c)
      BY <1>1, <2>2 DEF Using, Uses
    <3>2. Empty(c) /\ Empty(c)'
      BY <1>1, <1>2, <2>2, <3>1 DEF PairInv, Sole, Empty
    <3>3. \A s \in Call : s # q => ~Uses(s, c)'
      BY <1>4, <3>1 DEF Uses
    <3>4. Turn(q, c)' /\ Uses(q, c)'
      BY <1>3, <1>4, <3>2 DEF Turn, Uses
    <3> QED BY <2>2, <3>3, <3>4 DEF Sole
  <2>3. CASE c \in shared' /\ d = c
    BY <2>3 DEF Sole
  <2> QED BY <2>1, <2>2, <2>3
<1>6. Pinged'
  BY <1>1 DEF PairInv, Pinged
<1>7. ASSUME NEW s \in Call, call'[s].pc = "answered" /\ call'[s].conn \notin shared'
      PROVE  call'[s].got = CallRequest(s)'
  <2>1. s # q /\ shared \subseteq shared'
    BY <1>1, <1>3, <1>4, <1>7
  <2> QED BY <1>4, <1>7, <2>1 DEF PairInv, Paired, CallRequest
<1> QED BY <1>5, <1>6, <1>7 DEF PairInv, Paired

\* A call writes its message, half by half, on what it has for itself.
LEMMA CallWritePairs ==
  ASSUME IInv, PairInv, NEW q \in Call, WriteHeader(q) \/ WritePayload(q)
  PROVE  PairInv'
<1>2. PICK c \in Conn : c = call[q].conn
  BY DEF WriteHeader, WritePayload, IInv, Busy
<1>0. PICK R : R = CallRequest(q)
  OBVIOUS
<1>1. /\ call[q].pc \in {"write", "payload"}
      /\ IF call[q].pc = "write"
           THEN Write(c, Half("header", R)) /\ call' = [call EXCEPT ![q].pc = "payload"]
           ELSE Write(c, Half("payload", R)) /\ call' = [call EXCEPT ![q].pc = "head"]
      /\ UNCHANGED <<back, reader, maintainer, shared>>
  BY <1>0, <1>2 DEF WriteHeader, WritePayload
<1>3. /\ call'[q].pc = IF call[q].pc = "write" THEN "payload" ELSE "head"
      /\ call'[q].conn = c
      /\ CallRequest(q)' = R
      /\ \A s \in Call : s # q => call'[s] = call[s]
  BY <1>0, <1>1, <1>2 DEF IInv, Types, CallTypes, Calls, CallRequest
<1>4. \A d \in Conn : d # c => link'[d] = link[d] /\ out'[d] = out[d]
  BY <1>1 DEF Write, IInv, Types, LinkTypes, WireTypes
<1>5. Uses(q, c) /\ Uses(q, c)'
  BY <1>1, <1>2, <1>3 DEF Uses
<1>6. ASSUME c \notin shared PROVE Sole(c)'
  <2>1. Sole(c) /\ Turn(q, c)
    BY <1>2, <1>5, <1>6 DEF PairInv, Sole
  <2>2. /\ back[c] = <<>> /\ reader[c] = None
        /\ IF call[q].pc = "write" \/ link[c] # "up" THEN out[c] = <<>>
                                   ELSE out[c] = <<Half("header", R)>>
    BY <1>0, <1>1, <2>1 DEF Turn, Empty
  <2> DEFINE half == IF call[q].pc = "write" THEN Half("header", R) ELSE Half("payload", R)
  <2>3. \/ link[c] = "up" /\ out'[c] = Append(out[c], half) /\ link'[c] = "up"
        \/ link[c] = "lost" /\ out'[c] = out[c] /\ link'[c] = "reset"
    BY <1>1, <1>2 DEF Write, IInv, Types, LinkTypes, WireTypes
  <2>4. Turn(q, c)'
    <3>1. CASE link[c] = "up" /\ call[q].pc = "write"
      BY <1>1, <1>3, <2>2, <2>3, <3>1 DEF Turn
    <3>2. CASE link[c] = "up" /\ call[q].pc = "payload"
      <4>1. out'[c] = <<Half("header", R), Half("payload", R)>>
        BY <2>2, <2>3, <3>2
      <4> QED BY <1>1, <1>3, <2>2, <2>3, <3>2, <4>1 DEF Turn
    <3>3. CASE link[c] # "up"
      BY <1>1, <1>3, <2>2, <2>3, <3>3 DEF Turn, Empty
    <3> QED BY <1>1, <3>1, <3>2, <3>3
  <2> QED BY <1>2, <1>3, <1>5, <1>6, <2>1, <2>4, SoleOf
<1>7. Sole(c)'
  BY <1>1, <1>6 DEF Sole
<1>8. call'[q].pc # "answered"
  BY <1>3
<1>9. call[q].conn \in {c, None} /\ call'[q].conn \in {c, None}
  BY <1>2, <1>3
<1> QED BY <1>1, <1>2, <1>3, <1>4, <1>7, <1>8, <1>9, CallPairs

\* A call fails, before it is answered or for good.
LEMMA CallFailsPairs ==
  ASSUME IInv, PairInv, NEW q \in Call, WriteError(q) \/ GiveUp(q)
  PROVE  PairInv'
<1>2. PICK c \in Conn : c = call[q].conn
  BY DEF WriteError, GiveUp, IInv, Busy
<1>1. /\ call[q].pc \in {"write", "payload", "head", "body"}
      /\ call' = [call EXCEPT ![q] = Failed]
      /\ shared \subseteq shared'
      /\ UNCHANGED <<link, out, back, maintainer>>
  BY DEF WriteError, GiveUp, wire
<1>7. call'[q] = Failed /\ \A s \in Call : s # q => call'[s] = call[s]
  BY <1>1 DEF IInv, Types, CallTypes
<1>3. Failed.pc = "failed" /\ Failed.conn = None
  BY DEF Failed, Idle
<1>4. ~Uses(q, c)'
  BY <1>3, <1>7 DEF Uses
<1>5. CASE GiveUp(q)
  <2>1. c \in shared' /\ \A d \in Conn : d # c => reader'[d] = reader[d]
    BY <1>2, <1>5 DEF GiveUp, IInv, Types, WireTypes
  <2>2. Sole(c)'
    BY <2>1 DEF Sole
  <2>3. call[q].conn \in {c, None} /\ call'[q].conn \in {c, None}
    BY <1>2, <1>3, <1>7
  <2> QED BY <1>1, <1>2, <1>3, <1>7, <2>1, <2>2, <2>3, CallPairs
<1>6. CASE WriteError(q)
  <2>1. /\ call[q].pc \in {"write", "payload"} /\ WriteFails(c)
        /\ UNCHANGED <<reader, shared>>
    BY <1>2, <1>6 DEF WriteError, wire
  <2>2. ASSUME c \notin shared PROVE Sole(c)'
    <3>1. Sole(c) /\ Uses(q, c) /\ Turn(q, c)
      BY <1>2, <2>1, <2>2 DEF PairInv, Sole, Uses
    <3>2. Empty(c)'
      BY <1>1, <2>1, <3>1 DEF Turn, Empty, WriteFails
    <3> QED BY <1>4, <1>7, <2>2, <3>1, <3>2, SoleOf
  <2>3. Sole(c)'
    BY <2>1, <2>2 DEF Sole
  <2>4. call[q].conn \in {c, None} /\ call'[q].conn \in {c, None}
    BY <1>2, <1>3, <1>7
  <2> QED BY <1>1, <1>2, <1>3, <1>7, <2>1, <2>3, <2>4, CallPairs
<1> QED BY <1>5, <1>6

\* A call that has the connection for itself finds its own answer's header.
LEMMA ReadHeaderPairs ==
  ASSUME IInv, PairInv, NEW q \in Call, ReadHeader(q)
  PROVE  PairInv'
<1>2. PICK c \in Conn : c = call[q].conn
  BY DEF ReadHeader, IInv, Busy
<1>1. /\ call[q].pc = "head"
      /\ back[c] # <<>> \/ reader[c] # None
      /\ IF reader[c] = None
           THEN /\ reader' = [reader EXCEPT ![c] = q]
                /\ call' = [call EXCEPT ![q].pc = "body"]
           ELSE /\ reader' = [reader EXCEPT ![c] = "torn"]
                /\ call' = [call EXCEPT ![q] = Failed]
      /\ UNCHANGED <<link, out, back, maintainer, shared>>
  BY <1>2 DEF ReadHeader
<1>3. /\ \A s \in Call : s # q => call'[s] = call[s]
      /\ \A d \in Conn : d # c => reader'[d] = reader[d]
  BY <1>1 DEF IInv, Types, CallTypes, WireTypes
<1>4. Failed.pc = "failed" /\ Failed.conn = None
  BY DEF Failed, Idle
<1>5. call'[q].conn \in {c, None} /\ call'[q].pc # "answered"
  BY <1>1, <1>2, <1>4 DEF IInv, Types, CallTypes, Calls
<1>6. ASSUME c \notin shared PROVE Sole(c)'
  <2>1. Sole(c) /\ Uses(q, c) /\ Turn(q, c)
    BY <1>1, <1>2, <1>6 DEF PairInv, Sole, Uses
  <2>2. out[c] = <<>> /\ back[c] = <<CallRequest(q)>> /\ reader[c] = None
    BY <1>1, <2>1 DEF Turn, Empty
  <2>3. /\ reader'[c] = q /\ call'[q].pc = "body" /\ call'[q].conn = c
        /\ CallRequest(q)' = CallRequest(q)
    <3>1. reader'[c] = q
      BY <1>1, <2>2 DEF IInv, Types, WireTypes
    <3>2. call'[q] = [call[q] EXCEPT !.pc = "body"] /\ call[q] \in Calls
      BY <1>1, <2>2 DEF IInv, Types, CallTypes
    <3>3. /\ call'[q].pc = "body" /\ call'[q].conn = call[q].conn
          /\ call'[q].kind = call[q].kind /\ call'[q].chunk = call[q].chunk
      BY <3>2 DEF Calls
    <3> QED BY <1>2, <3>1, <3>3 DEF CallRequest
  <2>4. Turn(q, c)'
    BY <1>1, <2>2, <2>3 DEF Turn
  <2>5. Uses(q, c)'
    BY <2>3 DEF Uses
  <2> QED BY <1>2, <1>3, <1>6, <2>1, <2>4, <2>5, SoleOf
<1>7. Sole(c)'
  BY <1>1, <1>6 DEF Sole
<1>8. call[q].conn \in {c, None}
  BY <1>2
<1> QED BY <1>1, <1>2, <1>3, <1>5, <1>7, <1>8, CallPairs

\* What it then reads is the answer to its message.
LEMMA ReadBodyPairs ==
  ASSUME IInv, PairInv, NEW q \in Call, ReadBody(q)
  PROVE  PairInv'
<1>2. PICK c \in Conn : c = call[q].conn
  BY DEF ReadBody, IInv, Busy
<1>1. /\ call[q].pc = "body" /\ link[c] # "closed"
      /\ UNCHANGED <<link, out, maintainer, shared>>
  BY <1>2 DEF ReadBody
<1>3. /\ \A s \in Call : s # q => call'[s] = call[s]
      /\ \A d \in Conn : d # c => reader'[d] = reader[d] /\ back'[d] = back[d]
  BY <1>2 DEF ReadBody, Accept, IInv, Types, CallTypes, WireTypes
<1>4. Failed.pc = "failed" /\ Failed.conn = None
  BY DEF Failed, Idle
<1>5. \/ call'[q] = Failed
      \/ call'[q].conn = c /\ call'[q].pc = "write"
      \/ call'[q].conn = c /\ call'[q].pc = "answered"
  <2>1. call[q] \in Calls
    BY DEF IInv, Types, CallTypes
  <2>2. CASE call' = [call EXCEPT ![q] = Failed]
    BY <2>2 DEF IInv, Types, CallTypes
  <2>3. CASE \E answer : Accept(q, answer)
    <3>1. \/ call'[q] = [call[q] EXCEPT !.pc = "write", !.chunk = @ + 1]
          \/ \E answer : call'[q] = [call[q] EXCEPT !.pc = "answered", !.got = answer]
      BY <2>3 DEF Accept, IInv, Types, CallTypes
    <3> QED BY <1>2, <2>1, <3>1 DEF Calls
  <2> QED BY <2>2, <2>3 DEF ReadBody
<1>6. ASSUME c \notin shared
      PROVE  /\ Sole(c)'
             /\ call'[q].pc = "answered" => call'[q].got = CallRequest(q)'
  <2>1. Sole(c) /\ Uses(q, c) /\ Turn(q, c)
    BY <1>1, <1>2, <1>6 DEF PairInv, Sole, Uses
  <2>2. out[c] = <<>> /\ back[c] = <<CallRequest(q)>> /\ reader[c] = q
    BY <1>1, <2>1 DEF Turn
  <2>3. Head(back[c]) = CallRequest(q) /\ Tail(back[c]) = <<>>
    BY <2>2
  <2>4. Matches(q, Head(back[c]))
    BY <2>3 DEF Matches, CallRequest, Request
  <2>5. /\ reader' = [reader EXCEPT ![c] = None] /\ back' = [back EXCEPT ![c] = Tail(@)]
        /\ Accept(q, CallRequest(q))
    BY <1>2, <2>2, <2>3, <2>4 DEF ReadBody
  <2>6. Empty(c)'
    BY <1>1, <1>2, <2>2, <2>3, <2>5 DEF Empty, IInv, Types, WireTypes
  <2>7. call'[q].pc = "answered" =>
          /\ call'[q].got = CallRequest(q)
          /\ call'[q].kind = call[q].kind /\ call'[q].chunk = call[q].chunk
    BY <1>2, <2>5 DEF Accept, IInv, Types, CallTypes, Calls
  <2>8. call'[q].pc = "answered" => call'[q].got = CallRequest(q)'
    BY <2>7 DEF CallRequest
  <2>9. IF Uses(q, c)' THEN Turn(q, c)' ELSE Empty(c)'
    BY <1>4, <1>5, <2>6 DEF Uses, Turn
  <2> QED BY <1>2, <1>3, <1>6, <2>1, <2>8, <2>9, SoleOf
<1>7. Sole(c)'
  BY <1>1, <1>6 DEF Sole
<1>8. call'[q].pc = "answered" /\ call'[q].conn \notin shared' => call'[q].got = CallRequest(q)'
  BY <1>1, <1>4, <1>5, <1>6
<1>9. call'[q].conn \in {c, None}
  BY <1>4, <1>5
<1>10. call[q].conn \in {c, None}
  BY <1>2
<1> QED BY <1>1, <1>2, <1>3, <1>7, <1>8, <1>9, <1>10, CallPairs

-----------------------------------------------------------------------------
LEMMA PairStep ==
  ASSUME IInv, PairInv, [Next]_vars
  PROVE  PairInv'
<1>1. CASE Connect \/ Connected \/ UNCHANGED vars
  <2>1. UNCHANGED <<link, out, back, reader, call, shared, maintainer>>
    BY <1>1 DEF Connect, Connected, vars, wire
  <2>2. Pinged'
    BY <2>1 DEF PairInv, Pinged
  <2> QED BY <2>1, <2>2, QuietPairs
<1>2. CASE Disconnect
  <2>1. Pinged'
    BY <1>2 DEF Disconnect, PairInv, Pinged
  <2> QED BY <1>2, <2>1, ClosePairs DEF Disconnect
<1>3. ASSUME NEW p \in Peer, NEW c \in Conn, NEW loops, ConnectPeer(p, c, loops),
             UNCHANGED <<wire, call, shared>>,
             \A m \in Conn : loops[m].pc = "payload" => loops[m] = maintainer[m],
             loops \in [Conn -> Loops]
      PROVE  PairInv'
  <2>1. Loop(p).pc = "load"
    BY DEF Loop
  <2>2. \A m \in Conn : maintainer'[m].pc = "payload" => maintainer'[m] = maintainer[m]
    BY <1>3, <2>1 DEF ConnectPeer
  <2>3. Pinged'
    BY <1>3, <2>2 DEF PairInv, Pinged
  <2>4. \A d \in Conn : link'[d] = link[d] \/ link[d] = "free"
    BY <1>3 DEF ConnectPeer, IInv, Types, LinkTypes
  <2> QED BY <1>3, <2>3, <2>4, QuietPairs DEF wire
<1>4. ASSUME NEW p \in Peer, ConnectOne(p) PROVE PairInv'
  <2>1. UNCHANGED <<wire, call, shared>>
    BY <1>4 DEF ConnectOne
  <2>2. CASE UNCHANGED <<link, maintainer>>
    <3>1. Pinged'
      BY <2>1, <2>2 DEF PairInv, Pinged
    <3> QED BY <2>1, <2>2, <3>1, QuietPairs DEF wire
  <2>3. CASE \E c \in Conn : ConnectPeer(p, c, maintainer)
    BY <1>3, <2>1, <2>3 DEF IInv, Types, LoopTypes
  <2> QED BY <1>4, <2>2, <2>3 DEF ConnectOne
<1>5. ASSUME NEW m \in Conn, LoadPeer(m) PROVE PairInv'
  <2>1. UNCHANGED <<link, out, back, reader, call, shared>>
    BY <1>5 DEF LoadPeer, wire
  <2>2. \A n \in Conn : maintainer'[n].pc = "payload" => maintainer'[n] = maintainer[n]
    BY <1>5 DEF LoadPeer, IInv, Types, LoopTypes, Loops
  <2>3. Pinged'
    BY <2>1, <2>2 DEF PairInv, Pinged
  <2> QED BY <2>1, <2>3, QuietPairs
<1>6. ASSUME NEW m \in Conn, PingFails(m) PROVE PairInv'
  <2>1. \A n \in Conn : maintainer'[n].pc = "payload" => maintainer'[n] = maintainer[n]
    BY <1>6 DEF PingFails, IInv, Types, LoopTypes, Loops
  <2>2. UNCHANGED <<call, shared>>
    BY <1>6 DEF PingFails
  <2>3. Pinged'
    BY <2>1, <2>2 DEF PairInv, Pinged
  <2> QED BY <1>6, <2>2, <2>3, ClosePairs DEF PingFails
<1>7. ASSUME NEW m \in Conn, Redial(m) PROVE PairInv'
  <2>1. UNCHANGED <<wire, call, shared>> /\ maintainer[m].pc = "dial"
    BY <1>7 DEF Redial
  <2>2. maintainer[m].peer \in Peer /\ maintainer[m] \in Loops
    BY <2>1 DEF IInv, Tied, Types, LoopTypes, LinkTypes, Loops
  <2> DEFINE loops == [maintainer EXCEPT ![m].pc = "load", ![m].tries = 0]
  <2>3. CASE \E c \in Conn : ConnectPeer(maintainer[m].peer, c, loops)
    <3>1. loops \in [Conn -> Loops]
      <4>1. [maintainer[m] EXCEPT !.pc = "load", !.tries = 0] \in Loops
        BY <2>2, LoopType, RetriesType
      <4> QED BY <4>1 DEF IInv, Types, LoopTypes
    <3>2. \A n \in Conn : loops[n].pc = "payload" => loops[n] = maintainer[n]
      BY DEF IInv, Types, LoopTypes, Loops
    <3> HIDE DEF loops
    <3> QED BY <1>3, <2>1, <2>2, <2>3, <3>1, <3>2
  <2>4. CASE /\ maintainer' = [maintainer EXCEPT ![m].tries = @ + 1,
                  ![m].pc = IF maintainer[m].tries + 1 = Retries THEN "load" ELSE "dial"]
             /\ UNCHANGED link
    <3>1. \A n \in Conn : maintainer'[n].pc = "payload" => maintainer'[n] = maintainer[n]
      BY <2>4 DEF IInv, Types, LoopTypes, Loops
    <3>2. Pinged'
      BY <2>1, <3>1 DEF PairInv, Pinged
    <3> QED BY <2>1, <2>4, <3>2, QuietPairs DEF wire
  <2> QED BY <1>7, <2>3, <2>4 DEF Redial
<1>8. ASSUME NEW c \in Conn, PeerFails(c) \/ Handle(c) \/ Maintain(c) PROVE PairInv'
  BY <1>5, <1>6, <1>7, <1>8, PeerFailsPairs, HandlePairs, PingPairs DEF Maintain
<1>9. ASSUME NEW q \in Call, NEW kind, Exchange(q, kind) PROVE PairInv'
  <2>1. CASE kind \in Kinds /\ \E p \in Peer : Begin(q, kind, p)
    BY <2>1, BeginPairs
  <2>2. CASE Goroutine(q)
    BY <2>2, CallWritePairs, CallFailsPairs, ReadHeaderPairs, ReadBodyPairs DEF Goroutine
  <2> QED BY <1>9, <2>1, <2>2 DEF Exchange
<1> QED BY <1>1, <1>2, <1>4, <1>8, <1>9
     DEF Next, ReadState, SendCommand, HealthCheck, SendFile

\* A call gets the answer to its own message, for a file that of its last chunk,
\* wherever no ping, no second call and no deadline touched its connection
\* (MeshAdapter.ReadState, SendCommand, HealthCheck, SendFile; MeshNode.handleConn).
THEOREM PairedHolds == Spec => []Paired
<1>1. Init => PairInv
  BY DEF Init, PairInv, Pinged, Paired, Sole, Uses, Empty, Turn, NoLoop, Idle
<1>2. PairInv => Paired
  BY DEF PairInv
<1> QED BY InductiveInvariant, PairStep, <1>1, <1>2, PTL DEF Spec
=============================================================================
