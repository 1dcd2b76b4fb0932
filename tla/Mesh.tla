-------------------------------- MODULE Mesh --------------------------------
(***************************************************************************)
(* The mesh adapter of layer 1 (mesh_adapter.go), the wire protocol        *)
(* (mesh_protocol.go) and the node that answers at the other end           *)
(* (mesh_node.go).                                                         *)
(*                                                                         *)
(* The adapter keeps one TCP connection per peer in a map.  connectPeer    *)
(* puts it there and starts a goroutine that pings every five seconds,     *)
(* removes the connection when a write fails and dials again; a successful *)
(* dial goes through connectPeer, so it starts a goroutine of its own.     *)
(* maintainer[c] is the goroutine that was started with connection c.      *)
(*                                                                         *)
(* A message is two writes, header and payload, and nothing keeps other    *)
(* writers of the connection out in between; an answer is two reads, and   *)
(* nothing keeps other readers out.  A call matches the answer it reads by *)
(* its type only.                                                          *)
(***************************************************************************)
EXTENDS Naturals, Sequences, FiniteSets

CONSTANTS
  Peer,      \* configured peer addresses
  Conn,      \* TCP connections the adapter can make: a bound
  Call,      \* requests of ReadState, SendCommand, HealthCheck, SendFile: a bound
  None,
  Retries,   \* dials of a maintainer before it gives up; 5 in the code
  Kinds,     \* the requests the program makes
  Chunks,    \* chunks of a transferred file
  MaxUnread  \* messages one connection can hold: a bound

ASSUME MeshAssumption ==
  /\ None \notin Conn /\ None \notin Call /\ None \notin Peer
  /\ "torn" \notin Call
  /\ Kinds \subseteq {"state", "command", "ping", "chunk"} /\ "ping" \in Kinds
  /\ Retries \in Nat \ {0} /\ Chunks \in Nat \ {0} /\ MaxUnread \in Nat \ {0}

VARIABLES
  node,        \* the adapter's own server: "new", "starting", "up", "stopped"
  todo,        \* peers that Connect has still to dial
  peers,       \* MeshAdapter.peers
  peerStates,  \* MeshAdapter.peerStates: what was last known of each peer
  link,        \* the connections as the operating system knows them
  remote,      \* the peer at the other end of each connection
  out,         \* what was written and not yet read by the peer's node
  back,        \* answers that were not yet read
  reader,      \* the call in the middle of reading a message, or "torn"
  maintainer,  \* maintainPeer goroutines
  call,        \* the goroutine of each request
  shared       \* history: connections used by more than one call at a time

wire == <<out, back, reader>>
vars == <<node, todo, peers, peerStates, link, remote, wire, maintainer, call, shared>>

Idle    == [pc |-> "idle", kind |-> "ping", conn |-> None, chunk |-> 1, got |-> None]
Failed  == [Idle EXCEPT !.pc = "failed"]
NoLoop  == [pc |-> "none", peer |-> None, conn |-> None, tries |-> 0]

\* A request: the maintenance ping of a goroutine, or a call's message.
Request(by, kind, chunk) == [by |-> by, kind |-> kind, chunk |-> chunk]

Half(part, req) == [part |-> part, req |-> req]

Init ==
  /\ node = "new"
  /\ todo = {}
  /\ peers = [p \in Peer |-> None]
  /\ peerStates = [p \in Peer |-> "unknown"]
  /\ link = [c \in Conn |-> "free"]
  /\ remote = [c \in Conn |-> None]
  /\ out = [c \in Conn |-> <<>>]
  /\ back = [c \in Conn |-> <<>>]
  /\ reader = [c \in Conn |-> None]
  /\ maintainer = [c \in Conn |-> NoLoop]
  /\ call = [q \in Call |-> Idle]
  /\ shared = {}

-----------------------------------------------------------------------------
(* Closing a connection: nobody can use what it still held.                 *)

Close(cs) ==
  /\ link'   = [c \in Conn |-> IF c \in cs THEN "closed" ELSE link[c]]
  /\ out'    = [c \in Conn |-> IF c \in cs THEN <<>> ELSE out[c]]
  /\ back'   = [c \in Conn |-> IF c \in cs THEN <<>> ELSE back[c]]
  /\ reader' = [c \in Conn |-> IF c \in cs THEN None ELSE reader[c]]

(* Writing on a connection.  The first write after the other end has gone   *)
(* succeeds and provokes the reset that the next one reports.               *)

WriteFails(c) == link[c] \in {"reset", "closed"}

Write(c, half) ==
  \/ /\ link[c] = "up"
     /\ out' = [out EXCEPT ![c] = Append(@, half)]
     /\ UNCHANGED link
  \/ /\ link[c] = "lost"
     /\ link' = [link EXCEPT ![c] = "reset"]
     /\ UNCHANGED out

\* A bound, on messages only: a lost connection is always written to.
Room(c) == link[c] = "up" => Len(out[c]) + Len(back[c]) < MaxUnread

-----------------------------------------------------------------------------
(* Connect, Disconnect and connectPeer *)

\* The listener may fail, for example on an address in use: Connect fails.
Connect ==
  /\ node = "new"
  /\ \/ node' = "starting" /\ todo' = Peer
     \/ node' = "stopped" /\ UNCHANGED todo
  /\ UNCHANGED <<peers, peerStates, link, remote, wire, maintainer, call, shared>>

Loop(p) == [pc |-> "load", peer |-> p, conn |-> None, tries |-> 0]

\* Mutant: nobody maintains the connection.
ConnectUnmaintained(p, c, loops) ==
  /\ link[c] = "free"
  /\ link' = [link EXCEPT ![c] = "up"]
  /\ remote' = [remote EXCEPT ![c] = p]
  /\ peers' = [peers EXCEPT ![p] = c]
  /\ maintainer' = loops

\* Mutant: the connection is not put into the map.
ConnectUnstored(p, c, loops) ==
  /\ link[c] = "free"
  /\ link' = [link EXCEPT ![c] = "up"]
  /\ remote' = [remote EXCEPT ![c] = p]
  /\ maintainer' = [loops EXCEPT ![c] = Loop(p)]
  /\ UNCHANGED peers

\* The dial succeeded; loops are the goroutines that are there already.
ConnectPeer(p, c, loops) ==
  /\ link[c] = "free"
  /\ link' = [link EXCEPT ![c] = "up"]
  /\ remote' = [remote EXCEPT ![c] = p]
  /\ peers' = [peers EXCEPT ![p] = c]
  /\ maintainer' = [loops EXCEPT ![c] = Loop(p)]

\* A peer that cannot be reached is recorded as an error and left out.
ConnectOne(p) ==
  /\ node = "starting"
  /\ p \in todo
  /\ todo' = todo \ {p}
  /\ \/ UNCHANGED <<link, remote, peers, maintainer>>
     \/ \E c \in Conn : ConnectPeer(p, c, maintainer)
  /\ UNCHANGED <<node, peerStates, wire, call, shared>>

Connected ==
  /\ node = "starting"
  /\ todo = {}
  /\ node' = "up"
  /\ UNCHANGED <<todo, peers, peerStates, link, remote, wire, maintainer, call, shared>>

\* Dials that are under way, and goroutines between two dials, go on.
Disconnect ==
  /\ node = "up"
  /\ node' = "stopped"
  /\ Close({peers[p] : p \in Peer} \ {None})
  /\ peers' = [p \in Peer |-> None]
  /\ UNCHANGED <<todo, peerStates, remote, maintainer, call, shared>>

-----------------------------------------------------------------------------
(* maintainPeer: loop m, which is none of the connection it serves but the  *)
(* goroutine started with connection m                                      *)

\* The connection the map holds now, if any; the pause of five seconds
\* comes between this and the ping.
LoadPeer(m) ==
  /\ maintainer[m].pc = "load"
  /\ LET c == peers[maintainer[m].peer]
     IN  maintainer' = [maintainer EXCEPT ![m].pc = IF c = None THEN "done" ELSE "ping",
                                          ![m].conn = c, ![m].tries = 0]
  /\ UNCHANGED <<node, todo, peers, peerStates, link, remote, wire, call, shared>>

PingRequest(m) == Request(m, "ping", 1)

PingHeader(m) ==
  /\ maintainer[m].pc = "ping"
  /\ Room(maintainer[m].conn)
  /\ Write(maintainer[m].conn, Half("header", PingRequest(m)))
  /\ maintainer' = [maintainer EXCEPT ![m].pc = "payload"]
  /\ shared' = shared \cup {maintainer[m].conn}
  /\ UNCHANGED <<node, todo, peers, peerStates, remote, back, reader, call>>

PingPayload(m) ==
  /\ maintainer[m].pc = "payload"
  /\ Write(maintainer[m].conn, Half("payload", PingRequest(m)))
  /\ maintainer' = [maintainer EXCEPT ![m].pc = "load"]
  /\ UNCHANGED <<node, todo, peers, peerStates, remote, back, reader, call, shared>>

\* The connection is closed and whatever connection of the peer is in the
\* map by now is deleted from it, not closed.
PingFails(m) ==
  /\ maintainer[m].pc \in {"ping", "payload"}
  /\ WriteFails(maintainer[m].conn)
  /\ LET p == maintainer[m].peer
     IN  /\ Close({maintainer[m].conn})
         /\ peers' = [peers EXCEPT ![p] = None]
         /\ peerStates' = [peerStates EXCEPT ![p] = IF @ = "unknown" THEN @ ELSE "offline"]
  /\ maintainer' = [maintainer EXCEPT ![m].pc = "dial", ![m].conn = None]
  /\ UNCHANGED <<node, todo, remote, call, shared>>

\* One of the retries.  After the last the loop looks for the peer once more.
Redial(m) ==
  /\ maintainer[m].pc = "dial"
  /\ \/ \E c \in Conn :
          ConnectPeer(maintainer[m].peer, c, [maintainer EXCEPT ![m].pc = "load", ![m].tries = 0])
     \/ /\ maintainer' = [maintainer EXCEPT
             ![m].tries = @ + 1,
             ![m].pc = IF maintainer[m].tries + 1 = Retries THEN "load" ELSE "dial"]
        /\ UNCHANGED <<link, remote, peers>>
  /\ UNCHANGED <<node, todo, peerStates, wire, call, shared>>

-----------------------------------------------------------------------------
(* The peers: MeshNode.handleConn                                           *)

\* The other end goes away; what it had not read is lost.
PeerFails(c) ==
  /\ link[c] = "up"
  /\ link' = [link EXCEPT ![c] = "lost"]
  /\ out' = [out EXCEPT ![c] = <<>>]
  /\ UNCHANGED <<node, todo, peers, peerStates, remote, back, reader, maintainer, call, shared>>

Whole(s) == s[1].part = "header" /\ s[2] = Half("payload", s[1].req)

\* Mutant: an answer is written twice.
HandleTwice(c) ==
  /\ link[c] = "up"
  /\ Len(out[c]) >= 2
  /\ Whole(out[c])
  /\ out' = [out EXCEPT ![c] = Tail(Tail(@))]
  /\ back' = [back EXCEPT ![c] = @ \o <<out[c][1].req, out[c][1].req>>]
  /\ UNCHANGED link
  /\ UNCHANGED <<node, todo, peers, peerStates, remote, reader, maintainer, call, shared>>

\* One message: it is carried out and answered.  What two writers have mixed
\* up cannot be decoded, and the node closes the connection.
Handle(c) ==
  /\ link[c] = "up"
  /\ Len(out[c]) >= 2
  /\ IF Whole(out[c])
       THEN LET req == out[c][1].req
            IN  /\ out' = [out EXCEPT ![c] = Tail(Tail(@))]
                /\ back' = [back EXCEPT ![c] = Append(@, req)]
                /\ UNCHANGED link
       ELSE /\ link' = [link EXCEPT ![c] = "lost"]
            /\ out' = [out EXCEPT ![c] = <<>>]
            /\ UNCHANGED back
  /\ UNCHANGED <<node, todo, peers, peerStates, remote, reader, maintainer, call, shared>>

-----------------------------------------------------------------------------
(* ReadState, SendCommand, HealthCheck and SendFile, one goroutine a peer   *)

Using(c) == {q \in Call : call[q].conn = c /\ call[q].pc \in {"write", "payload", "head", "body"}}

\* The map is copied, and the connection used from then on is the one found.
Begin(q, kind, p) ==
  /\ node # "new"
  /\ call[q].pc = "idle"
  /\ peers[p] # None
  /\ call' = [call EXCEPT ![q] = [Idle EXCEPT !.pc = "write", !.kind = kind, !.conn = peers[p]]]
  /\ shared' = IF Using(peers[p]) = {} THEN shared ELSE shared \cup {peers[p]}
  /\ UNCHANGED <<node, todo, peers, peerStates, link, remote, wire, maintainer>>

CallRequest(q) == Request(q, call[q].kind, call[q].chunk)

WriteHeader(q) ==
  /\ call[q].pc = "write"
  /\ Room(call[q].conn)
  /\ Write(call[q].conn, Half("header", CallRequest(q)))
  /\ call' = [call EXCEPT ![q].pc = "payload"]
  /\ UNCHANGED <<node, todo, peers, peerStates, remote, back, reader, maintainer, shared>>

WritePayload(q) ==
  /\ call[q].pc = "payload"
  /\ Write(call[q].conn, Half("payload", CallRequest(q)))
  /\ call' = [call EXCEPT ![q].pc = "head"]
  /\ UNCHANGED <<node, todo, peers, peerStates, remote, back, reader, maintainer, shared>>

WriteError(q) ==
  /\ call[q].pc \in {"write", "payload"}
  /\ WriteFails(call[q].conn)
  /\ call' = [call EXCEPT ![q] = Failed]
  /\ UNCHANGED <<node, todo, peers, peerStates, link, remote, wire, maintainer, shared>>

\* Whoever reads next while another call is between header and payload takes
\* the payload for a header; from then on nobody finds the next message.
ReadHeader(q) ==
  LET c == call[q].conn
  IN  /\ call[q].pc = "head"
      /\ link[c] # "closed"
      /\ back[c] # <<>> \/ reader[c] # None
      /\ IF reader[c] = None
           THEN /\ reader' = [reader EXCEPT ![c] = q]
                /\ call' = [call EXCEPT ![q].pc = "body"]
           ELSE /\ reader' = [reader EXCEPT ![c] = "torn"]
                /\ call' = [call EXCEPT ![q] = Failed]
      /\ UNCHANGED <<node, todo, peers, peerStates, link, remote, out, back, maintainer, shared>>

Matches(q, answer) == answer.kind = call[q].kind

\* ReadState stores the state it got, HealthCheck marks a known peer online;
\* SendFile goes on with the next chunk.
Accept(q, answer) ==
  LET p == remote[call[q].conn]
  IN  /\ peerStates' = [peerStates EXCEPT ![p] =
           IF \/ call[q].kind = "state"
              \/ call[q].kind = "ping" /\ @ # "unknown"
             THEN "online" ELSE @]
      /\ call' = [call EXCEPT ![q] =
           IF call[q].kind = "chunk" /\ call[q].chunk < Chunks
             THEN [call[q] EXCEPT !.pc = "write", !.chunk = @ + 1]
             ELSE [call[q] EXCEPT !.pc = "answered", !.got = answer]]

ReadBody(q) ==
  LET c == call[q].conn
  IN  /\ call[q].pc = "body"
      /\ link[c] # "closed"
      /\ IF reader[c] = q
           THEN /\ reader' = [reader EXCEPT ![c] = None]
                /\ back' = [back EXCEPT ![c] = Tail(@)]
                /\ IF Matches(q, Head(back[c]))
                     THEN Accept(q, Head(back[c]))
                     ELSE /\ call' = [call EXCEPT ![q] = Failed]
                          /\ UNCHANGED peerStates
           ELSE /\ call' = [call EXCEPT ![q] = Failed]
                /\ UNCHANGED <<peerStates, back, reader>>
      /\ UNCHANGED <<node, todo, peers, link, remote, out, maintainer, shared>>

\* The deadline passes, or the connection is found closed.  What the call has
\* read of a message is gone.
GiveUp(q) ==
  LET c == call[q].conn
  IN  /\ call[q].pc \in {"head", "body"}
      /\ call' = [call EXCEPT ![q] = Failed]
      /\ reader' = [reader EXCEPT ![c] = IF @ = q THEN "torn" ELSE @]
      /\ shared' = shared \cup {c}
      /\ UNCHANGED <<node, todo, peers, peerStates, link, remote, out, back, maintainer>>

-----------------------------------------------------------------------------
Maintain(m) == LoadPeer(m) \/ PingHeader(m) \/ PingPayload(m) \/ PingFails(m) \/ Redial(m)

Goroutine(q) ==
  \/ WriteHeader(q) \/ WritePayload(q) \/ WriteError(q)
  \/ ReadHeader(q) \/ ReadBody(q) \/ GiveUp(q)

\* A call writes its message to a peer's connection and waits for the answer.
Exchange(q, kind) ==
  \/ kind \in Kinds /\ \E p \in Peer : Begin(q, kind, p)
  \/ call[q].kind = kind /\ Goroutine(q)

\* The first two have a goroutine for every peer; the others go from peer to
\* peer, and SendFile from chunk to chunk.
ReadState(q)   == Exchange(q, "state")
SendCommand(q) == Exchange(q, "command")
HealthCheck(q) == Exchange(q, "ping")
SendFile(q)    == Exchange(q, "chunk")

Next ==
  \/ Connect \/ Connected \/ Disconnect
  \/ \E p \in Peer : ConnectOne(p)
  \/ \E c \in Conn : PeerFails(c) \/ Handle(c) \/ Maintain(c)
  \/ \E q \in Call : ReadState(q) \/ SendCommand(q) \/ HealthCheck(q) \/ SendFile(q)

Spec == Init /\ [][Next]_vars

-----------------------------------------------------------------------------
(* Properties *)

Reqs == [by : Conn \cup Call, kind : Kinds, chunk : 1..Chunks]

\* Every variable has its type.
TypeOK ==
  /\ node \in {"new", "starting", "up", "stopped"}
  /\ todo \subseteq Peer
  /\ peers \in [Peer -> Conn \cup {None}]
  /\ peerStates \in [Peer -> {"unknown", "online", "offline"}]
  /\ link \in [Conn -> {"free", "up", "lost", "reset", "closed"}]
  /\ remote \in [Conn -> Peer \cup {None}]
  /\ out \in [Conn -> Seq([part : {"header", "payload"}, req : Reqs])]
  /\ back \in [Conn -> Seq(Reqs)]
  /\ reader \in [Conn -> Call \cup {None, "torn"}]
  /\ maintainer \in [Conn -> [pc : {"none", "load", "ping", "payload", "dial", "done"},
                              peer : Peer \cup {None}, conn : Conn \cup {None},
                              tries : 0..Retries]]
  /\ call \in [Call -> [pc : {"idle", "write", "payload", "head", "body", "answered", "failed"},
                        kind : Kinds, conn : Conn \cup {None}, chunk : 1..Chunks,
                        got : Reqs \cup {None}]]
  /\ shared \subseteq Conn

\* A connection in the map is looked after: some maintenance goroutine of its
\* peer is running.  So a goroutine that finds no connection may end, and no
\* connection of the map can be lost without anybody to notice.
Maintained == \A p \in Peer : peers[p] # None =>
  \E m \in Conn : maintainer[m].peer = p /\ maintainer[m].pc # "done"

\* Answers are matched by their type alone, so a call can be given the answer
\* of another.  Where a connection was never pinged by its goroutine, never
\* used by two calls at a time and never given up on, it cannot: the answer is
\* that of the call's own message, and for a file that of its last chunk, so
\* that the node, which works in order, has all of it.
Paired == \A q \in Call :
  call[q].pc = "answered" /\ call[q].conn \notin shared => call[q].got = CallRequest(q)

\* A connection that nobody closes and that the map does not hold is never
\* the only one its peer ever had: only the goroutines that a reconnection
\* has multiplied lose an open connection.
LostOnlyByReconnection == \A c \in Conn :
  link[c] = "up" /\ (\A p \in Peer : peers[p] # c) =>
    \E m \in Conn \ {c} : maintainer[m].peer = remote[c]
=============================================================================
