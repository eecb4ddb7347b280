----------------------------- MODULE LocalIpcProofs ----------------------------
(***************************************************************************)
(* Theorems about the Agent's pipe server and the Desktop's client         *)
(* together, for every set of clients, every pipe and any number of        *)
(* restarts: their ends of the pipe agree, and they implement              *)
(* SnapshotChannel.                                                        *)
(*                                                                         *)
(* The second rests on OrderInv: the Agent's answers leave it in the order *)
(* of its store (AnswersInOrder), and the bytes the Desktop holds are in   *)
(* order between the last snapshot it was shown and all that can still     *)
(* come to it (StreamInv).                                                 *)
(***************************************************************************)
EXTENDS LocalIpc, IpcServerProofs

Fields ==
  {"running", "state", "socket", "reconnect", "attempt", "poll", "buffer", "signals", "link",
   "asked", "inbox"}

\* What the Desktop's timers and socket have to do with each other: a stopped
\* client has neither, and a retry is armed only without a socket.
Sound(c) ==
  /\ DOMAIN c = Fields
  /\ ~c.running => c.socket = "Unconnected" /\ c.reconnect = 0
  /\ c.reconnect # 0 => c.running /\ c.socket = "Unconnected"

IpcInv == IInv /\ Sound(desktop) /\ LinkAgrees

\* What a turn may do to the link: keep it or let it go.
Lets(c, d) == Sound(d) /\ d.link \in {c.link, "none"}

-----------------------------------------------------------------------------
(* The slots *)

\* A published state is only published.
LEMMA SetStateKeeps ==
  ASSUME NEW c, DOMAIN c = Fields, NEW s
  PROVE  LET d == Client!set_connection_state(c, s) IN
         /\ DOMAIN d = Fields /\ d.running = c.running /\ d.socket = c.socket
         /\ d.reconnect = c.reconnect /\ d.link = c.link
BY DEF Client!set_connection_state, Client!Emit, Fields

\* Only a running client arms its timer.
LEMMA ScheduleKeeps ==
  ASSUME NEW c, DOMAIN c = Fields
  PROVE  LET d == Client!schedule_reconnect(c) IN
         /\ DOMAIN d = Fields /\ d.running = c.running /\ d.socket = c.socket
         /\ d.link = c.link
         /\ d.reconnect # c.reconnect => c.running
BY DEF Client!schedule_reconnect, Fields

\* The same for the slot that does both.
LEMMA DisconnectedKeeps ==
  ASSUME NEW c, DOMAIN c = Fields
  PROVE  LET d == Client!handle_disconnected(c) IN
         /\ DOMAIN d = Fields /\ d.running = c.running /\ d.socket = c.socket
         /\ d.link = c.link
         /\ d.reconnect # c.reconnect => c.running
<1> DEFINE c1 == [c EXCEPT !.poll = FALSE, !.buffer = <<>>]
           c2 == Client!set_connection_state(c1, "Disconnected")
           c3 == Client!schedule_reconnect(c2)
<1>1. /\ DOMAIN c1 = Fields /\ c1.running = c.running /\ c1.socket = c.socket
      /\ c1.reconnect = c.reconnect /\ c1.link = c.link
  BY DEF Fields
<1> HIDE DEF c1
<1>2. /\ DOMAIN c2 = Fields /\ c2.running = c1.running /\ c2.socket = c1.socket
      /\ c2.reconnect = c1.reconnect /\ c2.link = c1.link
  BY <1>1, SetStateKeeps
<1> HIDE DEF c2
<1>3. /\ DOMAIN c3 = Fields /\ c3.running = c2.running /\ c3.socket = c2.socket
      /\ c3.link = c2.link
      /\ c3.reconnect # c2.reconnect => c2.running
  BY <1>2, ScheduleKeeps
<1>4. Client!handle_disconnected(c) = c3
  BY DEF Client!handle_disconnected, c1, c2
<1> HIDE DEF c3
<1> QED BY <1>1, <1>2, <1>3, <1>4

\* abort leaves a client without socket and link, whatever it ran inside.
LEMMA AbortLetsGo ==
  ASSUME NEW c, DOMAIN c = Fields
  PROVE  LET d == Client!abort(c) IN
         /\ DOMAIN d = Fields /\ d.running = c.running /\ d.socket = "Unconnected"
         /\ d.link = "none"
         /\ d.reconnect # c.reconnect => c.running
<1> DEFINE c1 == Client!Unlink(c)
           c2 == Client!handle_disconnected(c1)
<1>1. /\ DOMAIN c1 = Fields /\ c1.running = c.running /\ c1.socket = "Unconnected"
      /\ c1.reconnect = c.reconnect /\ c1.link = "none"
  BY DEF Fields, Client!Unlink
<1>2. Client!abort(c) = IF c.socket = "Connected" THEN c2 ELSE c1
  BY DEF Client!abort
<1> HIDE DEF c1
<1>3. /\ DOMAIN c2 = Fields /\ c2.running = c1.running /\ c2.socket = c1.socket
      /\ c2.link = c1.link
      /\ c2.reconnect # c1.reconnect => c1.running
  BY <1>1, DisconnectedKeeps
<1> HIDE DEF c2
<1> QED BY <1>1, <1>2, <1>3

\* stop() ends with neither socket nor timer.
LEMMA StopSound ==
  ASSUME NEW c, Sound(c)
  PROVE  Lets(c, Client!stop(c))
<1> DEFINE c1 == [c EXCEPT !.running = FALSE, !.reconnect = 0, !.poll = FALSE, !.buffer = <<>>]
           c2 == Client!abort(c1)
           c3 == Client!set_connection_state(c2, "Disconnected")
<1>1. DOMAIN c1 = Fields /\ c1.running = FALSE /\ c1.reconnect = 0
  BY DEF Fields, Sound
<1>2. Client!stop(c) = c3
  BY DEF Client!stop
<1> HIDE DEF c1
<1>3. /\ DOMAIN c2 = Fields /\ c2.running = c1.running /\ c2.socket = "Unconnected"
      /\ c2.link = "none" /\ (c2.reconnect # c1.reconnect => c1.running)
  BY <1>1, AbortLetsGo
<1> HIDE DEF c2
<1>4. /\ DOMAIN c3 = Fields /\ c3.running = c2.running /\ c3.socket = c2.socket
      /\ c3.reconnect = c2.reconnect /\ c3.link = c2.link
  BY <1>3, SetStateKeeps
<1> HIDE DEF c3
<1> QED BY <1>1, <1>2, <1>3, <1>4 DEF Lets, Sound

\* A signal changes nothing but the list of signals.
LEMMA EmitKeeps ==
  ASSUME NEW c, DOMAIN c = Fields, NEW s
  PROVE  LET d == Client!Emit(c, s) IN
         /\ DOMAIN d = Fields /\ d.running = c.running /\ d.socket = c.socket
         /\ d.reconnect = c.reconnect /\ d.link = c.link
BY DEF Client!Emit, Fields

\* An aborted connection: the client is sound, and a stopped one stays quiet.
LEMMA AbortSound ==
  ASSUME NEW c, Sound(c), NEW s
  PROVE  Lets(c, Client!abort(Client!Emit(c, s)))
<1> DEFINE c1 == Client!Emit(c, s)
           c2 == Client!abort(c1)
<1>1. /\ DOMAIN c1 = Fields /\ c1.running = c.running /\ c1.socket = c.socket
      /\ c1.reconnect = c.reconnect
  BY EmitKeeps DEF Sound
<1> HIDE DEF c1
<1>2. /\ DOMAIN c2 = Fields /\ c2.running = c1.running /\ c2.socket = "Unconnected"
      /\ c2.link = "none" /\ (c2.reconnect # c1.reconnect => c1.running)
  BY <1>1, AbortLetsGo
<1> HIDE DEF c2
<1>3. Lets(c, c2)
  BY <1>1, <1>2 DEF Lets, Sound
<1> QED BY <1>3 DEF c1, c2

\* A request is queued, not made, or its failure ends the connection.
LEMMA RequestSound ==
  ASSUME NEW c, Sound(c), NEW accepted \in BOOLEAN
  PROVE  Lets(c, Client!request_snapshot(c, accepted))
<1>1. CASE c.socket # "Connected"
  <2>1. Client!request_snapshot(c, accepted) = c
    BY <1>1, Zenon DEF Client!request_snapshot
  <2> QED BY <2>1 DEF Lets
<1>2. CASE c.socket = "Connected" /\ accepted
  <2> DEFINE d == [c EXCEPT !.asked = @ + 1]
  <2>1. Client!request_snapshot(c, accepted) = d
    BY <1>2, Zenon DEF Client!request_snapshot
  <2>2. Lets(c, d)
    BY DEF Lets, Sound, Fields
  <2> QED BY <2>1, <2>2
<1>3. CASE c.socket = "Connected" /\ ~accepted
  <2>1. Client!request_snapshot(c, accepted) = Client!abort(Client!Emit(c, Client!ProtocolError))
    BY <1>3, Zenon DEF Client!request_snapshot
  <2> QED BY <2>1, AbortSound
<1> QED BY <1>1, <1>2, <1>3

\* Bytes are decoded, or end the connection.
LEMMA ReadSound ==
  ASSUME NEW c, Sound(c), NEW arrived
  PROVE  Lets(c, Client!handle_ready_read(c, arrived))
<1> DEFINE bytes == c.buffer \o arrived
           frames == Client!DecodedFrames(bytes)
           rest == SubSeq(bytes, Client!Consumed(frames) + 1, Len(bytes))
           read == [c EXCEPT !.buffer = rest, !.signals = @ \o Client!Announced(bytes, frames)]
<1>1. Client!handle_ready_read(c, arrived) =
        IF Client!Refused(bytes) = {} THEN read
        ELSE Client!abort(Client!Emit(read, Client!ProtocolError))
  BY Zenon DEF Client!handle_ready_read
<1>2. Sound(read) /\ read.link = c.link
  <2> HIDE DEF rest, frames
  <2> QED BY DEF Sound, Fields
<1> HIDE DEF read, bytes
<1>3. Lets(read, Client!abort(Client!Emit(read, Client!ProtocolError)))
  BY <1>2, AbortSound
<1> QED BY <1>1, <1>2, <1>3 DEF Lets

\* A connection that is lost is retried.
LEMMA LostSound ==
  ASSUME NEW c, Sound(c)
  PROVE  Lets(c, Client!handle_disconnected(Client!Unlink(c)))
<1> DEFINE c1 == Client!Unlink(c)
           c2 == Client!handle_disconnected(c1)
<1>1. /\ DOMAIN c1 = Fields /\ c1.running = c.running /\ c1.socket = "Unconnected"
      /\ c1.reconnect = c.reconnect /\ c1.link = "none"
  BY DEF Fields, Client!Unlink, Sound
<1> HIDE DEF c1
<1>2. /\ DOMAIN c2 = Fields /\ c2.running = c1.running /\ c2.socket = c1.socket
      /\ c2.link = c1.link /\ (c2.reconnect # c1.reconnect => c1.running)
  BY <1>1, DisconnectedKeeps
<1> HIDE DEF c2
<1>3. Lets(c, c2)
  BY <1>1, <1>2 DEF Lets, Sound
<1> QED BY <1>3 DEF c1, c2

\* How an attempt of a running client without a socket ends.
LEMMA AttemptSound ==
  ASSUME NEW c, DOMAIN c = Fields, c.running, c.socket = "Unconnected"
  PROVE  /\ Sound(Client!connect_to_agent(c, "connected"))
         /\ Client!connect_to_agent(c, "connected").link = "live"
         /\ Sound(Client!connect_to_agent(c, "refused"))
         /\ Client!connect_to_agent(c, "refused").link = c.link
<1> DEFINE t == Client!set_connection_state(c, "Connecting")
<1>1. /\ DOMAIN t = Fields /\ t.running = c.running /\ t.socket = c.socket
      /\ t.reconnect = c.reconnect /\ t.link = c.link
  BY SetStateKeeps
<1>2. /\ Client!connect_to_agent(c, "connected") = Client!AttemptEnds(t, "connected")
      /\ Client!connect_to_agent(c, "refused") = Client!AttemptEnds(t, "refused")
  BY DEF Client!connect_to_agent
<1> HIDE DEF t
<1>3. /\ Sound(Client!AttemptEnds(t, "connected"))
      /\ Client!AttemptEnds(t, "connected").link = "live"
  <2> DEFINE l == [t EXCEPT !.socket = "Connected", !.link = "live"]
             fresh == [l EXCEPT !.reconnect = 0, !.attempt = 0, !.buffer = <<>>]
             s == Client!set_connection_state(fresh, "Connected")
             p == [s EXCEPT !.poll = TRUE]
             r == Client!request_snapshot(p, TRUE)
  <2>1. Client!AttemptEnds(t, "connected") = Client!handle_connected(l, TRUE)
    BY DEF Client!AttemptEnds
  <2>2. DOMAIN l = Fields /\ l.running /\ l.socket = "Connected" /\ l.link = "live"
    BY <1>1 DEF Fields
  <2>3. Client!handle_connected(l, TRUE) = r
    BY Zenon DEF Client!handle_connected
  <2> HIDE DEF l
  <2>4. /\ DOMAIN fresh = Fields /\ fresh.running /\ fresh.socket = "Connected"
        /\ fresh.link = "live" /\ fresh.reconnect = 0
    BY <2>2 DEF Fields
  <2> HIDE DEF fresh
  <2>5. /\ DOMAIN s = Fields /\ s.running /\ s.socket = "Connected" /\ s.link = "live"
        /\ s.reconnect = 0
    BY <2>4, SetStateKeeps
  <2> HIDE DEF s
  <2>6. /\ DOMAIN p = Fields /\ p.running /\ p.socket = "Connected" /\ p.link = "live"
        /\ p.reconnect = 0
    BY <2>5 DEF Fields
  <2> HIDE DEF p
  <2>7. r = [p EXCEPT !.asked = @ + 1]
    BY <2>6, Zenon DEF Client!request_snapshot
  <2>8. Sound(r) /\ r.link = "live"
    <3> HIDE DEF r
    <3> QED BY <2>6, <2>7 DEF Sound, Fields
  <2> QED BY <2>1, <2>3, <2>8
<1>4. /\ Sound(Client!AttemptEnds(t, "refused"))
      /\ Client!AttemptEnds(t, "refused").link = t.link
  <2> DEFINE u == [t EXCEPT !.socket = "Unconnected"]
             q == [u EXCEPT !.poll = FALSE]
             s == Client!set_connection_state(q, "Disconnected")
             r == Client!schedule_reconnect(s)
  <2>1. Client!AttemptEnds(t, "refused") = Client!handle_socket_error(u)
    BY DEF Client!AttemptEnds
  <2>2. DOMAIN u = Fields /\ u.running /\ u.socket = "Unconnected" /\ u.link = t.link
    BY <1>1 DEF Fields
  <2>3. /\ DOMAIN q = Fields /\ q.running /\ q.socket = "Unconnected" /\ q.link = t.link
    BY <2>2 DEF Fields
  <2>4. Client!handle_socket_error(u) = r
    <3> HIDE DEF u
    <3> HIDE DEF q
    <3>1. Client!handle_socket_error(u) =
            IF q.socket = "Unconnected"
            THEN Client!schedule_reconnect(Client!set_connection_state(q, "Disconnected"))
            ELSE q
      BY Zenon DEF Client!handle_socket_error, q
    <3> QED BY <2>3, <3>1, Zenon
  <2> HIDE DEF u, q
  <2>5. DOMAIN s = Fields /\ s.running /\ s.socket = "Unconnected" /\ s.link = t.link
    BY <2>3, SetStateKeeps
  <2> HIDE DEF s
  <2>6. DOMAIN r = Fields /\ r.running /\ r.socket = "Unconnected" /\ r.link = t.link
    BY <2>5, ScheduleKeeps
  <2> HIDE DEF r
  <2>7. Sound(r)
    BY <2>6 DEF Sound
  <2> QED BY <2>1, <2>4, <2>6, <2>7
<1> QED BY <1>1, <1>2, <1>3, <1>4

-----------------------------------------------------------------------------
(* The steps *)

\* A new turn has emitted nothing yet.
LEMMA QuietSound ==
  ASSUME NEW c, Sound(c)
  PROVE  /\ Sound([c EXCEPT !.signals = <<>>])
         /\ [c EXCEPT !.signals = <<>>].link = c.link
         /\ [c EXCEPT !.signals = <<>>].running = c.running
         /\ [c EXCEPT !.signals = <<>>].socket = c.socket
         /\ [c EXCEPT !.signals = <<>>].reconnect = c.reconnect
BY DEF Sound, Fields

\* What happens at the server's end when an attempt finds its instance, or none.
LEMMA AttemptJoined ==
  ASSUME IpcInv, NEW won, NEW lost, Attempt(won, lost),
         Sound(won), won.link = "live", Sound(lost), lost.link = desktop.link
  PROVE  IpcInv'
<1>1. CASE Connect(Desktop) /\ desktop' = won
  <2>1. IInv'
    <3>1. \E c \in Clients : ClientStep(c)
      BY <1>1, DesktopAssumption DEF ClientStep
    <3> QED BY <3>1, NextIInv DEF IpcInv, Next
  <2>2. pipe' = "open" /\ peer' = Desktop
    BY <1>1 DEF Connect
  <2> QED BY <1>1, <2>1, <2>2 DEF IpcInv, LinkAgrees, Linked
<1>2. CASE pipe # "listening" /\ UNCHANGED vars /\ desktop' = lost
  <2>1. IInv'
    BY <1>2, NextIInv DEF IpcInv
  <2>2. pipe' = pipe /\ peer' = peer
    BY <1>2 DEF vars
  <2> QED BY <1>2, <2>1, <2>2 DEF IpcInv, LinkAgrees, Linked
<1> QED BY <1>1, <1>2 DEF Attempt

\* A turn that keeps the link leaves the pipe alone; one that lets it go closes
\* the pipe.
LEMMA TurnJoined ==
  ASSUME IpcInv, NEW after, Turn(after), Lets(desktop, after)
  PROVE  IpcInv'
<1>1. desktop' = after
  BY DEF Turn
<1>2. CASE Linked /\ after.link = "none"
  <2>1. Hangup(Desktop)
    BY <1>2 DEF Turn
  <2>2. IInv'
    <3>1. \E c \in Clients : ClientStep(c)
      BY <2>1, DesktopAssumption DEF ClientStep
    <3> QED BY <3>1, NextIInv DEF IpcInv, Next
  <2>3. pipe' = "broken"
    BY <2>1 DEF Hangup
  <2> QED BY <1>1, <1>2, <2>2, <2>3 DEF IpcInv, LinkAgrees, Linked, Lets
<1>3. CASE ~(Linked /\ after.link = "none")
  <2>1. UNCHANGED vars
    BY <1>3 DEF Turn
  <2>2. IInv'
    BY <2>1, NextIInv DEF IpcInv
  <2>3. pipe' = pipe /\ peer' = peer
    BY <2>1 DEF vars
  <2> QED BY <1>1, <1>3, <2>2, <2>3 DEF IpcInv, LinkAgrees, Linked, Lets
<1> QED BY <1>2, <1>3

\* start(): a first attempt.
LEMMA StartsJoined == IpcInv /\ DesktopStarts => IpcInv'
<1> SUFFICES ASSUME IpcInv, DesktopStarts PROVE IpcInv'
  OBVIOUS
<1> DEFINE c == [Quiet EXCEPT !.running = TRUE, !.attempt = 0]
           won == Client!start(Quiet, "connected")
           lost == Client!start(Quiet, "refused")
<1>1. /\ Sound(Quiet) /\ ~Quiet.running /\ Quiet.link = desktop.link
  BY QuietSound DEF Quiet, IpcInv, DesktopStarts
<1>2. /\ won = Client!connect_to_agent(c, "connected")
      /\ lost = Client!connect_to_agent(c, "refused")
  BY <1>1 DEF Client!start
<1>3. DOMAIN c = Fields /\ c.running /\ c.socket = "Unconnected" /\ c.link = desktop.link
  BY <1>1 DEF Sound, Fields
<1>4. Attempt(won, lost)
  BY DEF DesktopStarts
<1> HIDE DEF c, won, lost
<1>5. Sound(won) /\ won.link = "live" /\ Sound(lost) /\ lost.link = desktop.link
  BY <1>2, <1>3, AttemptSound
<1> QED BY <1>4, <1>5, AttemptJoined

\* The timer: another one.
LEMMA ReconnectJoined == IpcInv /\ ReconnectTimeout => IpcInv'
<1> SUFFICES ASSUME IpcInv, ReconnectTimeout PROVE IpcInv'
  OBVIOUS
<1> DEFINE fired == [Quiet EXCEPT !.reconnect = 0]
           won == Client!connect_to_agent(fired, "connected")
           lost == Client!connect_to_agent(fired, "refused")
<1>1. /\ Sound(Quiet) /\ Quiet.reconnect # 0 /\ Quiet.link = desktop.link
  BY QuietSound DEF Quiet, IpcInv, ReconnectTimeout
<1>2. /\ DOMAIN fired = Fields /\ fired.running /\ fired.socket = "Unconnected"
      /\ fired.link = desktop.link
  BY <1>1 DEF Sound, Fields
<1>3. Attempt(won, lost)
  BY DEF ReconnectTimeout
<1> HIDE DEF fired
<1>4. Sound(won) /\ won.link = "live" /\ Sound(lost) /\ lost.link = desktop.link
  BY <1>2, AttemptSound
<1> HIDE DEF won, lost
<1> QED BY <1>3, <1>4, AttemptJoined

\* The turns that begin with something else than an attempt.
LEMMA TurnsJoined ==
  ASSUME IpcInv, DesktopStops \/ PollTimeout \/ ReadyRead \/ ConnectionLost
  PROVE  IpcInv'
<1> USE DEF Lets
<1>0. Sound(Quiet) /\ Quiet.link = desktop.link
  BY QuietSound DEF Quiet, IpcInv
<1>1. CASE DesktopStops
  <2>1. Lets(desktop, Client!stop(Quiet))
    BY <1>0, StopSound
  <2> QED BY <1>1, <2>1, TurnJoined DEF DesktopStops
<1>2. CASE PollTimeout
  <2>1. PICK accepted \in BOOLEAN : Turn(Client!request_snapshot(Quiet, accepted))
    BY <1>2 DEF PollTimeout
  <2>2. Lets(desktop, Client!request_snapshot(Quiet, accepted))
    BY <1>0, RequestSound
  <2> QED BY <2>1, <2>2, TurnJoined
<1>3. CASE ReadyRead
  <2>1. PICK n \in 1 .. Len(desktop.inbox) :
          Turn(Client!handle_ready_read([Quiet EXCEPT !.inbox = SubSeq(@, n + 1, Len(@))],
                                        SubSeq(desktop.inbox, 1, n)))
    BY <1>3 DEF ReadyRead
  <2> DEFINE c == [Quiet EXCEPT !.inbox = SubSeq(@, n + 1, Len(@))]
             arrived == SubSeq(desktop.inbox, 1, n)
  <2>2. Sound(c) /\ c.link = desktop.link
    BY <1>0 DEF Sound, Fields
  <2> HIDE DEF c, arrived
  <2>3. Lets(desktop, Client!handle_ready_read(c, arrived))
    BY <2>2, ReadSound
  <2> QED BY <2>1, <2>3, TurnJoined DEF c, arrived
<1>4. CASE ConnectionLost
  <2>1. Lets(desktop, Client!handle_disconnected(Client!Unlink(Quiet)))
    BY <1>0, LostSound
  <2> QED BY <1>4, <2>1, TurnJoined DEF ConnectionLost
<1> QED BY <1>1, <1>2, <1>3, <1>4

\* The socket's own work moves bytes and no more.
LEMMA SocketJoined ==
  ASSUME IpcInv, Transmit \/ Fetch
  PROVE  IpcInv'
<1>1. (Send(Desktop, "valid") \/ Receive(Desktop)) /\ Linked
  BY DEF Transmit, Fetch
<1>2. IInv'
  <2>1. \E c \in Clients : ClientStep(c)
    BY <1>1, DesktopAssumption DEF ClientStep, Kinds
  <2> QED BY <2>1, NextIInv DEF IpcInv, Next
<1>3. pipe' = pipe /\ peer' = peer
  BY <1>1 DEF Send, Receive
<1>4. Sound(desktop') /\ desktop'.link = desktop.link
  <2>1. CASE Transmit
    BY <2>1 DEF Transmit, IpcInv, Sound, Fields
  <2>2. CASE Fetch
    <3> DEFINE piece == Client!Piece(Head(tx).part, "none", Stamp(Head(tx).version))
    <3>1. desktop' = [desktop EXCEPT !.inbox = Append(@, piece)]
      BY <2>2 DEF Fetch
    <3> HIDE DEF piece
    <3> QED BY <3>1 DEF IpcInv, Sound, Fields
  <2> QED BY <2>1, <2>2
<1> QED BY <1>2, <1>3, <1>4 DEF IpcInv, LinkAgrees, Linked

\* What a step of the Agent, or of another process, does to the pipe's ends: a
\* connection of the Desktop is kept or closed with the instance, and no such
\* connection comes about.
LEMMA AgentKeepsEnds ==
  ASSUME IpcInv, Start \/ StopCall \/ OwnerStep \/ WorkerStep \/ StoreUpdate \/ OtherClient
  PROVE  /\ IInv'
         /\ pipe = "open" /\ peer = Desktop =>
              pipe' = "absent" \/ (pipe' = "open" /\ peer' = Desktop)
         /\ ~(pipe = "open" /\ peer = Desktop) => ~(pipe' = "open" /\ peer' = Desktop)
<1>1. IInv'
  BY NextIInv DEF IpcInv, Next, OtherClient
<1>2. Desktop # Waker /\ Desktop # Nobody
  BY DesktopAssumption, ClientsAssumption
<1> DEFINE Ends == /\ pipe = "open" /\ peer = Desktop =>
                        pipe' = "absent" \/ (pipe' = "open" /\ peer' = Desktop)
                   /\ ~(pipe = "open" /\ peer = Desktop) => ~(pipe' = "open" /\ peer' = Desktop)
<1>3. CASE Start \/ StopCall \/ StoreUpdate
  BY <1>1, <1>3 DEF Start, StopCall, StoreUpdate, pipeVars
<1>4. CASE OwnerStep
  <2>1. CASE Wake
    BY <1>1, <1>2, <2>1 DEF Wake
  <2>2. CASE CloseWake
    BY <1>1, <1>2, <2>2 DEF CloseWake
  <2>3. CASE Cancel \/ Join
    BY <1>1, <2>3 DEF Cancel, Join, pipeVars
  <2> QED BY <1>4, <2>1, <2>2, <2>3 DEF OwnerStep
<1>5. CASE WorkerStep
  <2>1. CASE \/ SecurityDescriptor \/ LoopTest \/ CreateNamedPipeFails
             \/ ConnectNamedPipe \/ ReadTest \/ ReadFile \/ WriteFile
    BY <1>1, <2>1 DEF SecurityDescriptor, LoopTest, CreateNamedPipeFails, ConnectNamedPipe,
         ReadTest, ReadFile, WriteFile, Goes, pipeVars
  <2>2. CASE CreateNamedPipe
    <3>1. pipe = "absent"
      BY <2>2 DEF CreateNamedPipe, IpcInv, IInv, OneInstance, ServingStates,
         WaitingStates, ReadStates, WriteStates
    <3>2. pipe' = "listening"
      BY <2>2 DEF CreateNamedPipe
    <3> QED BY <1>1, <3>1, <3>2
  <2>3. CASE ConnectReturns \/ Decode \/ WriteTest
    BY <1>1, <2>3 DEF ConnectReturns, Decode, WriteTest, pipeVars
  <2>4. CASE ReadReturns \/ WriteReturns
    BY <1>1, <2>4 DEF ReadReturns, WriteReturns
  <2>5. CASE Close \/ CloseLast
    BY <1>1, <2>5 DEF Close, CloseLast, ClosePipe
  <2> QED BY <1>5, <2>1, <2>2, <2>3, <2>4, <2>5 DEF WorkerStep
<1>6. CASE OtherClient
  <2>1. PICK c \in Clients : c # Desktop /\ ClientStep(c)
    BY <1>6 DEF OtherClient
  <2>2. CASE Connect(c)
    BY <1>1, <2>1, <2>2 DEF Connect
  <2>3. CASE Hangup(c) \/ CrashMidFrame(c)
    BY <1>1, <2>1, <2>3 DEF Hangup, CrashMidFrame
  <2>4. CASE Receive(c) \/ \E kind \in Kinds : Send(c, kind)
    BY <1>1, <2>4 DEF Receive, Send
  <2> QED BY <2>1, <2>2, <2>3, <2>4 DEF ClientStep
<1> QED BY <1>3, <1>4, <1>5, <1>6

\* The Desktop learns of it in the same step.
LEMMA AgentJoined ==
  ASSUME IpcInv, Start \/ StopCall \/ OwnerStep \/ WorkerStep \/ StoreUpdate \/ OtherClient,
         DesktopNotices
  PROVE  IpcInv'
<1>1. /\ IInv'
      /\ pipe = "open" /\ peer = Desktop =>
           pipe' = "absent" \/ (pipe' = "open" /\ peer' = Desktop)
      /\ ~(pipe = "open" /\ peer = Desktop) => ~(pipe' = "open" /\ peer' = Desktop)
  BY AgentKeepsEnds
<1> DEFINE cut == [Quiet EXCEPT !.link = "dead", !.asked = 0]
<1>2. Sound(desktop) /\ Sound(Quiet) /\ Quiet.link = desktop.link
  BY QuietSound DEF Quiet, IpcInv
<1>3. Sound(cut) /\ cut.link = "dead"
  BY <1>2 DEF Sound, Fields
<1> HIDE DEF cut
<1>4. CASE Linked /\ pipe' = "absent"
  <2>1. desktop' = cut
    BY <1>4, Zenon DEF DesktopNotices, cut
  <2> QED BY <1>1, <1>3, <1>4, <2>1 DEF IpcInv, LinkAgrees, Linked
<1>5. CASE ~(Linked /\ pipe' = "absent")
  <2>1. desktop' \in {desktop, Quiet}
    <3>1. CASE Linked /\ pipe' # "absent" /\ written = 0 /\ written' > 0
      BY <1>5, <3>1, Zenon DEF DesktopNotices
    <3>2. CASE ~Linked /\ Admits' # Admits
      BY <1>5, <3>2, Zenon DEF DesktopNotices
    <3>3. CASE /\ ~(Linked /\ pipe' # "absent" /\ written = 0 /\ written' > 0)
               /\ ~(~Linked /\ Admits' # Admits)
      BY <1>5, <3>3, Zenon DEF DesktopNotices
    <3> QED BY <3>1, <3>2, <3>3, Zenon
  <2>2. Sound(desktop') /\ desktop'.link = desktop.link
    BY <1>2, <2>1
  <2> QED BY <1>1, <1>5, <2>2 DEF IpcInv, LinkAgrees, Linked
<1> QED BY <1>4, <1>5

\* The end of the Agent's process leaves a server that has not been started, and
\* no link.
LEMMA DeathJoined == IpcInv /\ AgentDies => IpcInv'
<1> SUFFICES ASSUME IpcInv, AgentDies PROVE IpcInv'
  OBVIOUS
<1>1. IInv'
  <2>1. <<>> \in Seq(Pieces) /\ <<>> \in Seq(Replies) /\ <<>> \in Seq(0 .. MaxVersion) /\ Len(<<>>) = 0
    BY EmptySeq
  <2>2. /\ stopRequested' = FALSE /\ owner' = "idle" /\ worker' = "none" /\ cancelled' = FALSE
        /\ pipe' = "absent" /\ peer' = Nobody /\ rx' = <<>> /\ tx' = <<>>
        /\ asked' = <<>> /\ receiveBuffer' = <<>> /\ response' = 0 /\ written' = 0
        /\ store' = 0
    BY DEF AgentDies
  <2>3. 0 \in 0 .. MaxVersion /\ 0 <= PipeSize /\ 0 \in 0 .. FrameSize
    BY PipeSizeAssumption, BoundsAssumption DEF FrameSize
  <2>4. "idle" \in OwnerStates /\ "none" \in WorkerStates
    BY DEF OwnerStates, WorkerStates
  <2>5. TypeOK'
    BY <2>1, <2>2, <2>3, <2>4 DEF TypeOK
  <2> QED BY <2>2, <2>5 DEF AgentDies, IInv, OneInstance, PeerNeedsPipe, LeavesOnlyWhenStopped,
       ServingStates, WaitingStates, ReadStates, WriteStates
<1>2. pipe' = "absent"
  BY DEF AgentDies
<1>3. Sound(desktop) /\ Sound(Quiet) /\ Quiet.link = desktop.link
  BY QuietSound DEF Quiet, IpcInv
<1>4. Sound(desktop') /\ desktop'.link # "live"
  <2>1. CASE Linked
    <3>1. PICK n : desktop' = [Quiet EXCEPT !.link = "dead", !.asked = 0,
                    !.inbox = @ \o SubSeq(ClientSide.inbox, Len(@) + 1, Len(@) + n)]
      BY <2>1 DEF AgentDies
    <3> DEFINE rest == SubSeq(ClientSide.inbox, Len(Quiet.inbox) + 1, Len(Quiet.inbox) + n)
    <3>2. desktop' = [Quiet EXCEPT !.link = "dead", !.asked = 0, !.inbox = @ \o rest]
      BY <3>1
    <3> HIDE DEF rest
    <3> QED BY <1>3, <3>2 DEF Sound, Fields
  <2>2. CASE ~Linked
    <3>1. desktop' \in {desktop, Quiet}
      BY <2>2 DEF AgentDies
    <3> QED BY <1>3, <2>2, <3>1 DEF Linked
  <2> QED BY <2>1, <2>2
<1> QED BY <1>1, <1>2, <1>4 DEF IpcInv, LinkAgrees, Linked

\* Neither program runs.
LEMMA InitJoined == IpcInit => IpcInv
<1> SUFFICES ASSUME IpcInit PROVE IpcInv
  OBVIOUS
<1>1. IInv
  BY InitIInv DEF IpcInit
<1>2. Sound(desktop)
  BY DEF IpcInit, Sound, Fields
<1>3. LinkAgrees
  BY DEF IpcInit, Init, LinkAgrees, Linked
<1> QED BY <1>1, <1>2, <1>3 DEF IpcInv

\* Step by step.
LEMMA StepJoined == IpcInv /\ [IpcNext]_ipcVars => IpcInv'
<1> SUFFICES ASSUME IpcInv, [IpcNext]_ipcVars PROVE IpcInv'
  OBVIOUS
<1>1. CASE DesktopStarts
  BY <1>1, StartsJoined
<1>2. CASE ReconnectTimeout
  BY <1>2, ReconnectJoined
<1>3. CASE DesktopStops \/ PollTimeout \/ ReadyRead \/ ConnectionLost
  BY <1>3, TurnsJoined
<1>4. CASE Transmit \/ Fetch
  BY <1>4, SocketJoined
<1>5. CASE AgentStarts \/ AgentIsStopped \/ AgentStops \/ AgentWorks \/ AgentMeasures \/ OthersCome
  BY <1>5, AgentJoined DEF AgentStarts, AgentIsStopped, AgentStops, AgentWorks, AgentMeasures,
       OthersCome, AgentSide
<1>6. CASE AgentDies
  BY <1>6, DeathJoined
<1>7. CASE UNCHANGED ipcVars
  <2>1. UNCHANGED vars /\ desktop' = desktop
    BY <1>7 DEF ipcVars
  <2>2. IInv'
    BY <2>1, NextIInv DEF IpcInv
  <2>3. pipe' = pipe /\ peer' = peer
    BY <2>1 DEF vars
  <2> QED BY <2>1, <2>2, <2>3 DEF IpcInv, LinkAgrees, Linked
<1> QED BY <1>1, <1>2, <1>3, <1>4, <1>5, <1>6, <1>7 DEF IpcNext

\* The server's invariant also holds when its clients are other programs: the
\* Desktop's turns, other processes and the end of the Agent keep it.
THEOREM CompositionInvariant == IpcSpec => []IpcInv
BY InitJoined, StepJoined, PTL DEF IpcSpec

\* With any number of other processes on the pipe and any number of restarts, the
\* Desktop's live link is the server's open pipe and no other
\* (local_ipc_server.cpp:323-372, local_agent_client.cpp:114-149, 231-254).
THEOREM LinkIsThePipe == IpcSpec => []LinkAgrees
<1>1. IpcInv => LinkAgrees
  BY DEF IpcInv
<1> QED BY <1>1, CompositionInvariant, PTL

-----------------------------------------------------------------------------
(* What a turn emits, and what it leaves of the bytes the client holds *)

\* The signals of the turn begin with the snapshots q, and hold no other.
Shows(c, q) ==
  /\ c.signals \in Seq(Client!Signals)
  /\ Len(q) <= Len(c.signals)
  /\ \A i \in 1 .. Len(q) : c.signals[i] = Client!SnapshotReceived(q[i])
  /\ \A i \in 1 .. Len(c.signals) :
       c.signals[i].signal = "snapshot_received" => i <= Len(q)

SameBytes(c, d) == d.buffer = c.buffer /\ d.inbox = c.inbox
NoBytes(c) == c.buffer = <<>> /\ c.inbox = <<>>

\* Without a connection there is nothing to read.
Plugged(c) == c.socket # "Connected" => c.inbox = <<>> /\ c.link # "live"

\* Received finds the snapshots of the turn, in their order.
LEMMA ReceivedIs ==
  ASSUME NEW c, NEW q \in Seq(Channel!Snapshots), Shows(c, q)
  PROVE  Received(c) = q
<1> DEFINE shows == {i \in DOMAIN c.signals : c.signals[i].signal = "snapshot_received"}
           nth(k) == CHOOSE i \in shows : Cardinality({j \in shows : j <= i}) = k
<1>1. /\ Len(q) \in Nat /\ q = [k \in 1 .. Len(q) |-> q[k]]
      /\ DOMAIN c.signals = 1 .. Len(c.signals) /\ Len(c.signals) \in Nat
  BY DEF Shows
<1>2. \A i \in 1 .. Len(q) :
        c.signals[i].signal = "snapshot_received" /\ c.signals[i].snapshot = q[i]
  <2>1. \A i \in 1 .. Len(q) : c.signals[i] = Client!SnapshotReceived(q[i])
    BY DEF Shows
  <2>2. \A x : Client!SnapshotReceived(x).signal = "snapshot_received"
    BY DEF Client!SnapshotReceived
  <2>3. \A x : Client!SnapshotReceived(x).snapshot = x
    BY DEF Client!SnapshotReceived
  <2> QED BY <2>1, <2>2, <2>3
<1>3. shows = 1 .. Len(q)
  BY <1>1, <1>2 DEF Shows
<1> HIDE DEF shows
<1>4. \A i \in Nat : Cardinality(1 .. i) = i
  <2>1. TAKE i \in Nat
  <2>2. 1 \in Int /\ i \in Int
    OBVIOUS
  <2>3. Cardinality(1 .. i) = IF 1 > i THEN 0 ELSE i - 1 + 1
    BY <2>2, FS_Interval
  <2> QED BY <2>3
<1>5. Cardinality(shows) = Len(q)
  BY <1>1, <1>3, <1>4
<1>6. ASSUME NEW i \in shows
      PROVE  Cardinality({j \in shows : j <= i}) = i
  <2>1. {j \in shows : j <= i} = 1 .. i /\ i \in Nat
    BY <1>1, <1>3
  <2> QED BY <1>4, <2>1
<1>7. ASSUME NEW k \in 1 .. Len(q)
      PROVE  nth(k) = k
  <2>1. k \in shows /\ Cardinality({j \in shows : j <= k}) = k
    BY <1>3, <1>6
  <2>2. nth(k) \in shows /\ Cardinality({j \in shows : j <= nth(k)}) = k
    BY <2>1
  <2> HIDE DEF nth
  <2> QED BY <1>6, <2>2
<1>8. Received(c) = [k \in 1 .. Cardinality(shows) |-> c.signals[nth(k)].snapshot]
  BY DEF Received, shows
<1> HIDE DEF nth
<1> QED BY <1>1, <1>2, <1>5, <1>7, <1>8

\* A turn that has only begun has emitted nothing.
LEMMA NothingEmitted ==
  ASSUME NEW c, c.signals = <<>>
  PROVE  Shows(c, <<>>) /\ Received(c) = <<>>
<1>1. <<>> \in Seq(Client!Signals) /\ Len(<<>>) = 0 /\ <<>> \in Seq(Channel!Snapshots)
  BY EmptySeq
<1>2. Shows(c, <<>>)
  BY <1>1 DEF Shows
<1> QED BY <1>1, <1>2, ReceivedIs

\* Any other signal comes behind.
LEMMA EmitShows ==
  ASSUME NEW c, DOMAIN c = Fields, NEW q \in Seq(Channel!Snapshots), Shows(c, q),
         NEW x \in Client!Signals, x.signal # "snapshot_received"
  PROVE  LET d == Client!Emit(c, x) IN Shows(d, q) /\ SameBytes(c, d)
<1> DEFINE d == Client!Emit(c, x)
           s == c.signals
<1>1. d.signals = Append(s, x) /\ SameBytes(c, d)
  BY DEF Client!Emit, Fields, SameBytes
<1> HIDE DEF d
<1>2. s \in Seq(Client!Signals) /\ Len(s) \in Nat /\ Len(q) \in Nat
  BY DEF Shows
<1>3. /\ Append(s, x) \in Seq(Client!Signals) /\ Len(Append(s, x)) = Len(s) + 1
      /\ \A i \in 1 .. Len(s) : Append(s, x)[i] = s[i]
      /\ Append(s, x)[Len(s) + 1] = x
  BY <1>2, AppendProperties
<1> DEFINE t == Append(s, x)
<1> HIDE DEF t
<1>4. /\ t \in Seq(Client!Signals) /\ Len(t) = Len(s) + 1
      /\ \A i \in 1 .. Len(s) : t[i] = s[i]
      /\ t[Len(s) + 1] = x
  BY <1>3 DEF t
<1>5. \A i \in 1 .. Len(q) : t[i] = Client!SnapshotReceived(q[i])
  BY <1>2, <1>4 DEF Shows
<1>6. ASSUME NEW i \in 1 .. Len(t), t[i].signal = "snapshot_received"
      PROVE  i <= Len(q)
  <2>1. i # Len(s) + 1
    BY <1>4, <1>6
  <2>2. i \in 1 .. Len(s)
    BY <1>2, <1>4, <2>1
  <2> QED BY <1>4, <1>6, <2>2 DEF Shows
<1>7. d.signals = t /\ Len(q) <= Len(t)
  BY <1>1, <1>2, <1>4 DEF Shows, t
<1>8. Shows(d, q)
  BY <1>4, <1>5, <1>6, <1>7 DEF Shows
<1> QED BY <1>1, <1>8 DEF d

\* So does a published state.
LEMMA SetStateShows ==
  ASSUME NEW c, DOMAIN c = Fields, NEW q \in Seq(Channel!Snapshots), Shows(c, q),
         NEW state \in Client!ConnectionStates
  PROVE  LET d == Client!set_connection_state(c, state) IN Shows(d, q) /\ SameBytes(c, d)
<1> DEFINE c1 == [c EXCEPT !.state = state]
           d == Client!Emit(c1, Client!StateChanged(state))
<1>1. DOMAIN c1 = Fields /\ c1.signals = c.signals /\ SameBytes(c, c1)
  BY DEF Fields, SameBytes
<1>2. /\ Client!StateChanged(state) \in Client!Signals
      /\ Client!StateChanged(state).signal # "snapshot_received"
  BY DEF Client!StateChanged, Client!Signals
<1>3. Client!set_connection_state(c, state) = IF c.state = state THEN c ELSE d
  BY Zenon DEF Client!set_connection_state
<1> HIDE DEF c1
<1>4. Shows(c1, q)
  BY <1>1 DEF Shows
<1>5. Shows(d, q) /\ SameBytes(c1, d)
  BY <1>1, <1>2, <1>4, EmitShows
<1> HIDE DEF d
<1> QED BY <1>1, <1>3, <1>5 DEF SameBytes

\* A timer emits nothing.
LEMMA ScheduleShows ==
  ASSUME NEW c, DOMAIN c = Fields, NEW q, Shows(c, q)
  PROVE  LET d == Client!schedule_reconnect(c) IN Shows(d, q) /\ SameBytes(c, d)
<1> DEFINE d == Client!schedule_reconnect(c)
<1>1. d.signals = c.signals /\ SameBytes(c, d)
  BY DEF Client!schedule_reconnect, Fields, SameBytes
<1> HIDE DEF d
<1>2. Shows(d, q)
  BY <1>1 DEF Shows
<1> QED BY <1>1, <1>2 DEF d

\* handle_disconnected drops the half frame it holds and shows nothing.
LEMMA DisconnectedShows ==
  ASSUME NEW c, DOMAIN c = Fields, NEW q \in Seq(Channel!Snapshots), Shows(c, q)
  PROVE  LET d == Client!handle_disconnected(c) IN
         Shows(d, q) /\ d.buffer = <<>> /\ d.inbox = c.inbox
<1> DEFINE c1 == [c EXCEPT !.poll = FALSE, !.buffer = <<>>]
           c2 == Client!set_connection_state(c1, "Disconnected")
           c3 == Client!schedule_reconnect(c2)
<1>1. DOMAIN c1 = Fields /\ c1.signals = c.signals /\ c1.buffer = <<>> /\ c1.inbox = c.inbox
  BY DEF Fields
<1> HIDE DEF c1
<1>2. Shows(c1, q)
  BY <1>1 DEF Shows
<1>3. "Disconnected" \in Client!ConnectionStates
  BY DEF Client!ConnectionStates
<1>4. Shows(c2, q) /\ SameBytes(c1, c2) /\ DOMAIN c2 = Fields
  BY <1>1, <1>2, <1>3, SetStateShows, SetStateKeeps
<1> HIDE DEF c2
<1>5. Shows(c3, q) /\ SameBytes(c2, c3)
  BY <1>4, ScheduleShows
<1>6. Client!handle_disconnected(c) = c3
  BY DEF Client!handle_disconnected, c1, c2
<1> HIDE DEF c3
<1> QED BY <1>1, <1>4, <1>5, <1>6 DEF SameBytes

\* abort drops all bytes of a connection, and of a client that holds none.
LEMMA AbortShows ==
  ASSUME NEW c, DOMAIN c = Fields, NEW q \in Seq(Channel!Snapshots), Shows(c, q),
         c.socket = "Connected" \/ c.buffer = <<>>
  PROVE  LET d == Client!abort(c) IN Shows(d, q) /\ NoBytes(d) /\ Plugged(d)
<1> DEFINE c1 == Client!Unlink(c)
           c2 == Client!handle_disconnected(c1)
           d == Client!abort(c)
<1>1. /\ DOMAIN c1 = Fields /\ c1.signals = c.signals /\ c1.buffer = c.buffer
      /\ c1.inbox = <<>>
  BY DEF Fields, Client!Unlink
<1>2. d = IF c.socket = "Connected" THEN c2 ELSE c1
  BY DEF Client!abort
<1> HIDE DEF c1
<1>3. Shows(c1, q)
  BY <1>1 DEF Shows
<1>4. Shows(c2, q) /\ c2.buffer = <<>> /\ c2.inbox = c1.inbox
  BY <1>1, <1>3, DisconnectedShows
<1> HIDE DEF c2
<1>5. d.link = "none"
  BY AbortLetsGo
<1> HIDE DEF d
<1> QED BY <1>1, <1>2, <1>3, <1>4, <1>5 DEF NoBytes, Plugged, d

\* A turn that shows nothing, and what it does to the bytes the client holds.
Silent(c, d) == Shows(d, <<>>) /\ (SameBytes(c, d) \/ NoBytes(d)) /\ Plugged(d)

\* stop() lets everything go.
LEMMA StopSilent ==
  ASSUME NEW c, DOMAIN c = Fields, c.signals = <<>>
  PROVE  Silent(c, Client!stop(c))
<1> DEFINE c1 == [c EXCEPT !.running = FALSE, !.reconnect = 0, !.poll = FALSE, !.buffer = <<>>]
           c2 == Client!abort(c1)
           c3 == Client!set_connection_state(c2, "Disconnected")
<1>1. DOMAIN c1 = Fields /\ c1.signals = <<>> /\ c1.buffer = <<>>
  BY DEF Fields
<1>2. Client!stop(c) = c3
  BY DEF Client!stop
<1>3. <<>> \in Seq(Channel!Snapshots)
  BY EmptySeq
<1>4. "Disconnected" \in Client!ConnectionStates
  BY DEF Client!ConnectionStates
<1> HIDE DEF c1
<1>5. Shows(c1, <<>>)
  BY <1>1, NothingEmitted
<1>6. /\ Shows(c2, <<>>) /\ NoBytes(c2) /\ Plugged(c2)
      /\ DOMAIN c2 = Fields /\ c2.link = "none"
  BY <1>1, <1>3, <1>5, AbortShows, AbortLetsGo
<1> HIDE DEF c2
<1>7. Shows(c3, <<>>) /\ SameBytes(c2, c3) /\ c3.link = c2.link
  BY <1>3, <1>4, <1>6, SetStateShows, SetStateKeeps
<1> HIDE DEF c3
<1> QED BY <1>2, <1>6, <1>7 DEF Silent, SameBytes, NoBytes, Plugged

\* A request moves no byte of an answer.
LEMMA RequestSilent ==
  ASSUME NEW c, DOMAIN c = Fields, c.signals = <<>>, Plugged(c), NEW accepted \in BOOLEAN
  PROVE  Silent(c, Client!request_snapshot(c, accepted))
<1>0. Shows(c, <<>>) /\ <<>> \in Seq(Channel!Snapshots)
  BY NothingEmitted, EmptySeq
<1>1. CASE c.socket # "Connected"
  <2>1. Client!request_snapshot(c, accepted) = c
    BY <1>1, Zenon DEF Client!request_snapshot
  <2> QED BY <1>0, <2>1 DEF Silent, SameBytes
<1>2. CASE c.socket = "Connected" /\ accepted
  <2> DEFINE d == [c EXCEPT !.asked = @ + 1]
  <2>1. Client!request_snapshot(c, accepted) = d
    BY <1>2, Zenon DEF Client!request_snapshot
  <2>2. d.signals = c.signals /\ SameBytes(c, d) /\ d.socket = c.socket
    BY DEF Fields, SameBytes
  <2> HIDE DEF d
  <2>3. Shows(d, <<>>)
    BY <2>2, NothingEmitted
  <2> QED BY <1>2, <2>1, <2>2, <2>3 DEF Silent, Plugged
<1>3. CASE c.socket = "Connected" /\ ~accepted
  <2> DEFINE e == Client!Emit(c, Client!ProtocolError)
             d == Client!abort(e)
  <2>1. Client!request_snapshot(c, accepted) = d
    BY <1>3, Zenon DEF Client!request_snapshot
  <2>2. /\ Client!ProtocolError \in Client!Signals
        /\ Client!ProtocolError.signal # "snapshot_received"
    BY DEF Client!ProtocolError, Client!Signals
  <2>3. Shows(e, <<>>) /\ DOMAIN e = Fields /\ e.socket = "Connected"
    BY <1>0, <1>3, <2>2, EmitShows, EmitKeeps
  <2> HIDE DEF e
  <2>4. Shows(d, <<>>) /\ NoBytes(d) /\ Plugged(d)
    BY <1>0, <2>3, AbortShows
  <2> HIDE DEF d
  <2> QED BY <2>1, <2>4 DEF Silent
<1> QED BY <1>1, <1>2, <1>3

\* So does a lost connection.
LEMMA LostSilent ==
  ASSUME NEW c, DOMAIN c = Fields, c.signals = <<>>
  PROVE  Silent(c, Client!handle_disconnected(Client!Unlink(c)))
<1> DEFINE c1 == Client!Unlink(c)
           c2 == Client!handle_disconnected(c1)
<1>1. /\ DOMAIN c1 = Fields /\ c1.signals = <<>> /\ c1.inbox = <<>> /\ c1.link = "none"
  BY DEF Fields, Client!Unlink
<1> HIDE DEF c1
<1>2. <<>> \in Seq(Channel!Snapshots) /\ Shows(c1, <<>>)
  BY <1>1, NothingEmitted, EmptySeq
<1>3. Shows(c2, <<>>) /\ c2.buffer = <<>> /\ c2.inbox = c1.inbox /\ c2.link = c1.link
  BY <1>1, <1>2, DisconnectedShows, DisconnectedKeeps
<1> HIDE DEF c2
<1>4. Silent(c, c2)
  BY <1>1, <1>3 DEF Silent, NoBytes, Plugged
<1> QED BY <1>4 DEF c1, c2

\* An attempt begins on an empty stream, whatever it ends in.
LEMMA AttemptSilent ==
  ASSUME NEW c, DOMAIN c = Fields, c.signals = <<>>, Plugged(c),
         c.running, c.socket = "Unconnected"
  PROVE  /\ Silent(c, Client!connect_to_agent(c, "connected"))
         /\ NoBytes(Client!connect_to_agent(c, "connected"))
         /\ Silent(c, Client!connect_to_agent(c, "refused"))
<1> DEFINE t == Client!set_connection_state(c, "Connecting")
<1>0. /\ <<>> \in Seq(Channel!Snapshots) /\ Shows(c, <<>>)
      /\ {"Connecting", "Connected", "Disconnected"} \subseteq Client!ConnectionStates
      /\ c.inbox = <<>> /\ c.link # "live"
  BY NothingEmitted, EmptySeq DEF Client!ConnectionStates, Plugged
<1>1. /\ DOMAIN t = Fields /\ t.running = c.running /\ t.socket = c.socket
      /\ t.link = c.link /\ Shows(t, <<>>) /\ SameBytes(c, t)
  BY <1>0, SetStateKeeps, SetStateShows
<1>2. /\ Client!connect_to_agent(c, "connected") = Client!AttemptEnds(t, "connected")
      /\ Client!connect_to_agent(c, "refused") = Client!AttemptEnds(t, "refused")
  BY DEF Client!connect_to_agent
<1> HIDE DEF t
<1>3. /\ Silent(c, Client!AttemptEnds(t, "connected"))
      /\ NoBytes(Client!AttemptEnds(t, "connected"))
  <2> DEFINE l == [t EXCEPT !.socket = "Connected", !.link = "live"]
             fresh == [l EXCEPT !.reconnect = 0, !.attempt = 0, !.buffer = <<>>]
             s == Client!set_connection_state(fresh, "Connected")
             p == [s EXCEPT !.poll = TRUE]
             r == Client!request_snapshot(p, TRUE)
             a == [p EXCEPT !.asked = @ + 1]
  <2>1. Client!AttemptEnds(t, "connected") = Client!handle_connected(l, TRUE)
    BY DEF Client!AttemptEnds
  <2>2. /\ DOMAIN l = Fields /\ l.socket = "Connected"
        /\ l.signals = t.signals /\ l.inbox = t.inbox
    BY <1>1 DEF Fields
  <2>3. Client!handle_connected(l, TRUE) = r
    BY Zenon DEF Client!handle_connected
  <2> HIDE DEF l
  <2>4. /\ DOMAIN fresh = Fields /\ fresh.socket = "Connected"
        /\ fresh.signals = t.signals /\ fresh.buffer = <<>> /\ fresh.inbox = t.inbox
    BY <2>2 DEF Fields
  <2> HIDE DEF fresh
  <2>5. Shows(fresh, <<>>)
    BY <1>1, <2>4 DEF Shows
  <2>6. /\ DOMAIN s = Fields /\ s.socket = "Connected" /\ Shows(s, <<>>)
        /\ SameBytes(fresh, s)
    BY <1>0, <2>4, <2>5, SetStateKeeps, SetStateShows
  <2> HIDE DEF s
  <2>7. /\ DOMAIN p = Fields /\ p.socket = "Connected" /\ p.signals = s.signals
        /\ SameBytes(s, p)
    BY <2>6 DEF Fields, SameBytes
  <2> HIDE DEF p
  <2>8. r = a
    BY <2>7, Zenon DEF Client!request_snapshot
  <2>9. a.socket = "Connected" /\ a.signals = s.signals /\ SameBytes(p, a)
    BY <2>7 DEF Fields, SameBytes
  <2> HIDE DEF a, r
  <2>10. Shows(a, <<>>)
    BY <2>6, <2>9 DEF Shows
  <2>11. NoBytes(a)
    BY <1>0, <1>1, <2>4, <2>6, <2>7, <2>9 DEF NoBytes, SameBytes
  <2> QED BY <2>1, <2>3, <2>8, <2>9, <2>10, <2>11 DEF Silent, Plugged
<1>4. Silent(c, Client!AttemptEnds(t, "refused"))
  <2> DEFINE u == [t EXCEPT !.socket = "Unconnected"]
             q == [u EXCEPT !.poll = FALSE]
             s == Client!set_connection_state(q, "Disconnected")
             r == Client!schedule_reconnect(s)
  <2>1. Client!AttemptEnds(t, "refused") = Client!handle_socket_error(u)
    BY DEF Client!AttemptEnds
  <2>2. /\ DOMAIN q = Fields /\ q.socket = "Unconnected" /\ q.link = t.link
        /\ q.signals = t.signals /\ SameBytes(t, q)
    BY <1>1 DEF Fields, SameBytes
  <2>3. Client!handle_socket_error(u) = r
    <3> HIDE DEF u
    <3> HIDE DEF q
    <3>1. Client!handle_socket_error(u) =
            IF q.socket = "Unconnected"
            THEN Client!schedule_reconnect(Client!set_connection_state(q, "Disconnected"))
            ELSE q
      BY Zenon DEF Client!handle_socket_error, q
    <3> QED BY <2>2, <3>1, Zenon
  <2> HIDE DEF u, q
  <2>4. Shows(q, <<>>)
    BY <1>1, <2>2 DEF Shows
  <2>5. DOMAIN s = Fields /\ s.link = q.link /\ Shows(s, <<>>) /\ SameBytes(q, s)
    BY <1>0, <2>2, <2>4, SetStateKeeps, SetStateShows
  <2> HIDE DEF s
  <2>6. r.link = s.link /\ Shows(r, <<>>) /\ SameBytes(s, r)
    BY <2>5, ScheduleKeeps, ScheduleShows
  <2> HIDE DEF r
  <2> QED BY <1>0, <1>1, <2>1, <2>2, <2>3, <2>5, <2>6 DEF Silent, SameBytes, Plugged
<1> QED BY <1>2, <1>3, <1>4

-----------------------------------------------------------------------------
(* Reading *)

\* A set of numbers that is not empty has a least one.
LEMMA Least ==
  ASSUME NEW T \in SUBSET Nat, T # {}
  PROVE  \E x \in T : \A y \in T : x <= y
<1> DEFINE Below(i) == 1 .. i
           Segments == {Below(i) : i \in T}
<1>1. Segments \subseteq FiniteSubsetsOf(Nat)
  <2>1. \A i \in T : IsFiniteSet(1 .. i)
    BY FS_Interval
  <2> QED BY <2>1 DEF FiniteSubsetsOf
<1>2. PICK s \in Segments : \A r \in Segments : ~(<<r, s>> \in StrictSubsetOrdering(Nat))
  <2>1. IsWellFoundedOn(StrictSubsetOrdering(Nat), FiniteSubsetsOf(Nat))
    BY FS_StrictSubsetOrderingWellFounded
  <2>2. Segments # {}
    OBVIOUS
  <2> HIDE DEF Segments
  <2> QED BY <1>1, <2>1, <2>2, WFMin
<1>3. PICK x \in T : s = Below(x)
  OBVIOUS
<1>4. ASSUME NEW y \in T, y < x PROVE FALSE
  <2>1. Below(y) \subseteq Below(x) /\ Below(y) # Below(x)
    <3>1. x \in Below(x) /\ x \notin Below(y)
      BY <1>4
    <3> QED BY <3>1, <1>4
  <2>2. Below(y) \in SUBSET Nat /\ Below(x) \in SUBSET Nat
    OBVIOUS
  <2>3. <<Below(y), Below(x)>> \in StrictSubsetOrdering(Nat)
    <3> HIDE DEF Below
    <3> QED BY <2>1, <2>2 DEF StrictSubsetOrdering
  <2> QED BY <1>2, <1>3, <2>3
<1> QED BY <1>4

\* The frames the decode loop takes are there.
LEMMA FramesFit ==
  ASSUME NEW bytes \in Seq(Client!Pieces)
  PROVE  /\ Client!DecodedFrames(bytes) \in Nat
         /\ 2 * Client!DecodedFrames(bytes) <= Len(bytes)
<1>1. DOMAIN bytes = 1 .. Len(bytes) /\ Len(bytes) \in Nat
  OBVIOUS
<1> DEFINE refused == Client!Refused(bytes)
           first == CHOOSE i \in refused : \A j \in refused : i <= j
<1>2. refused \subseteq 1 .. Len(bytes) /\ refused \in SUBSET Nat
  BY <1>1 DEF Client!Refused
<1>3. Client!DecodedFrames(bytes) =
        IF refused = {} THEN Len(bytes) \div 2 ELSE (first - 1) \div 2
  BY DEF Client!DecodedFrames
<1> HIDE DEF refused
<1>4. CASE refused = {}
  BY <1>1, <1>3, <1>4
<1>5. CASE refused # {}
  <2>1. \E i \in refused : \A j \in refused : i <= j
    BY <1>2, <1>5, Least
  <2>2. first \in refused
    BY <2>1
  <2> HIDE DEF first
  <2> QED BY <1>1, <1>2, <1>3, <1>5, <2>2
<1> QED BY <1>4, <1>5

\* The snapshots of that many frames, and what is left behind them.
Taken(bytes, frames) == [i \in 1 .. frames |-> bytes[2 * i].snapshot]
Left(bytes, frames) == SubSeq(bytes, 2 * frames + 1, Len(bytes))

\* They are announced in that order.
LEMMA TakenIs ==
  ASSUME NEW bytes \in Seq(Client!Pieces), NEW frames \in Nat, 2 * frames <= Len(bytes)
  PROVE  /\ Taken(bytes, frames) \in Seq(Channel!Snapshots)
         /\ Len(Taken(bytes, frames)) = frames
         /\ \A i \in 1 .. frames :
              /\ 2 * i \in 1 .. Len(bytes)
              /\ Taken(bytes, frames)[i] = bytes[2 * i].snapshot
         /\ Client!Announced(bytes, frames) \in Seq(Client!Signals)
         /\ Len(Client!Announced(bytes, frames)) = frames
         /\ \A i \in 1 .. frames :
              Client!Announced(bytes, frames)[i]
                = Client!SnapshotReceived(Taken(bytes, frames)[i])
<1>1. ASSUME NEW i \in 1 .. frames
      PROVE  2 * i \in 1 .. Len(bytes) /\ bytes[2 * i].snapshot \in Channel!Snapshots
  <2>1. 2 * i \in 1 .. Len(bytes)
    OBVIOUS
  <2>2. bytes[2 * i] \in Client!Pieces
    BY <2>1
  <2> QED BY <2>1, <2>2 DEF Client!Pieces
<1> DEFINE taken == Taken(bytes, frames)
           announced == Client!Announced(bytes, frames)
<1>2. taken \in [1 .. frames -> Channel!Snapshots]
  BY <1>1 DEF Taken
<1>3. \A i \in 1 .. frames : taken[i] = bytes[2 * i].snapshot
  BY DEF Taken
<1>4. announced = [i \in 1 .. frames |-> Client!SnapshotReceived(bytes[2 * i].snapshot)]
  BY DEF Client!Announced
<1> HIDE DEF taken, announced
<1>5. \A x \in Channel!Snapshots : Client!SnapshotReceived(x) \in Client!Signals
  BY DEF Client!Signals
<1>6. announced \in [1 .. frames -> Client!Signals]
  BY <1>1, <1>4, <1>5
<1>7. \A i \in 1 .. frames : announced[i] = Client!SnapshotReceived(taken[i])
  BY <1>3, <1>4
<1>8. /\ taken \in Seq(Channel!Snapshots) /\ Len(taken) = frames
      /\ announced \in Seq(Client!Signals) /\ Len(announced) = frames
  BY <1>2, <1>6
<1> QED BY <1>1, <1>3, <1>7, <1>8 DEF taken, announced

\* handle_ready_read shows the snapshots of the frames it decodes and keeps the
\* rest, unless it ends the connection.
LEMMA ReadShows ==
  ASSUME NEW c, DOMAIN c = Fields, c.signals = <<>>, c.socket = "Connected",
         NEW arrived, c.buffer \o arrived \in Seq(Client!Pieces)
  PROVE  LET bytes == c.buffer \o arrived
             frames == Client!DecodedFrames(bytes)
             d == Client!handle_ready_read(c, arrived)
         IN  /\ Shows(d, Taken(bytes, frames))
             /\ \/ d.buffer = Left(bytes, frames) /\ d.inbox = c.inbox
                \/ NoBytes(d)
             /\ Plugged(d)
<1> DEFINE bytes == c.buffer \o arrived
           frames == Client!DecodedFrames(bytes)
           rest == SubSeq(bytes, Client!Consumed(frames) + 1, Len(bytes))
           told == Client!Announced(bytes, frames)
           q == Taken(bytes, frames)
           read == [c EXCEPT !.buffer = rest, !.signals = @ \o told]
           e == Client!Emit(read, Client!ProtocolError)
           d == Client!abort(e)
<1>1. Client!handle_ready_read(c, arrived) = IF Client!Refused(bytes) = {} THEN read ELSE d
  BY Zenon DEF Client!handle_ready_read
<1>2. bytes \in Seq(Client!Pieces)
  OBVIOUS
<1> HIDE DEF bytes
<1>3. frames \in Nat /\ 2 * frames <= Len(bytes)
  BY <1>2, FramesFit
<1>4. rest = Left(bytes, frames)
  BY DEF Client!Consumed, Left
<1> HIDE DEF rest, frames
<1>5. /\ q \in Seq(Channel!Snapshots) /\ Len(q) = frames
      /\ told \in Seq(Client!Signals) /\ Len(told) = frames
      /\ \A i \in 1 .. frames : told[i] = Client!SnapshotReceived(q[i])
  BY <1>2, <1>3, TakenIs
<1> HIDE DEF told, q
<1>6. <<>> \o told = told
  BY <1>5, ConcatEmptySeq
<1>7. /\ DOMAIN read = Fields /\ read.buffer = rest /\ read.signals = told
      /\ read.inbox = c.inbox /\ read.socket = "Connected"
  BY <1>6 DEF Fields
<1> HIDE DEF read
<1>8. Shows(read, q)
  BY <1>3, <1>5, <1>7 DEF Shows
<1>9. /\ Client!ProtocolError \in Client!Signals
      /\ Client!ProtocolError.signal # "snapshot_received"
  BY DEF Client!ProtocolError, Client!Signals
<1>10. Shows(e, q) /\ DOMAIN e = Fields /\ e.socket = "Connected"
  BY <1>5, <1>7, <1>8, <1>9, EmitShows, EmitKeeps
<1> HIDE DEF e
<1>11. Shows(d, q) /\ NoBytes(d) /\ Plugged(d)
  BY <1>5, <1>10, AbortShows
<1> HIDE DEF d
<1>12. Plugged(read)
  BY <1>7 DEF Plugged
<1> QED BY <1>1, <1>4, <1>7, <1>8, <1>11, <1>12 DEF bytes, frames, q

-----------------------------------------------------------------------------
(* The answers of the Agent come in the order of its store *)

AnswersInOrder ==
  /\ pipe \in {"absent", "listening"} => tx = <<>>
  /\ pipe = "listening" => worker \in WaitingStates \cup {"close", "closeLast"}
  /\ worker \in WriteStates => response <= store
  /\ \A i \in 1 .. Len(tx) :
       tx[i].version <= store /\ (worker \in WriteStates => tx[i].version <= response)
  /\ \A i, j \in 1 .. Len(tx) : i <= j => tx[i].version <= tx[j].version

\* Nothing is answered that is older than what was on its way: a step puts into
\* the pipe what was there or the response, and a new response is the store.
LaterAnswers ==
  /\ store <= store'
  /\ worker' \in WriteStates =>
       (worker \in WriteStates /\ response' = response) \/ response' = store
  /\ \A i \in 1 .. Len(tx') :
       \/ \E j \in 1 .. Len(tx) : tx'[i] = tx[j]
       \/ worker \in WriteStates /\ tx'[i].version = response

\* A step that leaves the answers and the worker's place in them.
LEMMA AnswersStay ==
  ASSUME IInv, AnswersInOrder, tx' = tx, store' = store, response' = response,
         worker' \in WriteStates => worker \in WriteStates,
         pipe' \in {"absent", "listening"} => tx = <<>>,
         pipe' = "listening" => worker' \in WaitingStates \cup {"close", "closeLast"}
  PROVE  AnswersInOrder' /\ LaterAnswers
<1>1. store \in Nat /\ Len(tx) \in Nat
  BY BoundsAssumption DEF IInv, TypeOK
<1>2. LaterAnswers
  BY <1>1 DEF LaterAnswers
<1>3. AnswersInOrder'
  BY DEF AnswersInOrder
<1> QED BY <1>2, <1>3

\* An empty pipe, and no response under way.
LEMMA AnswersGone ==
  ASSUME IInv, AnswersInOrder, tx' = <<>>, store' = store,
         worker' \in WriteStates => worker \in WriteStates /\ response' = response,
         pipe' # "listening"
  PROVE  AnswersInOrder' /\ LaterAnswers
<1>1. store \in Nat /\ 1 .. Len(tx') = {}
  BY BoundsAssumption DEF IInv, TypeOK
<1>2. LaterAnswers
  BY <1>1 DEF LaterAnswers
<1>3. AnswersInOrder'
  BY <1>1 DEF AnswersInOrder
<1> QED BY <1>2, <1>3

\* write_all sends some of the response's pieces.
LEMMA AnswersWritten ==
  ASSUME IInv, AnswersInOrder, WriteReturns
  PROVE  AnswersInOrder' /\ LaterAnswers
<1>1. CASE tx' = tx
  <2>1. /\ store' = store /\ response' = response /\ pipe' = pipe
        /\ worker = "writing"
    BY DEF WriteReturns
  <2>2. worker \in WriteStates /\ pipe # "listening" /\ (pipe = "absent" => tx = <<>>)
    BY <2>1 DEF AnswersInOrder, WriteStates, WaitingStates
  <2> QED BY <1>1, <2>1, <2>2, AnswersStay
<1>2. CASE tx' # tx
  <2>1. PICK n \in 1 .. FrameSize - written :
          tx' = tx \o SubSeq(ResponseFrame(response), written + 1, written + n)
    BY <1>2 DEF WriteReturns
  <2>2. /\ worker = "writing" /\ worker' = "writeTest" /\ pipe = "open" /\ pipe' = pipe
        /\ store' = store /\ response' = response
    BY <1>2 DEF WriteReturns
  <2> DEFINE part == SubSeq(ResponseFrame(response), written + 1, written + n)
  <2>3. /\ written \in 0 .. 2 /\ n \in 1 .. 2 - written /\ response \in 0 .. MaxVersion
        /\ store \in 0 .. MaxVersion /\ tx \in Seq(Replies)
    BY <2>1 DEF IInv, TypeOK, FrameSize
  <2>4. /\ part \in Seq(Replies) /\ Len(part) = n
        /\ \A i \in 1 .. n : part[i].version = response
    <3> DEFINE frame == ResponseFrame(response)
    <3>1. Reply("header", response) \in Replies /\ Reply("body", response) \in Replies
      BY <2>3 DEF Reply, Replies
    <3>2. /\ frame[1] = Reply("header", response) /\ frame[2] = Reply("body", response)
      BY DEF ResponseFrame
    <3>3. Reply("header", response).version = response /\ Reply("body", response).version = response
      BY DEF Reply
    <3> HIDE DEF frame
    <3>4. \A i \in 1 .. 2 : frame[i] \in Replies /\ frame[i].version = response
      BY <3>1, <3>2, <3>3
    <3>5. /\ part \in Seq(Replies) /\ Len(part) = n
          /\ \A i \in 1 .. n : part[i] = frame[written + 1 + i - 1]
      <4> DEFINE a == written + 1
                 b == written + n
      <4>1. /\ \A i \in a .. b : frame[i] \in Replies
            /\ a \in Int /\ b \in Int /\ a <= b /\ b - a + 1 = n
        BY <2>3, <3>4
      <4>2. part = SubSeq(frame, a, b)
        BY DEF frame
      <4> HIDE DEF a, b, part
      <4>3. /\ part \in Seq(Replies) /\ Len(part) = b - a + 1
            /\ \A i \in 1 .. b - a + 1 : part[i] = frame[a + i - 1]
        BY <4>1, <4>2, SubSeqProperties
      <4>4. /\ part \in Seq(Replies) /\ Len(part) = n
            /\ \A i \in 1 .. n : part[i] = frame[a + i - 1]
        BY <4>1, <4>3
      <4> QED BY <4>4 DEF a
    <3> HIDE DEF part
    <3>6. \A i \in 1 .. n : written + 1 + i - 1 \in 1 .. 2
      BY <2>3
    <3> QED BY <3>4, <3>5, <3>6
  <2> HIDE DEF part
  <2>5. tx' = tx \o part
    BY <2>1 DEF part
  <2>6. /\ Len(tx') = Len(tx) + n /\ Len(tx) \in Nat
        /\ \A i \in 1 .. Len(tx') :
             tx'[i] = IF i <= Len(tx) THEN tx[i] ELSE part[i - Len(tx)]
    <3>1. /\ Len(tx \o part) = Len(tx) + Len(part)
          /\ \A i \in 1 .. Len(tx) + Len(part) :
               (tx \o part)[i] = IF i <= Len(tx) THEN tx[i] ELSE part[i - Len(tx)]
      BY <2>3, <2>4, ConcatProperties
    <3>2. Len(tx) \in Nat
      BY <2>3
    <3> QED BY <2>4, <2>5, <3>1, <3>2
  <2>7. ASSUME NEW i \in 1 .. Len(tx')
        PROVE  \/ i \in 1 .. Len(tx) /\ tx'[i] = tx[i]
               \/ ~(i <= Len(tx)) /\ tx'[i].version = response
    <3>1. CASE i <= Len(tx)
      BY <2>6, <3>1
    <3>2. CASE ~(i <= Len(tx))
      <4>1. i - Len(tx) \in 1 .. n
        BY <2>3, <2>6, <3>2
      <4> QED BY <2>4, <2>6, <3>2, <4>1
    <3> QED BY <3>1, <3>2
  <2>8. worker \in WriteStates /\ worker' \in WriteStates /\ response <= store
    BY <2>2 DEF WriteStates, AnswersInOrder
  <2>9. LaterAnswers
    BY <2>2, <2>3, <2>7, <2>8 DEF LaterAnswers
  <2>10. \A i \in 1 .. Len(tx) :
           tx[i] \in Replies /\ tx[i].version \in Nat /\ tx[i].version <= response
    <3>1. \A i \in 1 .. Len(tx) : tx[i] \in Replies
      BY <2>3
    <3> QED BY <2>8, <3>1, BoundsAssumption DEF AnswersInOrder, Replies
  <2>11. \A i \in 1 .. Len(tx') : tx'[i].version <= response /\ tx'[i].version <= store
    BY <2>3, <2>7, <2>8, <2>10
  <2>12. \A i, j \in 1 .. Len(tx') : i <= j => tx'[i].version <= tx'[j].version
    <3>1. TAKE i, j \in 1 .. Len(tx')
    <3>2. HAVE i <= j
    <3>3. CASE j <= Len(tx)
      <4>1. i \in 1 .. Len(tx) /\ j \in 1 .. Len(tx)
        BY <2>6, <3>2, <3>3
      <4>2. tx'[i] = tx[i] /\ tx'[j] = tx[j]
        BY <2>7, <4>1
      <4> QED BY <3>2, <4>1, <4>2 DEF AnswersInOrder
    <3>4. CASE ~(j <= Len(tx))
      <4>1. tx'[j].version = response
        BY <2>7, <3>4
      <4> QED BY <2>11, <4>1
    <3> QED BY <3>3, <3>4
  <2>13. /\ pipe' \notin {"absent", "listening"}
         /\ worker' \in WriteStates => response' <= store'
    BY <2>2, <2>8
  <2>14. \A i \in 1 .. Len(tx') :
           tx'[i].version <= store' /\ (worker' \in WriteStates => tx'[i].version <= response')
    BY <2>2, <2>11
  <2>15. AnswersInOrder'
    BY <2>12, <2>13, <2>14 DEF AnswersInOrder
  <2> QED BY <2>9, <2>15
<1> QED BY <1>1, <1>2

\* A client takes the oldest.
LEMMA AnswersTaken ==
  ASSUME IInv, AnswersInOrder, NEW c, Receive(c)
  PROVE  AnswersInOrder' /\ LaterAnswers
<1>1. /\ pipe = "open" /\ pipe' = pipe /\ tx # <<>> /\ tx' = Tail(tx)
      /\ store' = store /\ response' = response /\ worker' = worker
  BY DEF Receive, serverVars, answerVars
<1>2. tx \in Seq(Replies) /\ store \in Nat /\ Len(tx) \in Nat
  BY BoundsAssumption DEF IInv, TypeOK
<1>3. /\ Len(tx') = Len(tx) - 1
      /\ \A i \in 1 .. Len(tx') : tx'[i] = tx[i + 1]
  BY <1>1, <1>2, HeadTailProperties
<1>4. \A i \in 1 .. Len(tx') : i + 1 \in 1 .. Len(tx)
  BY <1>2, <1>3
<1>5. LaterAnswers
  BY <1>1, <1>2, <1>3, <1>4 DEF LaterAnswers
<1>6. \A i, j \in 1 .. Len(tx') : i <= j => tx'[i].version <= tx'[j].version
  <2>1. TAKE i, j \in 1 .. Len(tx')
  <2>2. HAVE i <= j
  <2>3. i + 1 <= j + 1 /\ i + 1 \in 1 .. Len(tx) /\ j + 1 \in 1 .. Len(tx)
    BY <1>2, <1>3, <1>4, <2>2
  <2> QED BY <1>3, <2>3 DEF AnswersInOrder
<1>7. \A i \in 1 .. Len(tx') :
        tx'[i].version <= store /\ (worker \in WriteStates => tx'[i].version <= response)
  BY <1>3, <1>4 DEF AnswersInOrder
<1> QED BY <1>1, <1>5, <1>6, <1>7 DEF AnswersInOrder

\* Every step of the server, of its owner and of its clients.
LEMMA AnswersStep ==
  ASSUME IInv, AnswersInOrder, [Next]_vars
  PROVE  AnswersInOrder' /\ LaterAnswers
<1> USE DEF WaitingStates, WriteStates
<1>0. store \in Nat /\ response \in Nat /\ Len(tx) \in Nat
  BY BoundsAssumption DEF IInv, TypeOK
<1>1. CASE Start \/ StopCall
  BY <1>1, AnswersStay DEF Start, StopCall, pipeVars, answerVars, AnswersInOrder, IInv, OneInstance
<1>2. CASE OwnerStep
  <2>1. CASE Wake
    BY <2>1, AnswersStay DEF Wake, answerVars, AnswersInOrder
  <2>2. CASE CloseWake
    BY <2>2, AnswersStay DEF CloseWake, answerVars, AnswersInOrder
  <2>3. CASE Cancel
    BY <2>3, AnswersStay DEF Cancel, pipeVars, answerVars, AnswersInOrder
  <2>4. CASE Join
    BY <2>4, AnswersStay DEF Join, pipeVars, answerVars, AnswersInOrder
  <2> QED BY <1>2, <2>1, <2>2, <2>3, <2>4 DEF OwnerStep
<1>3. CASE WorkerStep
  <2>1. CASE \/ SecurityDescriptor \/ LoopTest \/ CreateNamedPipeFails
             \/ ConnectNamedPipe \/ ReadTest \/ ReadFile \/ WriteFile
    BY <2>1, AnswersStay DEF SecurityDescriptor, LoopTest, CreateNamedPipeFails, ConnectNamedPipe,
         ReadTest, ReadFile, WriteFile, Goes, pipeVars, answerVars, AnswersInOrder
  <2>2. CASE CreateNamedPipe
    <3>1. pipe = "absent"
      BY <2>2 DEF CreateNamedPipe, IInv, OneInstance, ServingStates, ReadStates
    <3>2. tx = <<>>
      BY <3>1 DEF AnswersInOrder
    <3> QED BY <2>2, <3>2, AnswersStay DEF CreateNamedPipe, answerVars
  <2>3. CASE ConnectReturns
    <3>1. pipe' = "listening" => worker' \in {"close", "closeLast"}
      BY <2>3 DEF ConnectReturns, IoDone, pipeVars
    <3>2. worker' \notin WriteStates
      BY <2>3 DEF ConnectReturns
    <3> QED BY <2>3, <3>1, <3>2, AnswersStay DEF ConnectReturns, pipeVars, answerVars, AnswersInOrder
  <2>4. CASE ReadReturns
    BY <2>4, AnswersStay DEF ReadReturns, AfterFailedRead, answerVars, AnswersInOrder
  <2>5. CASE Decode
    <3> DEFINE status == FrameStatus(receiveBuffer)
    <3>1. /\ worker = "decode" /\ tx' = tx /\ store' = store /\ pipe' = pipe
          /\ worker' \in WriteStates => response' = store
          /\ pipe # "listening"
      <4>1. /\ worker = "decode" /\ tx' = tx /\ store' = store /\ pipe' = pipe
            /\ worker' = CASE status = "incomplete" -> "readTest"
                           [] status = "request" -> "writeTest"
                           [] OTHER -> "close"
            /\ response' = IF status = "request" THEN store ELSE response
        BY <2>5 DEF Decode, Snapshot, pipeVars
      <4> HIDE DEF status
      <4>2. worker' \in WriteStates => status = "request"
        BY <4>1
      <4> QED BY <4>1, <4>2 DEF AnswersInOrder
    <3>2. LaterAnswers
      BY <1>0, <3>1 DEF LaterAnswers
    <3>3. AnswersInOrder'
      BY <1>0, <3>1 DEF AnswersInOrder
    <3> QED BY <3>2, <3>3
  <2>6. CASE WriteTest
    <3>1. worker = "writeTest" /\ pipe # "listening"
      BY <2>6 DEF WriteTest, AnswersInOrder
    <3> QED BY <2>6, <3>1, AnswersStay DEF WriteTest, pipeVars, answerVars, AnswersInOrder
  <2>7. CASE WriteReturns
    BY <2>7, AnswersWritten
  <2>8. CASE Close \/ CloseLast
    <3>1. /\ tx' = <<>> /\ store' = store /\ pipe' = "absent"
          /\ worker' \in {"loop", "done"}
      BY <2>8 DEF Close, CloseLast, ClosePipe
    <3> QED BY <3>1, AnswersGone
  <2> QED BY <1>3, <2>1, <2>2, <2>3, <2>4, <2>5, <2>6, <2>7, <2>8 DEF WorkerStep
<1>4. CASE \E c \in Clients : ClientStep(c)
  <2>1. PICK c \in Clients : ClientStep(c)
    BY <1>4
  <2>2. CASE Connect(c)
    BY <2>2, AnswersStay DEF Connect, serverVars, answerVars, AnswersInOrder
  <2>3. CASE Hangup(c) \/ CrashMidFrame(c)
    <3>1. /\ tx' = <<>> /\ store' = store /\ pipe' = "broken"
          /\ worker' = worker /\ response' = response
      BY <2>3 DEF Hangup, CrashMidFrame, serverVars, answerVars
    <3> QED BY <3>1, AnswersGone
  <2>4. CASE Receive(c)
    BY <2>4, AnswersTaken
  <2>5. CASE \E kind \in Kinds : Send(c, kind)
    BY <2>5, AnswersStay DEF Send, serverVars, answerVars, AnswersInOrder
  <2> QED BY <2>1, <2>2, <2>3, <2>4, <2>5 DEF ClientStep
<1>5. CASE StoreUpdate
  <2>1. /\ store' = store + 1 /\ tx' = tx /\ worker' = worker /\ response' = response
        /\ pipe' = pipe
    BY <1>5 DEF StoreUpdate, pipeVars, answerVars
  <2>2. LaterAnswers
    BY <1>0, <2>1 DEF LaterAnswers
  <2>3. \A i \in 1 .. Len(tx) : tx[i].version \in Nat
    <3>1. \A i \in 1 .. Len(tx) : tx[i] \in Replies
      BY DEF IInv, TypeOK
    <3> QED BY <3>1, BoundsAssumption DEF Replies
  <2>4. AnswersInOrder'
    BY <1>0, <2>1, <2>3 DEF AnswersInOrder
  <2> QED BY <2>2, <2>4
<1>6. CASE UNCHANGED vars
  BY <1>6, AnswersStay DEF vars, AnswersInOrder
<1> QED BY <1>1, <1>2, <1>3, <1>4, <1>5, <1>6 DEF Next

-----------------------------------------------------------------------------
(* The order of snapshots on their way to the Desktop *)

\* NotOlder is an order: by process, and by version within one.
LEMMA OrderOfSnapshots ==
  /\ \A s \in Channel!Snapshots : Channel!NotOlder(s, s)
  /\ \A s, t, u \in Channel!Snapshots :
       Channel!NotOlder(s, t) /\ Channel!NotOlder(t, u) => Channel!NotOlder(s, u)
<1>1. \A s \in Channel!Snapshots : s[1] \in Nat /\ s[2] \in Nat
  BY DEF Channel!Snapshots
<1> QED BY <1>1 DEF Channel!NotOlder

\* The stream holds no snapshot older than the last one shown, each is not older
\* than those before it, and what is still to come is not older than any.
InStream(stream, first, later) ==
  /\ \A i, j \in 1 .. Len(stream) :
       i <= j => Channel!NotOlder(stream[i].snapshot, stream[j].snapshot)
  /\ \A i \in 1 .. Len(stream) : Channel!NotOlder(first, stream[i].snapshot)
  /\ \A t \in later :
       /\ Channel!NotOlder(first, t)
       /\ \A i \in 1 .. Len(stream) : Channel!NotOlder(stream[i].snapshot, t)

\* Every piece carries a snapshot.
LEMMA StampsOfPieces ==
  ASSUME NEW stream \in Seq(Client!Pieces)
  PROVE  /\ Len(stream) \in Nat
         /\ \A i \in 1 .. Len(stream) : stream[i].snapshot \in Channel!Snapshots
<1>1. \A i \in 1 .. Len(stream) : stream[i] \in Client!Pieces
  OBVIOUS
<1> QED BY <1>1 DEF Client!Pieces

\* Nothing that is to come has become older.
Newer(later, new) == \A t \in new : \E u \in later : Channel!NotOlder(u, t)

\* So the stream stays in order.
LEMMA NewerKeeps ==
  ASSUME NEW stream \in Seq(Client!Pieces), NEW first \in Channel!Snapshots,
         NEW later \in SUBSET Channel!Snapshots, NEW new \in SUBSET Channel!Snapshots,
         InStream(stream, first, later), Newer(later, new)
  PROVE  InStream(stream, first, new)
<1>1. ASSUME NEW t \in new
      PROVE  /\ Channel!NotOlder(first, t)
             /\ \A i \in 1 .. Len(stream) : Channel!NotOlder(stream[i].snapshot, t)
  <2>1. PICK u \in later : Channel!NotOlder(u, t)
    BY DEF Newer
  <2>2. /\ Channel!NotOlder(first, u)
        /\ \A i \in 1 .. Len(stream) : Channel!NotOlder(stream[i].snapshot, u)
    BY DEF InStream
  <2> QED BY <2>1, <2>2, OrderOfSnapshots, StampsOfPieces
<1> QED BY <1>1 DEF InStream

\* The client drops what it holds.
LEMMA DroppedStream ==
  ASSUME NEW stream, NEW first, NEW later, InStream(stream, first, later)
  PROVE  InStream(<<>>, first, later)
<1>1. 1 .. Len(<<>>) = {}
  OBVIOUS
<1> QED BY <1>1 DEF InStream

\* More arrives, of what was to come.
LEMMA LongerStream ==
  ASSUME NEW stream \in Seq(Client!Pieces), NEW more \in Seq(Client!Pieces),
         NEW first \in Channel!Snapshots,
         NEW later \in SUBSET Channel!Snapshots, NEW new \in SUBSET Channel!Snapshots,
         InStream(stream, first, later), Newer(later, new),
         \A i, j \in 1 .. Len(more) :
           i <= j => Channel!NotOlder(more[i].snapshot, more[j].snapshot),
         \A i \in 1 .. Len(more) :
           more[i].snapshot \in later /\ \A t \in new : Channel!NotOlder(more[i].snapshot, t)
  PROVE  stream \o more \in Seq(Client!Pieces) /\ InStream(stream \o more, first, new)
<1> DEFINE whole == stream \o more
           n == Len(stream)
<1>1. /\ whole \in Seq(Client!Pieces) /\ n \in Nat /\ Len(more) \in Nat
      /\ Len(whole) = n + Len(more)
      /\ \A i \in 1 .. n + Len(more) :
           whole[i] = IF i <= n THEN stream[i] ELSE more[i - n]
  BY ConcatProperties
<1> HIDE DEF whole, n
<1>2. ASSUME NEW i \in 1 .. Len(whole)
      PROVE  \/ i \in 1 .. n /\ whole[i] = stream[i]
             \/ ~(i <= n) /\ i - n \in 1 .. Len(more) /\ whole[i] = more[i - n]
  <2>1. CASE i <= n
    BY <1>1, <2>1
  <2>2. CASE ~(i <= n)
    BY <1>1, <2>2
  <2> QED BY <2>1, <2>2
<1>3. InStream(stream, first, new)
  BY NewerKeeps
<1>4. ASSUME NEW i \in 1 .. Len(whole), NEW j \in 1 .. Len(whole), i <= j
      PROVE  Channel!NotOlder(whole[i].snapshot, whole[j].snapshot)
  <2>1. CASE j <= n
    <3>1. i \in 1 .. n /\ j \in 1 .. n /\ whole[i] = stream[i] /\ whole[j] = stream[j]
      BY <1>1, <1>2, <1>4, <2>1
    <3> QED BY <1>4, <3>1 DEF InStream, n
  <2>2. CASE ~(j <= n)
    <3>1. j - n \in 1 .. Len(more) /\ whole[j] = more[j - n]
      BY <1>2, <2>2
    <3>2. CASE i <= n
      <4>1. i \in 1 .. n /\ whole[i] = stream[i]
        BY <1>2, <3>2
      <4>2. more[j - n].snapshot \in later
        BY <3>1
      <4> QED BY <3>1, <4>1, <4>2 DEF InStream, n
    <3>3. CASE ~(i <= n)
      <4>1. i - n \in 1 .. Len(more) /\ whole[i] = more[i - n] /\ i - n <= j - n
        BY <1>1, <1>2, <1>4, <3>3
      <4> QED BY <3>1, <4>1
    <3> QED BY <3>2, <3>3
  <2> QED BY <2>1, <2>2
<1>5. ASSUME NEW i \in 1 .. Len(whole)
      PROVE  /\ Channel!NotOlder(first, whole[i].snapshot)
             /\ \A t \in new : Channel!NotOlder(whole[i].snapshot, t)
  <2>1. CASE i \in 1 .. n /\ whole[i] = stream[i]
    BY <1>3, <2>1 DEF InStream, n
  <2>2. CASE i - n \in 1 .. Len(more) /\ whole[i] = more[i - n]
    BY <2>2 DEF InStream
  <2> QED BY <1>2, <2>1, <2>2
<1>6. \A t \in new : Channel!NotOlder(first, t)
  BY <1>3 DEF InStream
<1>7. InStream(whole, first, new)
  BY <1>4, <1>5, <1>6 DEF InStream
<1> QED BY <1>1, <1>7 DEF whole

\* The decode loop takes frames from the front: they are in order, none is older
\* than the last one shown, none newer than what is to come, and the last of them
\* takes its place.
LEMMA ReadStream ==
  ASSUME NEW bytes \in Seq(Client!Pieces), NEW behind \in Seq(Client!Pieces),
         NEW frames \in Nat, 2 * frames <= Len(bytes),
         NEW first \in Channel!Snapshots, NEW later \in SUBSET Channel!Snapshots,
         InStream(bytes \o behind, first, later)
  PROVE  LET q == Taken(bytes, frames)
             last == IF frames = 0 THEN first ELSE q[frames]
         IN  /\ last \in Channel!Snapshots
             /\ \A i \in 1 .. frames :
                  /\ Channel!NotOlder(first, q[i])
                  /\ \A t \in later : Channel!NotOlder(q[i], t)
             /\ \A i, j \in 1 .. frames : i <= j => Channel!NotOlder(q[i], q[j])
             /\ Left(bytes, frames) \in Seq(Client!Pieces)
             /\ InStream(Left(bytes, frames) \o behind, last, later)
             /\ InStream(<<>>, last, later)
<1> DEFINE q == Taken(bytes, frames)
           last == IF frames = 0 THEN first ELSE q[frames]
           left == Left(bytes, frames)
           whole == bytes \o behind
           k == 2 * frames
           rest == left \o behind
<1>1. /\ Len(q) = frames /\ q \in Seq(Channel!Snapshots)
      /\ \A i \in 1 .. frames : 2 * i \in 1 .. Len(bytes) /\ q[i] = bytes[2 * i].snapshot
  BY TakenIs
<1>2. /\ whole \in Seq(Client!Pieces) /\ Len(bytes) \in Nat /\ Len(behind) \in Nat
      /\ Len(whole) = Len(bytes) + Len(behind)
      /\ \A i \in 1 .. Len(bytes) + Len(behind) :
           whole[i] = IF i <= Len(bytes) THEN bytes[i] ELSE behind[i - Len(bytes)]
  BY ConcatProperties
<1>3. k \in Nat /\ k <= Len(bytes)
  OBVIOUS
<1>4. /\ left \in Seq(Client!Pieces) /\ Len(left) = Len(bytes) - k
      /\ \A i \in 1 .. Len(bytes) - k : left[i] = bytes[k + i]
  <2> DEFINE a == k + 1
             b == Len(bytes)
  <2>1. left = SubSeq(bytes, a, b)
    BY DEF Left
  <2>2. a \in 1 .. b + 1 /\ b \in Nat /\ b - a + 1 = b - k
    BY <1>2, <1>3
  <2> HIDE DEF a, b, k, left, q
  <2>3. \A i \in a .. b : bytes[i] \in Client!Pieces
    BY <2>2 DEF b
  <2>4. /\ left \in Seq(Client!Pieces)
        /\ Len(left) = IF a <= b THEN b - a + 1 ELSE 0
        /\ \A i \in 1 .. b - a + 1 : left[i] = bytes[a + i - 1]
    BY <2>1, <2>2, <2>3, SubSeqProperties
  <2>5. Len(left) = b - k
    BY <1>3, <2>2, <2>4
  <2>6. ASSUME NEW i \in 1 .. b - k PROVE left[i] = bytes[k + i]
    <3>1. a + i - 1 = k + i /\ i \in 1 .. b - a + 1
      BY <1>3, <2>2 DEF a
    <3>2. left[i] = bytes[a + i - 1]
      BY <2>4, <3>1
    <3> QED BY <3>1, <3>2
  <2> QED BY <2>4, <2>5, <2>6 DEF b
<1> HIDE DEF left
<1>5. /\ rest \in Seq(Client!Pieces) /\ Len(rest) = Len(left) + Len(behind)
      /\ \A i \in 1 .. Len(left) + Len(behind) :
           rest[i] = IF i <= Len(left) THEN left[i] ELSE behind[i - Len(left)]
  BY <1>4, ConcatProperties
<1> HIDE DEF q, whole, rest
<1>6. \A i \in 1 .. frames : 2 * i \in 1 .. Len(whole) /\ q[i] = whole[2 * i].snapshot
  <2>1. TAKE i \in 1 .. frames
  <2>2. 2 * i \in 1 .. Len(bytes) /\ q[i] = bytes[2 * i].snapshot
    BY <1>1
  <2>3. whole[2 * i] = bytes[2 * i] /\ 2 * i \in 1 .. Len(whole)
    <3> DEFINE m == 2 * i
    <3>1. m \in 1 .. Len(bytes)
      BY <2>2
    <3> HIDE DEF m
    <3>2. whole[m] = bytes[m] /\ m \in 1 .. Len(whole)
      BY <1>2, <3>1
    <3> QED BY <3>2 DEF m
  <2> QED BY <2>2, <2>3
<1>7. \A i \in 1 .. Len(rest) : k + i \in 1 .. Len(whole) /\ rest[i] = whole[k + i]
  <2> HIDE DEF k
  <2>1. TAKE i \in 1 .. Len(rest)
  <2>2. k + i \in 1 .. Len(whole)
    BY <1>2, <1>3, <1>4, <1>5
  <2>3. CASE i <= Len(left)
    <3>1. k + i <= Len(bytes) /\ rest[i] = left[i] /\ left[i] = bytes[k + i]
      BY <1>2, <1>3, <1>4, <1>5, <2>3
    <3> QED BY <1>2, <2>2, <3>1
  <2>4. CASE ~(i <= Len(left))
    <3> DEFINE m == k + i
    <3>1. /\ ~(m <= Len(bytes))
          /\ rest[i] = behind[i - Len(left)]
          /\ i - Len(left) = m - Len(bytes)
      BY <1>2, <1>3, <1>4, <1>5, <2>4
    <3>2. m \in 1 .. Len(whole)
      BY <2>2
    <3> HIDE DEF m
    <3>3. whole[m] = behind[m - Len(bytes)]
      BY <1>2, <3>1, <3>2
    <3>4. whole[m] = rest[i]
      BY <3>1, <3>3
    <3> QED BY <2>2, <3>4 DEF m
  <2> QED BY <2>3, <2>4
<1>8. \A i \in 1 .. frames : q[i] \in Channel!Snapshots
  BY <1>1
<1>9. \A i, j \in 1 .. frames : i <= j => Channel!NotOlder(q[i], q[j])
  <2>1. TAKE i, j \in 1 .. frames
  <2>2. HAVE i <= j
  <2>3. 2 * i <= 2 * j
    BY <2>2
  <2> QED BY <1>6, <2>3 DEF InStream, whole
<1>10. \A i \in 1 .. frames :
         /\ Channel!NotOlder(first, q[i])
         /\ \A t \in later : Channel!NotOlder(q[i], t)
  BY <1>6 DEF InStream, whole
<1>11. last \in Channel!Snapshots /\ \A t \in later : Channel!NotOlder(last, t)
  <2>1. CASE frames = 0
    BY <2>1 DEF InStream
  <2>2. CASE frames # 0
    <3>1. frames \in 1 .. frames
      BY <2>2
    <3> QED BY <1>8, <1>10, <2>2, <3>1
  <2> QED BY <2>1, <2>2
<1>12. \A i \in 1 .. Len(rest) : Channel!NotOlder(last, rest[i].snapshot)
  <2>1. TAKE i \in 1 .. Len(rest)
  <2>2. k + i \in 1 .. Len(whole) /\ rest[i] = whole[k + i]
    BY <1>7
  <2>3. CASE frames = 0
    <3>1. Channel!NotOlder(first, whole[k + i].snapshot)
      BY <2>2 DEF InStream, whole
    <3> QED BY <2>2, <2>3, <3>1
  <2>4. CASE frames # 0
    <3>1. frames \in 1 .. frames /\ k <= k + i
      BY <1>5, <2>4
    <3>2. k \in 1 .. Len(whole) /\ q[frames] = whole[k].snapshot
      BY <1>6, <3>1
    <3> HIDE DEF k
    <3>3. Channel!NotOlder(whole[k].snapshot, whole[k + i].snapshot)
      BY <2>2, <3>1, <3>2 DEF InStream, whole
    <3> QED BY <2>2, <2>4, <3>2, <3>3
  <2> QED BY <2>3, <2>4
<1> HIDE DEF last
<1>13. \A i, j \in 1 .. Len(rest) :
         i <= j => Channel!NotOlder(rest[i].snapshot, rest[j].snapshot)
  <2>1. TAKE i, j \in 1 .. Len(rest)
  <2>2. HAVE i <= j
  <2> HIDE DEF k
  <2>3. k + i <= k + j
    BY <1>3, <1>5, <2>2
  <2>4. /\ k + i \in 1 .. Len(whole) /\ rest[i] = whole[k + i]
        /\ k + j \in 1 .. Len(whole) /\ rest[j] = whole[k + j]
    BY <1>7
  <2> QED BY <2>3, <2>4 DEF InStream, whole
<1>14. \A t \in later : \A i \in 1 .. Len(rest) : Channel!NotOlder(rest[i].snapshot, t)
  <2> HIDE DEF k
  <2> QED BY <1>7 DEF InStream, whole
<1>15. InStream(rest, last, later)
  BY <1>11, <1>12, <1>13, <1>14 DEF InStream
<1>16. InStream(<<>>, last, later)
  BY <1>15, DroppedStream
<1> QED BY <1>4, <1>9, <1>10, <1>11, <1>15, <1>16 DEF q, last, left, rest

-----------------------------------------------------------------------------
(* The composition keeps the order *)

\* What the Desktop holds and has not shown.
Held == desktop.buffer \o desktop.inbox

\* What can still come to it over this connection, and over the next.
ToCome ==
  {t \in Channel!Snapshots :
     \/ t = Stamp(store)
     \/ Linked /\ \/ \E i \in 1 .. Len(tx) : t = Stamp(tx[i].version)
                  \/ worker \in WriteStates /\ t = Stamp(response)}

HeldTyped ==
  /\ desktop.buffer \in Seq(Client!Pieces) /\ desktop.inbox \in Seq(Client!Pieces)
  /\ epoch \in 0 .. MaxEpoch /\ seen \in Channel!Snapshots

StreamInv == HeldTyped /\ Plugged(desktop) /\ InStream(Held, seen, ToCome)
OrderInv == AnswersInOrder /\ StreamInv

\* The step as SnapshotChannel sees it.
ChannelStep == Channel!ChannelNext \/ UNCHANGED Channel!channelVars

\* The mapped states and the facts about numbers that the steps need.
LEMMA StampsAre ==
  ASSUME IpcInv, HeldTyped
  PROVE  /\ store \in 0 .. MaxVersion /\ Stamp(store) \in Channel!Snapshots
         /\ MaxVersion \in Nat /\ MaxEpoch \in Nat /\ epoch \in Nat
         /\ \A i \in 1 .. Len(tx) :
              tx[i].version \in 0 .. MaxVersion /\ Stamp(tx[i].version) \in Channel!Snapshots
         /\ response \in 0 .. MaxVersion /\ Stamp(response) \in Channel!Snapshots
<1>1. /\ store \in 0 .. MaxVersion /\ response \in 0 .. MaxVersion /\ tx \in Seq(Replies)
      /\ MaxVersion \in Nat /\ MaxEpoch \in Nat /\ epoch \in 0 .. MaxEpoch
  BY BoundsAssumption, DesktopAssumption DEF IpcInv, IInv, TypeOK, HeldTyped
<1>2. \A v \in 0 .. MaxVersion : Stamp(v) \in Channel!Snapshots
  BY <1>1 DEF Stamp, Channel!Snapshots
<1>3. \A i \in 1 .. Len(tx) : tx[i].version \in 0 .. MaxVersion
  <2>1. \A i \in 1 .. Len(tx) : tx[i] \in Replies
    BY <1>1
  <2> QED BY <2>1 DEF Replies
<1> QED BY <1>1, <1>2, <1>3

\* While the connection lasts nothing comes that is older than what was to come.
LEMMA NewerComes ==
  ASSUME IpcInv, HeldTyped, LaterAnswers, store' \in Nat, epoch' = epoch, Linked' => Linked
  PROVE  Newer(ToCome, ToCome')
<1> SUFFICES ASSUME NEW t \in ToCome'
             PROVE  \E u \in ToCome : Channel!NotOlder(u, t)
  BY DEF Newer
<1>1. t \in Channel!Snapshots /\ Channel!NotOlder(t, t)
  BY OrderOfSnapshots DEF ToCome
<1>2. CASE t = Stamp(store)'
  <2>1. Stamp(store) \in ToCome
    BY StampsAre DEF ToCome
  <2>2. Channel!NotOlder(Stamp(store), t)
    BY <1>2, StampsAre DEF Stamp, Channel!NotOlder, LaterAnswers
  <2> QED BY <2>1, <2>2
<1>3. CASE Linked' /\ \E i \in 1 .. Len(tx') : t = <<epoch', tx'[i].version>>
  <2>1. PICK i \in 1 .. Len(tx') : t = <<epoch', tx'[i].version>>
    BY <1>3
  <2>2. CASE \E j \in 1 .. Len(tx) : tx'[i] = tx[j]
    <3>1. PICK j \in 1 .. Len(tx) : tx'[i] = tx[j]
      BY <2>2
    <3>2. t = Stamp(tx[j].version)
      BY <2>1, <3>1 DEF Stamp
    <3>3. t \in ToCome
      BY <1>1, <1>3, <3>2 DEF ToCome
    <3> QED BY <1>1, <3>3
  <2>3. CASE worker \in WriteStates /\ tx'[i].version = response
    <3>1. t = Stamp(response)
      BY <2>1, <2>3 DEF Stamp
    <3>2. t \in ToCome
      BY <1>1, <1>3, <2>3, <3>1 DEF ToCome
    <3> QED BY <1>1, <3>2
  <2> QED BY <2>2, <2>3 DEF LaterAnswers
<1>4. CASE Linked' /\ worker' \in WriteStates /\ t = <<epoch', response'>>
  <2>1. CASE worker \in WriteStates /\ response' = response
    <3>1. t = Stamp(response)
      BY <1>4, <2>1 DEF Stamp
    <3>2. t \in ToCome
      BY <1>1, <1>4, <2>1, <3>1 DEF ToCome
    <3> QED BY <1>1, <3>2
  <2>2. CASE response' = store
    <3>1. t = Stamp(store)
      BY <1>4, <2>2 DEF Stamp
    <3>2. t \in ToCome
      BY <1>1, <3>1 DEF ToCome
    <3> QED BY <1>1, <3>2
  <2> QED BY <1>4, <2>1, <2>2 DEF LaterAnswers
<1> QED BY <1>2, <1>3, <1>4 DEF ToCome, Stamp

\* A connection that begins brings what the store will hold.
LEMMA NewerBegins ==
  ASSUME IpcInv, HeldTyped, store' = store, epoch' = epoch, tx' = <<>>,
         worker' \notin WriteStates
  PROVE  Newer(ToCome, ToCome')
<1>1. Stamp(store) \in ToCome /\ Channel!NotOlder(Stamp(store), Stamp(store))
  BY StampsAre, OrderOfSnapshots DEF ToCome
<1>2. 1 .. Len(tx') = {}
  OBVIOUS
<1>3. \A t \in ToCome' : t = Stamp(store)
  BY <1>2 DEF ToCome, Stamp
<1> QED BY <1>1, <1>3 DEF Newer

\* A turn that shows nothing keeps what the Desktop holds in order, or drops it.
LEMMA SilentKeeps ==
  ASSUME StreamInv, Newer(ToCome, ToCome'), Silent(Quiet, desktop'),
         DOMAIN desktop = Fields, seen' = seen, epoch' \in 0 .. MaxEpoch
  PROVE  StreamInv' /\ Received(desktop') = <<>>
<1>1. Quiet.buffer = desktop.buffer /\ Quiet.inbox = desktop.inbox
  BY DEF Quiet, Fields
<1>2. <<>> \in Seq(Client!Pieces) /\ <<>> \in Seq(Channel!Snapshots) /\ <<>> \o <<>> = <<>>
  BY EmptySeq, ConcatEmptySeq
<1>3. \/ desktop'.buffer = desktop.buffer /\ desktop'.inbox = desktop.inbox
      \/ desktop'.buffer = <<>> /\ desktop'.inbox = <<>>
  BY <1>1 DEF Silent, SameBytes, NoBytes
<1>4. HeldTyped' /\ Plugged(desktop')
  BY <1>2, <1>3 DEF StreamInv, HeldTyped, Silent
<1>5. Held \in Seq(Client!Pieces) /\ InStream(Held, seen, ToCome)
  BY ConcatProperties DEF StreamInv, HeldTyped, Held
<1>6. Held' \in {Held, <<>>}
  BY <1>2, <1>3 DEF Held
<1>7. InStream(<<>>, seen, ToCome)
  BY <1>5, DroppedStream
<1>8. ToCome \in SUBSET Channel!Snapshots /\ ToCome' \in SUBSET Channel!Snapshots
  BY DEF ToCome
<1>9. InStream(Held', seen, ToCome)
  BY <1>5, <1>6, <1>7
<1>10. Held' \in Seq(Client!Pieces) /\ seen \in Channel!Snapshots
  BY <1>2, <1>5, <1>6 DEF StreamInv, HeldTyped
<1>11. InStream(Held', seen, ToCome')
  BY <1>8, <1>9, <1>10, NewerKeeps
<1>12. Received(desktop') = <<>>
  BY <1>2, ReceivedIs DEF Silent
<1> QED BY <1>4, <1>11, <1>12 DEF StreamInv

\* Then the channel's step is DeliverNothing.
LEMMA NothingDelivered ==
  ASSUME Received(desktop') = <<>>, store' = store, epoch' = epoch, seen' = seen
  PROVE  ChannelStep
<1>1. Received(desktop)' = <<>> /\ UNCHANGED <<Stamp(store), seen>>
  BY DEF Stamp
<1> QED BY <1>1 DEF ChannelStep, Channel!ChannelNext, Channel!DeliverNothing

-----------------------------------------------------------------------------
(* The steps keep the order, and are steps of the channel *)

\* A turn of the Desktop is a step of the server or leaves it alone.
LEMMA TurnSeenByServer ==
  ASSUME IpcInv, OrderInv, NEW after, Turn(after), Lets(desktop, after)
  PROVE  /\ AnswersInOrder' /\ desktop' = after /\ store' = store /\ epoch' = epoch
         /\ Newer(ToCome, ToCome')
<1>1. desktop' = after /\ epoch' = epoch
  BY DEF Turn
<1>2. [Next]_vars /\ store' = store
  <2>1. CASE Hangup(Desktop)
    <3>1. \E c \in Clients : ClientStep(c)
      BY <2>1, DesktopAssumption DEF ClientStep
    <3> QED BY <2>1, <3>1 DEF Hangup, serverVars, Next
  <2>2. CASE UNCHANGED vars
    BY <2>2 DEF vars
  <2> QED BY <2>1, <2>2 DEF Turn
<1>3. AnswersInOrder' /\ LaterAnswers
  BY <1>2, AnswersStep DEF IpcInv, OrderInv
<1>4. Linked' => Linked
  BY <1>1 DEF Lets, Linked
<1>5. HeldTyped /\ store' \in Nat
  BY <1>2, StampsAre DEF OrderInv, StreamInv
<1>6. Newer(ToCome, ToCome')
  BY <1>1, <1>3, <1>4, <1>5, NewerComes
<1> QED BY <1>1, <1>2, <1>3, <1>6

\* A turn that shows nothing.
LEMMA SilentTurn ==
  ASSUME IpcInv, OrderInv, NEW after, Turn(after), Lets(desktop, after), Silent(Quiet, after)
  PROVE  OrderInv' /\ ChannelStep
<1>1. /\ AnswersInOrder' /\ desktop' = after /\ store' = store /\ epoch' = epoch
      /\ Newer(ToCome, ToCome')
  BY TurnSeenByServer
<1>2. Received(after) = <<>>
  BY ReceivedIs, EmptySeq DEF Silent
<1>3. seen' = seen
  BY <1>2 DEF Turn
<1>4. epoch' \in 0 .. MaxEpoch /\ DOMAIN desktop = Fields
  BY <1>1 DEF OrderInv, StreamInv, HeldTyped, IpcInv, Sound
<1>5. StreamInv' /\ Received(desktop') = <<>>
  BY <1>1, <1>3, <1>4, SilentKeeps DEF OrderInv
<1>6. ChannelStep
  BY <1>1, <1>3, <1>5, NothingDelivered
<1> QED BY <1>1, <1>5, <1>6 DEF OrderInv

\* The turn begins with what the Desktop has, and no signal.
LEMMA QuietIs ==
  ASSUME IpcInv, OrderInv
  PROVE  /\ Sound(Quiet) /\ DOMAIN Quiet = Fields /\ Quiet.signals = <<>> /\ Plugged(Quiet)
         /\ Quiet.link = desktop.link /\ Quiet.socket = desktop.socket
         /\ Quiet.running = desktop.running /\ Quiet.reconnect = desktop.reconnect
         /\ Quiet.buffer = desktop.buffer /\ Quiet.inbox = desktop.inbox
<1>1. DOMAIN desktop = Fields /\ Sound(Quiet) /\ Plugged(desktop)
  BY QuietSound DEF Quiet, IpcInv, OrderInv, StreamInv, Sound
<1>2. /\ DOMAIN Quiet = Fields /\ Quiet.signals = <<>>
      /\ Quiet.link = desktop.link /\ Quiet.socket = desktop.socket
      /\ Quiet.running = desktop.running /\ Quiet.reconnect = desktop.reconnect
      /\ Quiet.buffer = desktop.buffer /\ Quiet.inbox = desktop.inbox
  BY <1>1 DEF Quiet, Fields
<1> QED BY <1>1, <1>2 DEF Plugged

\* stop(), the poll timer and a lost connection show nothing.
LEMMA SilentTurns ==
  ASSUME IpcInv, OrderInv, DesktopStops \/ PollTimeout \/ ConnectionLost
  PROVE  OrderInv' /\ ChannelStep
<1>0. /\ Sound(Quiet) /\ DOMAIN Quiet = Fields /\ Quiet.signals = <<>> /\ Plugged(Quiet)
      /\ Quiet.link = desktop.link
  BY QuietIs
<1>1. CASE DesktopStops
  <2>1. Lets(desktop, Client!stop(Quiet)) /\ Silent(Quiet, Client!stop(Quiet))
    BY <1>0, StopSound, StopSilent DEF Lets
  <2> QED BY <1>1, <2>1, SilentTurn DEF DesktopStops
<1>2. CASE PollTimeout
  <2>1. PICK accepted \in BOOLEAN : Turn(Client!request_snapshot(Quiet, accepted))
    BY <1>2 DEF PollTimeout
  <2>2. /\ Lets(desktop, Client!request_snapshot(Quiet, accepted))
        /\ Silent(Quiet, Client!request_snapshot(Quiet, accepted))
    BY <1>0, RequestSound, RequestSilent DEF Lets
  <2> QED BY <2>1, <2>2, SilentTurn
<1>3. CASE ConnectionLost
  <2>1. /\ Lets(desktop, Client!handle_disconnected(Client!Unlink(Quiet)))
        /\ Silent(Quiet, Client!handle_disconnected(Client!Unlink(Quiet)))
    BY <1>0, LostSound, LostSilent DEF Lets
  <2> QED BY <1>3, <2>1, SilentTurn DEF ConnectionLost
<1> QED BY <1>1, <1>2, <1>3

\* A connection that an attempt opens begins on an empty pipe, with nothing held;
\* a refused one changes nothing.
LEMMA AttemptKeepsOrder ==
  ASSUME IpcInv, OrderInv, NEW won, NEW lost, Attempt(won, lost),
         Silent(Quiet, won), NoBytes(won), Silent(Quiet, lost), lost.link = desktop.link
  PROVE  OrderInv' /\ ChannelStep
<1>1. seen' = seen /\ epoch' = epoch
  BY DEF Attempt
<1>2. epoch' \in 0 .. MaxEpoch /\ DOMAIN desktop = Fields /\ HeldTyped /\ StreamInv /\ IInv
      /\ AnswersInOrder
  BY <1>1 DEF OrderInv, StreamInv, HeldTyped, IpcInv, Sound
<1>3. CASE Connect(Desktop) /\ desktop' = won
  <2>1. [Next]_vars
    <3>1. \E c \in Clients : ClientStep(c)
      BY <1>3, DesktopAssumption DEF ClientStep
    <3> QED BY <3>1 DEF Next
  <2>2. AnswersInOrder'
    BY <1>2, <2>1, AnswersStep
  <2>3. pipe = "listening" /\ store' = store /\ tx' = tx /\ worker' = worker
    BY <1>3 DEF Connect, serverVars
  <2>4. tx = <<>> /\ worker \notin WriteStates
    BY <1>2, <2>3 DEF AnswersInOrder, WaitingStates, WriteStates
  <2>5. Newer(ToCome, ToCome')
    BY <1>1, <1>2, <2>3, <2>4, NewerBegins
  <2>6. StreamInv' /\ Received(desktop') = <<>>
    BY <1>1, <1>2, <1>3, <2>5, SilentKeeps
  <2>7. ChannelStep
    BY <1>1, <2>3, <2>6, NothingDelivered
  <2> QED BY <2>2, <2>6, <2>7 DEF OrderInv
<1>4. CASE UNCHANGED vars /\ desktop' = lost
  <2>1. AnswersInOrder' /\ LaterAnswers
    BY <1>2, <1>4, AnswersStep
  <2>2. store' = store /\ store' \in Nat
    BY <1>2, <1>4, StampsAre DEF vars
  <2>3. Linked' => Linked
    BY <1>4 DEF Linked
  <2>4. Newer(ToCome, ToCome')
    BY <1>1, <1>2, <2>1, <2>2, <2>3, NewerComes
  <2>5. StreamInv' /\ Received(desktop') = <<>>
    BY <1>1, <1>2, <1>4, <2>4, SilentKeeps
  <2>6. ChannelStep
    BY <1>1, <2>2, <2>5, NothingDelivered
  <2> QED BY <2>1, <2>5, <2>6 DEF OrderInv
<1> QED BY <1>3, <1>4 DEF Attempt

\* start() and the reconnect timer.
LEMMA AttemptsKeepOrder ==
  ASSUME IpcInv, OrderInv, DesktopStarts \/ ReconnectTimeout
  PROVE  OrderInv' /\ ChannelStep
<1>0. /\ Sound(Quiet) /\ DOMAIN Quiet = Fields /\ Quiet.signals = <<>> /\ Plugged(Quiet)
      /\ Quiet.link = desktop.link /\ Quiet.running = desktop.running
      /\ Quiet.reconnect = desktop.reconnect
  BY QuietIs
<1>1. ASSUME NEW c, DOMAIN c = Fields, c.signals = <<>>, c.running, c.socket = "Unconnected",
             c.link = desktop.link, c.buffer = Quiet.buffer, c.inbox = Quiet.inbox, Plugged(c),
             Attempt(Client!connect_to_agent(c, "connected"),
                     Client!connect_to_agent(c, "refused"))
      PROVE  OrderInv' /\ ChannelStep
  <2> DEFINE won == Client!connect_to_agent(c, "connected")
             lost == Client!connect_to_agent(c, "refused")
  <2>1. Silent(c, won) /\ NoBytes(won) /\ Silent(c, lost)
    BY <1>1, AttemptSilent
  <2>2. lost.link = desktop.link
    BY <1>1, AttemptSound
  <2>3. Attempt(won, lost)
    BY <1>1
  <2> HIDE DEF won, lost
  <2>4. Silent(Quiet, won) /\ Silent(Quiet, lost)
    BY <1>1, <2>1 DEF Silent, SameBytes
  <2> QED BY <2>1, <2>2, <2>3, <2>4, AttemptKeepsOrder
<1>2. CASE DesktopStarts
  <2> DEFINE c == [Quiet EXCEPT !.running = TRUE, !.attempt = 0]
  <2>1. ~Quiet.running
    BY <1>0, <1>2 DEF DesktopStarts
  <2>2. /\ Client!start(Quiet, "connected") = Client!connect_to_agent(c, "connected")
        /\ Client!start(Quiet, "refused") = Client!connect_to_agent(c, "refused")
    BY <2>1 DEF Client!start
  <2>3. /\ DOMAIN c = Fields /\ c.signals = <<>> /\ c.running /\ c.socket = "Unconnected"
        /\ c.link = desktop.link /\ c.buffer = Quiet.buffer /\ c.inbox = Quiet.inbox
        /\ c.socket = Quiet.socket
    BY <1>0, <2>1 DEF Sound, Fields
  <2>4. Attempt(Client!connect_to_agent(c, "connected"), Client!connect_to_agent(c, "refused"))
    BY <1>2, <2>2 DEF DesktopStarts
  <2> HIDE DEF c
  <2>5. Plugged(c)
    BY <1>0, <2>3 DEF Plugged
  <2> QED BY <1>1, <2>3, <2>4, <2>5
<1>3. CASE ReconnectTimeout
  <2> DEFINE c == [Quiet EXCEPT !.reconnect = 0]
  <2>1. Quiet.reconnect # 0
    BY <1>0, <1>3 DEF ReconnectTimeout
  <2>2. /\ DOMAIN c = Fields /\ c.signals = <<>> /\ c.running /\ c.socket = "Unconnected"
        /\ c.link = desktop.link /\ c.buffer = Quiet.buffer /\ c.inbox = Quiet.inbox
        /\ c.socket = Quiet.socket
    BY <1>0, <2>1 DEF Sound, Fields
  <2>3. Attempt(Client!connect_to_agent(c, "connected"), Client!connect_to_agent(c, "refused"))
    BY <1>3 DEF ReconnectTimeout
  <2> HIDE DEF c
  <2>4. Plugged(c)
    BY <1>0, <2>2 DEF Plugged
  <2> QED BY <1>1, <2>2, <2>3, <2>4
<1> QED BY <1>2, <1>3

\* Regrouping the pieces of a stream does not change it.
LEMMA Regrouped ==
  ASSUME NEW s \in Seq(Client!Pieces), NEW t \in Seq(Client!Pieces), NEW u \in Seq(Client!Pieces)
  PROVE  (s \o t) \o u = s \o (t \o u)
<1> DEFINE S == Client!Pieces
<1>1. s \in Seq(S) /\ t \in Seq(S) /\ u \in Seq(S)
  OBVIOUS
<1> HIDE DEF S
<1> QED BY <1>1, ConcatAssociative

\* handle_ready_read delivers what it decodes, in the order of the stream.
LEMMA ReadDelivers ==
  ASSUME IpcInv, OrderInv, ReadyRead
  PROVE  OrderInv' /\ ChannelStep
<1>1. PICK n \in 1 .. Len(desktop.inbox) :
        Turn(Client!handle_ready_read([Quiet EXCEPT !.inbox = SubSeq(@, n + 1, Len(@))],
                                      SubSeq(desktop.inbox, 1, n)))
  BY DEF ReadyRead
<1> DEFINE c == [Quiet EXCEPT !.inbox = SubSeq(@, n + 1, Len(@))]
           arrived == SubSeq(desktop.inbox, 1, n)
           behind == SubSeq(desktop.inbox, n + 1, Len(desktop.inbox))
           bytes == desktop.buffer \o arrived
           frames == Client!DecodedFrames(bytes)
           q == Taken(bytes, frames)
           last == IF frames = 0 THEN seen ELSE q[frames]
           left == Left(bytes, frames)
           after == Client!handle_ready_read(c, arrived)
<1>2. /\ Sound(Quiet) /\ DOMAIN Quiet = Fields /\ Quiet.signals = <<>>
      /\ Quiet.link = desktop.link /\ Quiet.socket = desktop.socket
      /\ Quiet.buffer = desktop.buffer /\ Quiet.inbox = desktop.inbox
  BY QuietIs
<1>3. /\ Sound(c) /\ DOMAIN c = Fields /\ c.signals = <<>> /\ c.link = desktop.link
      /\ c.socket = "Connected" /\ c.buffer = desktop.buffer /\ c.inbox = behind
  BY <1>2 DEF Sound, Fields, ReadyRead
<1>4. Turn(after)
  BY <1>1
<1>5. HeldTyped /\ AnswersInOrder /\ InStream(Held, seen, ToCome)
  BY DEF OrderInv, StreamInv
<1>6. /\ desktop.buffer \in Seq(Client!Pieces) /\ desktop.inbox \in Seq(Client!Pieces)
      /\ seen \in Channel!Snapshots
  BY <1>5 DEF HeldTyped
<1>7. /\ arrived \in Seq(Client!Pieces) /\ behind \in Seq(Client!Pieces)
      /\ desktop.inbox = arrived \o behind
  <2>1. n \in 0 .. Len(desktop.inbox)
    BY <1>6
  <2> QED BY <1>6, <2>1, CutAt
<1> HIDE DEF c, arrived, behind
<1>8. bytes \in Seq(Client!Pieces) /\ Held = bytes \o behind
  <2>1. bytes \in Seq(Client!Pieces)
    BY <1>6, <1>7, ConcatProperties
  <2>2. (desktop.buffer \o arrived) \o behind = desktop.buffer \o (arrived \o behind)
    BY <1>6, <1>7, Regrouped
  <2> QED BY <1>7, <2>1, <2>2, Zenon DEF Held
<1>9. Lets(desktop, after)
  BY <1>3, ReadSound DEF Lets
<1>10. /\ Shows(after, q)
       /\ \/ after.buffer = left /\ after.inbox = behind
          \/ NoBytes(after)
       /\ Plugged(after)
  BY <1>3, <1>8, ReadShows
<1> HIDE DEF after, bytes
<1>11. frames \in Nat /\ 2 * frames <= Len(bytes)
  BY <1>8, FramesFit
<1> HIDE DEF frames
<1>12. ToCome \in SUBSET Channel!Snapshots
  BY DEF ToCome
<1>13. /\ last \in Channel!Snapshots
       /\ \A i \in 1 .. frames :
            /\ Channel!NotOlder(seen, q[i])
            /\ \A t \in ToCome : Channel!NotOlder(q[i], t)
       /\ \A i, j \in 1 .. frames : i <= j => Channel!NotOlder(q[i], q[j])
       /\ left \in Seq(Client!Pieces)
       /\ InStream(left \o behind, last, ToCome)
       /\ InStream(<<>>, last, ToCome)
  BY <1>5, <1>6, <1>7, <1>8, <1>11, <1>12, ReadStream
<1>14. q \in Seq(Channel!Snapshots) /\ Len(q) = frames
  BY <1>8, <1>11, TakenIs
<1>15. Received(after) = q
  BY <1>10, <1>14, ReceivedIs
<1>16. /\ AnswersInOrder' /\ desktop' = after /\ store' = store /\ epoch' = epoch
       /\ Newer(ToCome, ToCome')
  BY <1>4, <1>9, TurnSeenByServer
<1> HIDE DEF q, left
<1>17. q = <<>> <=> frames = 0
  BY <1>11, <1>14
<1>18. seen' = last
  BY <1>4, <1>14, <1>15, <1>17 DEF Turn
<1> HIDE DEF last
<1>19. /\ <<>> \in Seq(Client!Pieces) /\ <<>> \o <<>> = <<>>
  BY EmptySeq, ConcatEmptySeq
<1>20. Held' \in {left \o behind, <<>>} /\ HeldTyped' /\ Plugged(desktop)'
  <2>1. epoch' \in 0 .. MaxEpoch /\ seen' \in Channel!Snapshots
    BY <1>5, <1>13, <1>16, <1>18 DEF HeldTyped
  <2>2. CASE after.buffer = left /\ after.inbox = behind
    BY <1>7, <1>10, <1>13, <1>16, <2>1, <2>2 DEF Held, HeldTyped
  <2>3. CASE NoBytes(after)
    BY <1>10, <1>16, <1>19, <2>1, <2>3 DEF Held, HeldTyped, NoBytes
  <2> QED BY <1>10, <2>2, <2>3
<1>21. Held' \in Seq(Client!Pieces) /\ InStream(Held', seen', ToCome)
  <2>1. left \o behind \in Seq(Client!Pieces)
    BY <1>7, <1>13, ConcatProperties
  <2> QED BY <1>13, <1>18, <1>19, <1>20, <2>1
<1>22. ToCome' \in SUBSET Channel!Snapshots
  BY DEF ToCome
<1>23. InStream(Held', seen', ToCome')
  BY <1>12, <1>13, <1>16, <1>18, <1>21, <1>22, NewerKeeps
<1>24. OrderInv'
  BY <1>16, <1>20, <1>23 DEF OrderInv, StreamInv
<1>25. CASE frames = 0
  <2>1. Received(desktop') = <<>> /\ seen' = seen
    BY <1>15, <1>16, <1>17, <1>18, <1>25 DEF last
  <2>2. ChannelStep
    BY <1>16, <2>1, NothingDelivered
  <2> QED BY <1>24, <2>2
<1>26. CASE frames # 0
  <2>1. Received(desktop)' = q /\ q # <<>> /\ DOMAIN q = 1 .. frames
    BY <1>14, <1>15, <1>16, <1>17, <1>26
  <2>2. Stamp(store) \in ToCome
    BY <1>5, StampsAre DEF ToCome
  <2>3. \A i \in DOMAIN q : q[i] \in Channel!Between(seen, Stamp(store))
    BY <1>13, <1>14, <2>1, <2>2 DEF Channel!Between
  <2>4. Channel!InOrder(q)
    <3>1. ASSUME NEW i \in 1 .. Len(q) - 1
          PROVE  Channel!NotOlder(q[i], q[i + 1])
      <4>1. i \in 1 .. frames /\ i + 1 \in 1 .. frames /\ i <= i + 1
        BY <1>11, <1>14
      <4> QED BY <1>13, <4>1
    <3> QED BY <3>1 DEF Channel!InOrder
  <2>5. seen' = q[Len(q)]
    BY <1>14, <1>18, <1>26 DEF last
  <2>6. Stamp(store)' = Stamp(store)
    BY <1>16 DEF Stamp
  <2>7. Channel!Deliver
    BY <2>1, <2>3, <2>4, <2>5, <2>6 DEF Channel!Deliver
  <2> QED BY <1>24, <2>7 DEF ChannelStep, Channel!ChannelNext
<1> QED BY <1>25, <1>26

\* The socket sends a request, and no byte of an answer moves.
LEMMA TransmitKeepsOrder ==
  ASSUME IpcInv, OrderInv, Transmit
  PROVE  OrderInv' /\ ChannelStep
<1>1. /\ Send(Desktop, "valid") /\ desktop' = [desktop EXCEPT !.asked = @ - 1]
      /\ epoch' = epoch /\ seen' = seen
  BY DEF Transmit
<1>2. DOMAIN desktop = Fields /\ HeldTyped /\ Plugged(desktop) /\ InStream(Held, seen, ToCome)
  BY DEF OrderInv, StreamInv, IpcInv, Sound
<1>3. /\ desktop'.buffer = desktop.buffer /\ desktop'.inbox = desktop.inbox
      /\ desktop'.signals = desktop.signals /\ desktop'.link = desktop.link
      /\ desktop'.socket = desktop.socket
  BY <1>1, <1>2 DEF Fields
<1>4. \E c \in Clients : ClientStep(c)
  BY <1>1, DesktopAssumption DEF ClientStep, Kinds
<1>5. AnswersInOrder'
  BY <1>4, AnswersStep DEF Next, IpcInv, OrderInv
<1>6. tx' = tx /\ store' = store /\ worker' = worker /\ response' = response
  BY <1>1 DEF Send, serverVars, answerVars
<1>7. ToCome' = ToCome /\ Held' = Held
  BY <1>1, <1>3, <1>6 DEF ToCome, Held, Linked, Stamp
<1>8. StreamInv'
  BY <1>1, <1>2, <1>3, <1>7 DEF StreamInv, HeldTyped, Plugged
<1>9. Received(desktop') = Received(desktop)
  BY <1>3 DEF Received
<1>10. UNCHANGED Channel!channelVars
  BY <1>1, <1>6, <1>9 DEF Channel!channelVars, Stamp
<1> QED BY <1>5, <1>8, <1>10 DEF OrderInv, ChannelStep

\* The socket takes the oldest piece of the pipe: it was to come, and all else
\* that is to come is not older.
LEMMA FetchKeepsOrder ==
  ASSUME IpcInv, OrderInv, Fetch
  PROVE  OrderInv' /\ ChannelStep
<1> DEFINE piece == Client!Piece(Head(tx).part, "none", Stamp(Head(tx).version))
           more == <<piece>>
<1>1. /\ Receive(Desktop) /\ desktop' = [desktop EXCEPT !.inbox = Append(@, piece)]
      /\ epoch' = epoch /\ seen' = seen /\ Linked
  BY DEF Fetch
<1>2. /\ DOMAIN desktop = Fields /\ HeldTyped /\ Plugged(desktop) /\ InStream(Held, seen, ToCome)
      /\ AnswersInOrder
  BY DEF OrderInv, StreamInv, IpcInv, Sound
<1>3. tx \in Seq(Replies) /\ tx # <<>> /\ Head(tx) \in Replies /\ Head(tx) = tx[1]
      /\ 1 \in 1 .. Len(tx)
  BY <1>1 DEF Receive, IpcInv, IInv, TypeOK
<1>4. /\ piece \in Client!Pieces /\ piece.snapshot = Stamp(tx[1].version)
  BY <1>2, <1>3, StampsAre DEF Client!Piece, Client!Pieces, Replies
<1> HIDE DEF piece
<1>5. /\ desktop'.buffer = desktop.buffer /\ desktop'.inbox = Append(desktop.inbox, piece)
      /\ desktop'.signals = desktop.signals /\ desktop'.link = desktop.link
      /\ desktop'.socket = desktop.socket
  BY <1>1, <1>2 DEF Fields
<1>6. \E c \in Clients : ClientStep(c)
  BY <1>1, DesktopAssumption DEF ClientStep
<1>7. AnswersInOrder' /\ LaterAnswers
  BY <1>2, <1>6, AnswersStep DEF Next, IpcInv
<1>8. store' = store /\ tx' = Tail(tx) /\ worker' = worker /\ response' = response
  BY <1>1 DEF Receive, serverVars, answerVars
<1>9. store' \in Nat /\ (Linked' => Linked)
  BY <1>1, <1>2, <1>8, StampsAre
<1>10. Newer(ToCome, ToCome')
  BY <1>1, <1>2, <1>7, <1>9, NewerComes
<1>11. /\ desktop.buffer \in Seq(Client!Pieces) /\ desktop.inbox \in Seq(Client!Pieces)
       /\ seen \in Channel!Snapshots /\ epoch \in 0 .. MaxEpoch
  BY <1>2 DEF HeldTyped
<1>12. /\ more \in Seq(Client!Pieces) /\ Len(more) = 1 /\ more[1] = piece
  BY <1>4
<1> HIDE DEF more
<1>13. desktop'.inbox = desktop.inbox \o more
  BY <1>4, <1>5, <1>11, AppendIsConcat DEF more
<1>14. Held' = Held \o more /\ Held \in Seq(Client!Pieces) /\ desktop'.inbox \in Seq(Client!Pieces)
  <2>1. Held \in Seq(Client!Pieces) /\ desktop'.inbox \in Seq(Client!Pieces)
    BY <1>11, <1>12, <1>13, ConcatProperties DEF Held
  <2>2. (desktop.buffer \o desktop.inbox) \o more = desktop.buffer \o (desktop.inbox \o more)
    BY <1>11, <1>12, Regrouped
  <2>3. Held' = desktop'.buffer \o desktop'.inbox
    BY DEF Held
  <2> QED BY <1>5, <1>13, <2>1, <2>2, <2>3, Zenon DEF Held
<1>15. Stamp(tx[1].version) \in ToCome
  BY <1>1, <1>2, <1>3, StampsAre DEF ToCome
<1>16. ASSUME NEW t \in ToCome'
       PROVE  Channel!NotOlder(piece.snapshot, t)
  <2>1. /\ \A i \in 1 .. Len(tx') : tx'[i] = tx[i + 1] /\ i + 1 \in 1 .. Len(tx)
    BY <1>3, <1>8, HeadTailProperties
  <2>2. \A i \in 1 .. Len(tx) : tx[1].version <= tx[i].version
    BY <1>2, <1>3 DEF AnswersInOrder
  <2>3. tx[1].version <= store /\ (worker \in WriteStates => tx[1].version <= response)
    BY <1>2, <1>3 DEF AnswersInOrder
  <2>4. PICK v : t = <<epoch, v>> /\ tx[1].version <= v
    <3>1. CASE t = <<epoch', store'>>
      BY <1>1, <1>8, <2>3, <3>1
    <3>2. CASE \E i \in 1 .. Len(tx') : t = <<epoch', tx'[i].version>>
      <4>1. PICK i \in 1 .. Len(tx') : t = <<epoch', tx'[i].version>>
        BY <3>2
      <4> QED BY <1>1, <2>1, <2>2, <4>1
    <3>3. CASE worker' \in WriteStates /\ t = <<epoch', response'>>
      BY <1>1, <1>8, <2>3, <3>3
    <3> QED BY <3>1, <3>2, <3>3 DEF ToCome, Stamp
  <2> QED BY <1>4, <2>4 DEF Channel!NotOlder, Stamp
<1>17. ToCome \in SUBSET Channel!Snapshots /\ ToCome' \in SUBSET Channel!Snapshots
  BY DEF ToCome
<1>18. /\ \A i \in 1 .. Len(more) :
            more[i].snapshot \in ToCome /\ \A t \in ToCome' : Channel!NotOlder(more[i].snapshot, t)
       /\ \A i, j \in 1 .. Len(more) :
            i <= j => Channel!NotOlder(more[i].snapshot, more[j].snapshot)
  <2>1. \A i \in 1 .. Len(more) : more[i] = piece
    BY <1>12
  <2>2. Channel!NotOlder(piece.snapshot, piece.snapshot)
    BY <1>4, <1>15, <1>17, OrderOfSnapshots
  <2> QED BY <1>4, <1>15, <1>16, <2>1, <2>2
<1>19. InStream(Held', seen, ToCome')
  BY <1>2, <1>10, <1>11, <1>12, <1>14, <1>17, <1>18, LongerStream
<1>20. Plugged(desktop)'
  BY <1>1, <1>2, <1>5 DEF Plugged, Linked
<1>21. StreamInv'
  BY <1>1, <1>5, <1>11, <1>14, <1>19, <1>20 DEF StreamInv, HeldTyped
<1>22. Received(desktop') = Received(desktop)
  BY <1>5 DEF Received
<1>23. UNCHANGED Channel!channelVars
  BY <1>1, <1>8, <1>22 DEF Channel!channelVars, Stamp
<1> QED BY <1>7, <1>21, <1>23 DEF OrderInv, ChannelStep

\* Only StoreUpdate writes the store.
LEMMA StoreKept ==
  ASSUME Start \/ StopCall \/ OwnerStep \/ WorkerStep \/ OtherClient
  PROVE  store' = store
<1>1. CASE Start \/ StopCall
  BY <1>1 DEF Start, StopCall
<1>2. CASE OwnerStep
  BY <1>2 DEF OwnerStep, Wake, CloseWake, Cancel, Join
<1>3. CASE WorkerStep
  <2>1. CASE \/ SecurityDescriptor \/ LoopTest \/ CreateNamedPipeFails \/ CreateNamedPipe
             \/ ConnectNamedPipe \/ ReadTest \/ ReadFile \/ WriteFile
    BY <2>1 DEF SecurityDescriptor, LoopTest, CreateNamedPipeFails, CreateNamedPipe,
         ConnectNamedPipe, ReadTest, ReadFile, WriteFile, Goes
  <2>2. CASE ConnectReturns \/ Decode \/ WriteTest
    BY <2>2 DEF ConnectReturns, Decode, WriteTest
  <2>3. CASE ReadReturns \/ WriteReturns
    BY <2>3 DEF ReadReturns, WriteReturns
  <2>4. CASE Close \/ CloseLast
    BY <2>4 DEF Close, CloseLast, ClosePipe
  <2> QED BY <1>3, <2>1, <2>2, <2>3, <2>4 DEF WorkerStep
<1>4. CASE OtherClient
  BY <1>4 DEF OtherClient, ClientStep, Connect, Send, Hangup, CrashMidFrame, Receive, serverVars
<1> QED BY <1>1, <1>2, <1>3, <1>4

\* What the Desktop notices takes no byte from it and shows nothing; a new
\* measurement is not noticed at all.
LEMMA NoticesSilent ==
  ASSUME IpcInv, OrderInv, DesktopNotices
  PROVE  /\ desktop'.buffer = desktop.buffer /\ desktop'.inbox = desktop.inbox
         /\ desktop'.socket = desktop.socket /\ desktop'.link \in {desktop.link, "dead"}
         /\ Received(desktop') \in {Received(desktop), <<>>}
         /\ StoreUpdate => desktop' = desktop
<1> DEFINE cut == [Quiet EXCEPT !.link = "dead", !.asked = 0]
           Begins == Linked /\ pipe' # "absent" /\ written = 0 /\ written' > 0
           Turns == ~Linked /\ Admits' # Admits
           Cuts == Linked /\ pipe' = "absent"
<1>1. /\ DOMAIN Quiet = Fields /\ Quiet.signals = <<>>
      /\ Quiet.link = desktop.link /\ Quiet.socket = desktop.socket
      /\ Quiet.buffer = desktop.buffer /\ Quiet.inbox = desktop.inbox
  BY QuietIs
<1>2. /\ cut.signals = <<>> /\ cut.link = "dead" /\ cut.socket = desktop.socket
      /\ cut.buffer = desktop.buffer /\ cut.inbox = desktop.inbox
  BY <1>1 DEF Fields
<1> HIDE DEF cut
<1>3. Cuts => desktop' = cut
  BY Zenon DEF DesktopNotices, cut
<1>4. ~Cuts /\ Begins => desktop' = Quiet
  BY Zenon DEF DesktopNotices
<1>5. ~Cuts /\ ~Begins /\ Turns => desktop' = Quiet
  BY Zenon DEF DesktopNotices
<1>6. ~Cuts /\ ~Begins /\ ~Turns => desktop' = desktop
  BY Zenon DEF DesktopNotices
<1>7. desktop' \in {desktop, Quiet, cut}
  <2> HIDE DEF Cuts, Begins, Turns
  <2> QED BY <1>3, <1>4, <1>5, <1>6
<1>8. Received(Quiet) = <<>> /\ Received(cut) = <<>>
  BY <1>1, <1>2, NothingEmitted
<1>9. ASSUME StoreUpdate PROVE desktop' = desktop
  <2>1. pipe' = pipe /\ peer' = peer /\ written' = written
    BY <1>9 DEF StoreUpdate, pipeVars, answerVars
  <2>2. ~Cuts
    BY <2>1 DEF IpcInv, LinkAgrees
  <2>3. ~Begins
    <3>1. written \in Nat
      BY DEF IpcInv, IInv, TypeOK, FrameSize
    <3> QED BY <2>1, <3>1
  <2>4. ~Turns
    BY <2>1 DEF Admits
  <2> HIDE DEF Cuts, Begins, Turns
  <2> QED BY <1>6, <2>2, <2>3, <2>4
<1> QED BY <1>1, <1>2, <1>7, <1>8, <1>9

\* A step of the Agent, or of another process.
LEMMA AgentKeepsOrder ==
  ASSUME IpcInv, OrderInv,
         Start \/ StopCall \/ OwnerStep \/ WorkerStep \/ StoreUpdate \/ OtherClient,
         DesktopNotices, UNCHANGED <<epoch, seen>>
  PROVE  OrderInv' /\ ChannelStep
<1>1. /\ desktop'.buffer = desktop.buffer /\ desktop'.inbox = desktop.inbox
      /\ desktop'.socket = desktop.socket /\ desktop'.link \in {desktop.link, "dead"}
      /\ Received(desktop') \in {Received(desktop), <<>>}
      /\ StoreUpdate => desktop' = desktop
  BY NoticesSilent
<1>2. epoch' = epoch /\ seen' = seen
  OBVIOUS
<1>3. HeldTyped /\ Plugged(desktop) /\ InStream(Held, seen, ToCome) /\ AnswersInOrder
  BY DEF OrderInv, StreamInv
<1>4. AnswersInOrder' /\ LaterAnswers
  BY <1>3, AnswersStep DEF IpcInv, Next, OtherClient
<1>5. store' \in 0 .. MaxVersion /\ store' \in Nat /\ store \in Nat
  <2>1. IInv'
    BY AgentJoined DEF IpcInv
  <2>2. store' \in 0 .. MaxVersion
    BY <2>1 DEF IInv, TypeOK
  <2> QED BY <1>3, <2>2, StampsAre
<1>6. Linked' => Linked
  BY <1>1 DEF Linked
<1>7. Newer(ToCome, ToCome')
  BY <1>2, <1>3, <1>4, <1>5, <1>6, NewerComes
<1>8. Held' = Held /\ HeldTyped' /\ Plugged(desktop)'
  BY <1>1, <1>2, <1>3 DEF Held, HeldTyped, Plugged
<1>9. /\ Held \in Seq(Client!Pieces) /\ seen \in Channel!Snapshots
      /\ ToCome \in SUBSET Channel!Snapshots /\ ToCome' \in SUBSET Channel!Snapshots
  BY <1>3, ConcatProperties DEF Held, HeldTyped, ToCome
<1>10. InStream(Held', seen', ToCome')
  BY <1>2, <1>3, <1>7, <1>8, <1>9, NewerKeeps
<1>11. OrderInv'
  BY <1>4, <1>8, <1>10 DEF OrderInv, StreamInv
<1>12. CASE StoreUpdate
  <2>1. store' = store + 1 /\ desktop' = desktop
    BY <1>1, <1>12 DEF StoreUpdate
  <2>2. Stamp(store)' = <<Stamp(store)[1], Stamp(store)[2] + 1>>
    BY <1>2, <2>1 DEF Stamp
  <2>3. Stamp(store)' \in Channel!Snapshots
    BY <1>2, <1>3, <1>5 DEF Stamp, HeldTyped, Channel!Snapshots
  <2>4. Channel!Publish
    BY <1>2, <2>1, <2>2, <2>3 DEF Channel!Publish
  <2> QED BY <1>11, <2>4 DEF ChannelStep, Channel!ChannelNext
<1>13. CASE Start \/ StopCall \/ OwnerStep \/ WorkerStep \/ OtherClient
  <2>1. store' = store
    BY <1>13, StoreKept
  <2>2. CASE Received(desktop') = Received(desktop)
    <3>1. UNCHANGED Channel!channelVars
      BY <1>2, <2>1, <2>2 DEF Channel!channelVars, Stamp
    <3> QED BY <1>11, <3>1 DEF ChannelStep
  <2>3. CASE Received(desktop') = <<>>
    BY <1>2, <1>11, <2>1, <2>3, NothingDelivered
  <2> QED BY <1>1, <2>2, <2>3
<1> QED BY <1>12, <1>13

\* What a dying Agent leaves in the pipe is the beginning of what was under way.
LEMMA LeftInPipe ==
  ASSUME IpcInv, HeldTyped, Linked, NEW n \in 0 .. Len(tx)
  PROVE  LET inbox == desktop.inbox
             more == SubSeq(ClientSide.inbox, Len(inbox) + 1, Len(inbox) + n)
         IN  /\ more \in Seq(Client!Pieces) /\ Len(more) = n
             /\ \A i \in 1 .. n : more[i].snapshot = Stamp(tx[i].version)
<1> DEFINE inbox == desktop.inbox
           l == Len(inbox)
           way == UnderWay
           stamped == [i \in DOMAIN way |->
                         [part |-> way[i].part, fault |-> "none",
                          snapshot |-> Stamp(way[i].version)]]
           whole == ClientSide.inbox
           more == SubSeq(whole, l + 1, l + n)
<1>1. /\ tx \in Seq(Replies) /\ response \in 0 .. MaxVersion /\ Len(tx) \in Nat
      /\ DOMAIN desktop = Fields
      /\ inbox \in Seq(Client!Pieces) /\ l \in Nat
  BY DEF IpcInv, IInv, TypeOK, Sound, HeldTyped
<1>2. Rest \in Seq(Replies)
  <2>1. Reply("body", response) \in Replies
    BY <1>1 DEF Reply, Replies
  <2>2. <<Reply("body", response)>> \in Seq(Replies) /\ <<>> \in Seq(Replies)
    BY <2>1
  <2> QED BY <2>2 DEF Rest
<1>3. /\ way \in Seq(Replies) /\ Len(way) \in Nat /\ Len(tx) <= Len(way)
      /\ \A i \in 1 .. Len(tx) : way[i] = tx[i]
  BY <1>1, <1>2, ConcatProperties DEF UnderWay
<1> HIDE DEF way
<1>4. \A i \in 1 .. Len(way) : way[i] \in Replies
  BY <1>3
<1>5. \A v \in 0 .. MaxVersion : Stamp(v) \in Channel!Snapshots
  BY DesktopAssumption, BoundsAssumption DEF HeldTyped, Stamp, Channel!Snapshots
<1>6. \A i \in 1 .. Len(way) :
        [part |-> way[i].part, fault |-> "none", snapshot |-> Stamp(way[i].version)]
          \in Client!Pieces
  <2>1. \A i \in 1 .. Len(way) : /\ way[i].part \in {"header", "body"}
                                /\ Stamp(way[i].version) \in Channel!Snapshots
    BY <1>4, <1>5 DEF Replies
  <2> QED BY <2>1 DEF Client!Pieces
<1>7. DOMAIN way = 1 .. Len(way)
  BY <1>3
<1>8. /\ stamped \in [1 .. Len(way) -> Client!Pieces]
      /\ \A i \in 1 .. Len(way) : stamped[i].snapshot = Stamp(way[i].version)
  BY <1>6, <1>7
<1>9. whole = inbox \o stamped
  <2> DEFINE a == desktop.asked + Len(asked) - NumberOf(UnderWay, Answers)
             b == inbox \o stamped
  <2>1. ClientSide = [desktop EXCEPT !.asked = a, !.inbox = b]
    BY DEF ClientSide, way
  <2> HIDE DEF a, b
  <2>2. ClientSide.inbox = b
    BY <1>1, <2>1 DEF Fields
  <2> QED BY <2>2 DEF b
<1> HIDE DEF stamped, inbox, whole
<1>10. stamped \in Seq(Client!Pieces) /\ Len(stamped) = Len(way)
  BY <1>3, <1>8
<1>11. /\ Len(whole) = l + Len(way)
       /\ \A i \in 1 .. l + Len(way) :
            whole[i] = IF i <= l THEN inbox[i] ELSE stamped[i - l]
       /\ whole \in Seq(Client!Pieces)
  <2> DEFINE joined == inbox \o stamped
  <2>1. /\ joined \in Seq(Client!Pieces)
        /\ Len(joined) = Len(inbox) + Len(stamped)
        /\ \A i \in 1 .. Len(inbox) + Len(stamped) :
             joined[i] = IF i <= Len(inbox) THEN inbox[i] ELSE stamped[i - Len(inbox)]
    BY <1>1, <1>10, ConcatProperties
  <2>2. whole = joined
    BY <1>9
  <2> HIDE DEF joined
  <2> QED BY <1>10, <2>1, <2>2
<1> HIDE DEF l
<1>12. n \in Nat /\ n <= Len(way)
  BY <1>1, <1>3
<1>13. \A i \in 1 .. n : l + i \in 1 .. Len(whole) /\ whole[l + i] = stamped[i]
  <2>1. TAKE i \in 1 .. n
  <2> DEFINE k == l + i
  <2>2. k \in 1 .. l + Len(way) /\ ~(k <= l) /\ k - l = i
    BY <1>1, <1>3, <1>12
  <2> HIDE DEF k
  <2>3. k \in 1 .. Len(whole) /\ whole[k] = stamped[i]
    BY <1>11, <2>2
  <2> QED BY <2>3 DEF k
<1>14. /\ more \in Seq(Client!Pieces) /\ Len(more) = n
       /\ \A i \in 1 .. n : more[i] = stamped[i]
  <2> DEFINE a == l + 1
             b == l + n
  <2>1. a \in Int /\ b \in Int /\ b - a + 1 = n /\ (a <= b <=> n # 0)
    BY <1>1, <1>12
  <2>2. \A i \in a .. b : whole[i] \in Client!Pieces
    <3>1. \A i \in a .. b : i \in 1 .. Len(whole)
      BY <1>1, <1>3, <1>11, <1>12
    <3> QED BY <1>11, <3>1
  <2>3. \A i \in 1 .. n : a + i - 1 = l + i
    BY <1>1, <1>12
  <2>4. more = SubSeq(whole, a, b)
    OBVIOUS
  <2> HIDE DEF a, b, more
  <2>5. /\ more \in Seq(Client!Pieces) /\ Len(more) = IF a <= b THEN b - a + 1 ELSE 0
        /\ \A i \in 1 .. b - a + 1 : more[i] = whole[a + i - 1]
    BY <2>1, <2>2, <2>4, SubSeqProperties
  <2>6. Len(more) = n
    BY <1>12, <2>1, <2>5
  <2>7. \A i \in 1 .. n : more[i] = stamped[i]
    BY <1>13, <2>1, <2>3, <2>5
  <2> QED BY <2>5, <2>6, <2>7
<1> HIDE DEF more
<1>15. \A i \in 1 .. n : i \in 1 .. Len(tx) /\ i \in 1 .. Len(way)
  BY <1>1, <1>3, <1>12
<1>16. \A i \in 1 .. n : more[i].snapshot = Stamp(tx[i].version)
  BY <1>3, <1>8, <1>14, <1>15
<1> QED BY <1>14, <1>16 DEF more, whole, l, inbox

\* The Desktop of a dead Agent holds no more than was to come, and the next
\* Agent has only newer snapshots.
LEMMA DeathKeepsOrder ==
  ASSUME IpcInv, OrderInv, AgentDies
  PROVE  OrderInv' /\ ChannelStep
<1>1. /\ worker' = "none" /\ pipe' = "absent" /\ tx' = <<>> /\ store' = 0
      /\ epoch' = epoch + 1 /\ epoch < MaxEpoch /\ seen' = seen
  BY DEF AgentDies
<1>2. /\ HeldTyped /\ Plugged(desktop) /\ InStream(Held, seen, ToCome) /\ AnswersInOrder
      /\ DOMAIN desktop = Fields
  BY DEF OrderInv, StreamInv, IpcInv, Sound
<1>3. /\ store \in 0 .. MaxVersion /\ Stamp(store) \in Channel!Snapshots
      /\ MaxVersion \in Nat /\ MaxEpoch \in Nat /\ epoch \in Nat
      /\ \A i \in 1 .. Len(tx) :
           tx[i].version \in 0 .. MaxVersion /\ Stamp(tx[i].version) \in Channel!Snapshots
  BY <1>2, StampsAre
<1>4. /\ DOMAIN Quiet = Fields /\ Quiet.signals = <<>>
      /\ Quiet.link = desktop.link /\ Quiet.socket = desktop.socket
      /\ Quiet.buffer = desktop.buffer /\ Quiet.inbox = desktop.inbox
  BY QuietIs
<1>5. <<>> \in Seq(Client!Pieces) /\ Len(<<>>) = 0
  BY EmptySeq
<1>6. \E more \in Seq(Client!Pieces) :
        /\ desktop'.buffer = desktop.buffer /\ desktop'.inbox = desktop.inbox \o more
        /\ desktop'.socket = desktop.socket /\ desktop'.link # "live"
        /\ Received(desktop') \in {Received(desktop), <<>>}
        /\ more # <<>> => Linked
        /\ Len(more) <= Len(tx)
        /\ \A i \in 1 .. Len(more) : more[i].snapshot = Stamp(tx[i].version)
  <2>1. CASE Linked
    <3>1. PICK n \in 0 .. Len(tx) :
            desktop' = [Quiet EXCEPT !.link = "dead", !.asked = 0,
                          !.inbox = @ \o SubSeq(ClientSide.inbox, Len(@) + 1, Len(@) + n)]
      BY <2>1 DEF AgentDies
    <3> DEFINE more == SubSeq(ClientSide.inbox, Len(desktop.inbox) + 1, Len(desktop.inbox) + n)
    <3>2. /\ more \in Seq(Client!Pieces) /\ Len(more) = n
          /\ \A i \in 1 .. n : more[i].snapshot = Stamp(tx[i].version)
      BY <1>2, <2>1, LeftInPipe
    <3>3. desktop' = [Quiet EXCEPT !.link = "dead", !.asked = 0, !.inbox = @ \o more]
      BY <1>4, <3>1
    <3> HIDE DEF more
    <3>4. /\ desktop'.buffer = desktop.buffer /\ desktop'.inbox = desktop.inbox \o more
          /\ desktop'.socket = desktop.socket /\ desktop'.link = "dead"
          /\ desktop'.signals = <<>>
      BY <1>4, <3>3 DEF Fields
    <3>5. Received(desktop') = <<>>
      BY <3>4, NothingEmitted
    <3>6. n <= Len(tx)
      BY <3>2
    <3> QED BY <2>1, <3>2, <3>4, <3>5, <3>6
  <2>2. CASE ~Linked
    <3>1. desktop' \in {desktop, Quiet}
      BY <2>2 DEF AgentDies
    <3>2. desktop.inbox \o <<>> = desktop.inbox
      BY <1>2, ConcatEmptySeq DEF HeldTyped
    <3>3. Received(Quiet) = <<>>
      BY <1>4, NothingEmitted
    <3>4. Len(tx) \in Nat /\ 1 .. Len(<<>>) = {}
      BY DEF IpcInv, IInv, TypeOK
    <3>5. /\ desktop'.buffer = desktop.buffer /\ desktop'.inbox = desktop.inbox
          /\ desktop'.socket = desktop.socket /\ desktop'.link = desktop.link
          /\ Received(desktop') \in {Received(desktop), <<>>}
      BY <1>4, <3>1, <3>3
    <3>6. desktop.link # "live"
      BY <2>2 DEF Linked
    <3>7. WITNESS <<>> \in Seq(Client!Pieces)
    <3> QED BY <1>5, <3>2, <3>4, <3>5, <3>6
  <2> QED BY <2>1, <2>2
<1>7. PICK more \in Seq(Client!Pieces) :
        /\ desktop'.buffer = desktop.buffer /\ desktop'.inbox = desktop.inbox \o more
        /\ desktop'.socket = desktop.socket /\ desktop'.link # "live"
        /\ Received(desktop') \in {Received(desktop), <<>>}
        /\ more # <<>> => Linked
        /\ Len(more) <= Len(tx)
        /\ \A i \in 1 .. Len(more) : more[i].snapshot = Stamp(tx[i].version)
  BY <1>6
<1>8. AnswersInOrder'
  <2>1. 1 .. Len(tx') = {}
    BY <1>1
  <2> QED BY <1>1, <2>1 DEF AnswersInOrder, WriteStates, WaitingStates
<1>9. \A t \in ToCome' : t = <<epoch + 1, 0>>
  BY <1>1, <1>7 DEF ToCome, Linked, Stamp
<1>10. \A v : Channel!NotOlder(Stamp(v), <<epoch + 1, 0>>)
  BY <1>3 DEF Channel!NotOlder, Stamp
<1>11. Newer(ToCome, ToCome')
  <2>1. Stamp(store) \in ToCome
    BY <1>3 DEF ToCome
  <2> QED BY <1>9, <1>10, <2>1 DEF Newer
<1>12. /\ desktop.buffer \in Seq(Client!Pieces) /\ desktop.inbox \in Seq(Client!Pieces)
       /\ seen \in Channel!Snapshots /\ epoch' \in 0 .. MaxEpoch
  BY <1>1, <1>2, <1>3 DEF HeldTyped
<1>13. /\ Held \in Seq(Client!Pieces) /\ desktop'.inbox \in Seq(Client!Pieces)
       /\ Held' = Held \o more
  <2>1. Held \in Seq(Client!Pieces) /\ desktop'.inbox \in Seq(Client!Pieces)
    BY <1>7, <1>12, ConcatProperties DEF Held
  <2>2. (desktop.buffer \o desktop.inbox) \o more = desktop.buffer \o (desktop.inbox \o more)
    BY <1>7, <1>12, Regrouped
  <2>3. Held' = desktop'.buffer \o desktop'.inbox
    BY DEF Held
  <2> QED BY <1>7, <2>1, <2>2, <2>3, Zenon DEF Held
<1>14. \A i \in 1 .. Len(more) : i \in 1 .. Len(tx) /\ Linked
  <2>1. Len(more) \in Nat /\ Len(tx) \in Nat
    BY <1>7 DEF IpcInv, IInv, TypeOK
  <2>2. more = <<>> => Len(more) = 0
    OBVIOUS
  <2> QED BY <1>7, <2>1, <2>2
<1>15. \A i \in 1 .. Len(more) :
         /\ more[i].snapshot \in ToCome
         /\ \A t \in ToCome' : Channel!NotOlder(more[i].snapshot, t)
  <2>1. TAKE i \in 1 .. Len(more)
  <2>2. more[i].snapshot = Stamp(tx[i].version) /\ i \in 1 .. Len(tx) /\ Linked
    BY <1>7, <1>14
  <2>3. Stamp(tx[i].version) \in Channel!Snapshots
    BY <1>3, <2>2
  <2> QED BY <1>9, <1>10, <2>2, <2>3 DEF ToCome
<1>16. \A i, j \in 1 .. Len(more) :
         i <= j => Channel!NotOlder(more[i].snapshot, more[j].snapshot)
  <2>1. TAKE i, j \in 1 .. Len(more)
  <2>2. HAVE i <= j
  <2>3. tx[i].version <= tx[j].version
    BY <1>2, <1>14, <2>2 DEF AnswersInOrder
  <2> QED BY <1>7, <2>3 DEF Channel!NotOlder, Stamp
<1>17. ToCome \in SUBSET Channel!Snapshots /\ ToCome' \in SUBSET Channel!Snapshots
  BY DEF ToCome
<1>18. InStream(Held', seen, ToCome')
  BY <1>2, <1>7, <1>11, <1>12, <1>13, <1>15, <1>16, <1>17, LongerStream
<1>19. Plugged(desktop)'
  <2>1. desktop.socket # "Connected" => more = <<>>
    BY <1>2, <1>7 DEF Plugged, Linked
  <2>2. desktop.inbox \o <<>> = desktop.inbox
    BY <1>12, ConcatEmptySeq
  <2> QED BY <1>2, <1>7, <2>1, <2>2 DEF Plugged
<1>20. OrderInv'
  BY <1>1, <1>7, <1>8, <1>12, <1>13, <1>18, <1>19 DEF OrderInv, StreamInv, HeldTyped
<1>21. Channel!Restart
  <2>1. Stamp(store)' = <<Stamp(store)[1] + 1, 0>>
    BY <1>1 DEF Stamp
  <2>2. Stamp(store)' \in Channel!Snapshots
    BY <1>1, <1>3 DEF Stamp, Channel!Snapshots
  <2>3. Received(desktop)' \in {Received(desktop), <<>>}
    BY <1>7
  <2> QED BY <1>1, <2>1, <2>2, <2>3 DEF Channel!Restart
<1> QED BY <1>20, <1>21 DEF ChannelStep, Channel!ChannelNext

\* Nothing is held, and nothing in the store.
LEMMA InitInOrder == IpcInit => OrderInv /\ Channel!ChannelInit
<1> SUFFICES ASSUME IpcInit PROVE OrderInv /\ Channel!ChannelInit
  OBVIOUS
<1>1. /\ desktop.buffer = <<>> /\ desktop.inbox = <<>> /\ desktop.signals = <<>>
      /\ desktop.link = "none" /\ epoch = 0 /\ seen = <<0, 0>>
      /\ store = 0 /\ tx = <<>> /\ worker = "none"
  BY DEF IpcInit, Init
<1>2. <<>> \in Seq(Client!Pieces) /\ <<>> \o <<>> = <<>> /\ 1 .. Len(<<>>) = {}
  BY EmptySeq, ConcatEmptySeq
<1>3. AnswersInOrder
  BY <1>1, <1>2 DEF AnswersInOrder, WriteStates, IpcInit, Init
<1>4. HeldTyped
  BY <1>1, <1>2, BoundsAssumption, DesktopAssumption DEF HeldTyped, Channel!Snapshots
<1>5. Plugged(desktop)
  BY <1>1 DEF Plugged
<1>6. \A t \in ToCome : t = <<0, 0>>
  BY <1>1 DEF ToCome, Linked, Stamp
<1>7. Channel!NotOlder(<<0, 0>>, <<0, 0>>)
  BY DEF Channel!NotOlder
<1>8. Held = <<>>
  BY <1>1, <1>2 DEF Held
<1>9. InStream(Held, seen, ToCome)
  BY <1>1, <1>2, <1>6, <1>7, <1>8 DEF InStream
<1>10. Received(desktop) = <<>> /\ Stamp(store) = <<0, 0>>
  BY <1>1, NothingEmitted DEF Stamp
<1> QED BY <1>1, <1>3, <1>4, <1>5, <1>9, <1>10 DEF OrderInv, StreamInv, Channel!ChannelInit

\* Step by step.
LEMMA StepInOrder == IpcInv /\ OrderInv /\ [IpcNext]_ipcVars => OrderInv' /\ ChannelStep
<1> SUFFICES ASSUME IpcInv, OrderInv, [IpcNext]_ipcVars PROVE OrderInv' /\ ChannelStep
  OBVIOUS
<1>1. CASE DesktopStarts \/ ReconnectTimeout
  BY <1>1, AttemptsKeepOrder
<1>2. CASE DesktopStops \/ PollTimeout \/ ConnectionLost
  BY <1>2, SilentTurns
<1>3. CASE ReadyRead
  BY <1>3, ReadDelivers
<1>4. CASE Transmit
  BY <1>4, TransmitKeepsOrder
<1>5. CASE Fetch
  BY <1>5, FetchKeepsOrder
<1>6. CASE AgentStarts \/ AgentIsStopped \/ AgentStops \/ AgentWorks \/ AgentMeasures \/ OthersCome
  BY <1>6, AgentKeepsOrder DEF AgentStarts, AgentIsStopped, AgentStops, AgentWorks,
       AgentMeasures, OthersCome, AgentSide
<1>7. CASE AgentDies
  BY <1>7, DeathKeepsOrder
<1>8. CASE UNCHANGED ipcVars
  <2>1. UNCHANGED vars /\ desktop' = desktop /\ epoch' = epoch /\ seen' = seen
    BY <1>8 DEF ipcVars
  <2>2. AnswersInOrder'
    BY <2>1, AnswersStep DEF IpcInv, OrderInv
  <2>3. tx' = tx /\ store' = store /\ worker' = worker /\ response' = response
    BY <2>1 DEF vars
  <2>4. ToCome' = ToCome /\ Held' = Held /\ HeldTyped' = HeldTyped /\ Plugged(desktop)' = Plugged(desktop)
    BY <2>1, <2>3 DEF ToCome, Held, HeldTyped, Plugged, Linked, Stamp
  <2>5. UNCHANGED Channel!channelVars
    BY <2>1, <2>3 DEF Channel!channelVars, Stamp, Received
  <2> QED BY <2>1, <2>2, <2>4, <2>5 DEF OrderInv, StreamInv, ChannelStep
<1> QED BY <1>1, <1>2, <1>3, <1>4, <1>5, <1>6, <1>7, <1>8 DEF IpcNext

\* Whatever frames, threads, timers, reconnects, other clients and restarts are
\* between them, the Desktop is shown only snapshots that were in the Agent's store,
\* never an older one after a newer one, and the snapshots of one turn in the order
\* in which the Agent took them: the two programs over the pipe implement
\* SnapshotChannel (local_ipc_server.cpp:246-312, local_agent_client.cpp:151-229).
THEOREM ChannelPromiseKept == IpcSpec => KeepsChannelPromise
<1>1. IpcInit => Channel!ChannelInit /\ OrderInv
  BY InitInOrder
<1>2. IpcInv /\ OrderInv /\ [IpcNext]_ipcVars => OrderInv'
  BY StepInOrder
<1>3. IpcInv /\ OrderInv /\ [IpcNext]_ipcVars => [Channel!ChannelNext]_(Channel!channelVars)
  BY StepInOrder DEF ChannelStep
<1> QED BY <1>1, <1>2, <1>3, CompositionInvariant, PTL
     DEF IpcSpec, KeepsChannelPromise, Channel!ChannelSpec
=============================================================================
