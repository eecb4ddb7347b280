--------------------------- MODULE LocalAgentClient ---------------------------
(***************************************************************************)
(* The Desktop's client of the Agent, desktop/src/local_agent_client.cpp.  *)
(*                                                                         *)
(* It lives in one Qt event loop.  A step is one turn of that loop: the    *)
(* slot that runs and every slot and signal it triggers synchronously      *)
(* (QLocalSocket::abort emits disconnected before it returns).  The slots  *)
(* are therefore operators on a record, composed in the code's order, and  *)
(* the actions say which event starts a turn.                              *)
(*                                                                         *)
(* QLocalSocket, the timers and the Agent at the other end are external.   *)
(* Requests that cannot be serialised or framed are left out: the request  *)
(* is a constant of two bytes.                                             *)
(***************************************************************************)
EXTENDS Naturals, Sequences, FiniteSets

CONSTANTS
  Snapshots,  \* what a well-formed response can hold
  Faults,     \* how a response frame can be bad; {} for the repository's Agent
  MaxAsked    \* bound: requests sent whose answer was not read

ASSUME SomeSnapshot == Snapshots # {}
ASSUME FaultsAssumption == Faults \subseteq {"badLength", "corrupt"}
ASSUME MaxAskedAssumption == MaxAsked \in Nat \ {0}

VARIABLES
  client,   \* the LocalAgentClient, its socket and the bytes under way to it
  agentUp   \* an Agent is listening and lets this client in

vars == <<client, agentUp>>

reconnect_delays_ms == <<500, 1000, 2000, 5000>>
LastDelay == Len(reconnect_delays_ms) - 1

\* A response frame is two pieces, its length prefix and its payload.
Piece(part, fault, snapshot) == [part |-> part, fault |-> fault, snapshot |-> snapshot]
Pieces == [part : {"header", "body"}, fault : Faults \cup {"none"}, snapshot : Snapshots]
ResponseFrame(fault, snapshot) ==
  <<Piece("header", fault, snapshot), Piece("body", fault, snapshot)>>

ConnectionStates == {"Disconnected", "Connecting", "Connected"}
ProtocolError == [signal |-> "protocol_error"]
StateChanged(state) == [signal |-> "connection_state_changed", state |-> state]
SnapshotReceived(snapshot) == [signal |-> "snapshot_received", snapshot |-> snapshot]
Signals == {ProtocolError} \cup {StateChanged(state) : state \in ConnectionStates}
             \cup {SnapshotReceived(snapshot) : snapshot \in Snapshots}

ClientRecords ==
  [running : BOOLEAN,
   state : ConnectionStates,            \* connection_state_
   socket : {"Unconnected", "Connecting", "Connected"},
   reconnect : {0} \cup {reconnect_delays_ms[i] : i \in DOMAIN reconnect_delays_ms},
                                        \* the armed timer's delay; 0: inactive
   attempt : 0 .. LastDelay,            \* reconnect_attempt_
   poll : BOOLEAN,                      \* poll_timer_ is active
   buffer : Seq(Pieces),                \* receive_buffer_
   signals : Seq(Signals),              \* emitted in the last turn
   link : {"none", "live", "dead"},     \* the Agent's end of the connection
   asked : 0 .. MaxAsked,               \* requests the Agent has not answered
   inbox : Seq(Pieces)]                 \* response bytes not yet read

TypeOK == client \in ClientRecords /\ agentUp \in BOOLEAN

Init ==
  /\ client = [running |-> FALSE, state |-> "Disconnected", socket |-> "Unconnected",
               reconnect |-> 0, attempt |-> 0, poll |-> FALSE, buffer |-> <<>>,
               signals |-> <<>>, link |-> "none", asked |-> 0, inbox |-> <<>>]
  /\ agentUp \in BOOLEAN

-----------------------------------------------------------------------------
(* The slots *)

Emit(c, signal) == [c EXCEPT !.signals = Append(@, signal)]

set_connection_state(c, state) ==
  IF c.state = state THEN c ELSE Emit([c EXCEPT !.state = state], StateChanged(state))

RearmReconnect(c) ==
  IF ~c.running THEN c
  ELSE [c EXCEPT !.reconnect = reconnect_delays_ms[c.attempt + 1],
                 !.attempt = IF @ < LastDelay THEN @ + 1 ELSE @]
schedule_reconnect(c) ==
  IF ~c.running \/ c.reconnect # 0 THEN c
  ELSE [c EXCEPT !.reconnect = reconnect_delays_ms[c.attempt + 1],
                 !.attempt = IF @ < LastDelay THEN @ + 1 ELSE @]

handle_disconnected(c) ==
  schedule_reconnect(
    set_connection_state([c EXCEPT !.poll = FALSE, !.buffer = <<>>], "Disconnected"))

\* The socket lets go of its connection and of what it had not delivered.
Unlink(c) ==
  [c EXCEPT !.socket = "Unconnected", !.link = "none", !.asked = 0, !.inbox = <<>>]

\* QLocalSocket::abort: disconnected is emitted only if it was connected.
abort(c) ==
  IF c.socket = "Connected" THEN handle_disconnected(Unlink(c)) ELSE Unlink(c)

\* accepted: write() queued the whole frame.
request_snapshot(c, accepted) ==
  CASE c.socket # "Connected" -> c
    [] c.socket = "Connected" /\ accepted -> [c EXCEPT !.asked = @ + 1]
    [] OTHER -> abort(Emit(c, ProtocolError))

ConnectedWithoutPolling(c, accepted) ==
  LET fresh == [c EXCEPT !.reconnect = 0, !.attempt = 0, !.buffer = <<>>] IN
    request_snapshot(set_connection_state(fresh, "Connected"), accepted)

handle_connected(c, accepted) ==
  LET fresh == [c EXCEPT !.reconnect = 0, !.attempt = 0, !.buffer = <<>>] IN
    request_snapshot(
      [set_connection_state(fresh, "Connected") EXCEPT !.poll = TRUE], accepted)

ErrorWithoutRetry(c) ==
  LET quiet == [c EXCEPT !.poll = FALSE] IN
    IF quiet.socket = "Unconnected" THEN set_connection_state(quiet, "Disconnected")
    ELSE quiet

handle_socket_error(c) ==
  LET quiet == [c EXCEPT !.poll = FALSE] IN
    IF quiet.socket = "Unconnected"
    THEN schedule_reconnect(set_connection_state(quiet, "Disconnected"))
    ELSE quiet

\* The end of a connection attempt.  A connection that is lost at once is
\* still announced, and the first write fails.
AttemptEnds(c, outcome) ==
  LET linked(link) == [c EXCEPT !.socket = "Connected", !.link = link] IN
    CASE outcome = "connected" -> handle_connected(linked("live"), TRUE)
      [] outcome = "lost"      -> handle_connected(linked("dead"), FALSE)
      [] outcome = "refused"   -> handle_socket_error([c EXCEPT !.socket = "Unconnected"])

\* connectToServer may finish, either way, before it returns (as it does on
\* Windows) or leave the socket connecting.
connect_to_agent(c, outcome) ==
  IF ~c.running \/ c.socket # "Unconnected" THEN c
  ELSE LET trying == set_connection_state(c, "Connecting") IN
         IF outcome = "pending" THEN [trying EXCEPT !.socket = "Connecting"]
         ELSE AttemptEnds(trying, outcome)

start(c, outcome) ==
  IF c.running THEN c
  ELSE connect_to_agent([c EXCEPT !.running = TRUE, !.attempt = 0], outcome)

stop(c) ==
  set_connection_state(
    abort([c EXCEPT !.running = FALSE, !.reconnect = 0, !.poll = FALSE,
                    !.buffer = <<>>]),
    "Disconnected")

\* The pieces try_decode_frame or the parser refuses: a bad length prefix, a
\* payload that does not parse or has another version, bytes out of step.
Refused(bytes) ==
  {i \in DOMAIN bytes :
     IF i % 2 = 1 THEN bytes[i].fault = "badLength" \/ bytes[i].part = "body"
                  ELSE bytes[i].fault = "corrupt" \/ bytes[i].part = "header"}

\* The decode loop of handle_ready_read: every complete frame before the
\* first refused piece is emitted, in order; what is left waits for more.
DecodedFrames(bytes) ==
  LET refused == Refused(bytes) IN
    IF refused = {} THEN Len(bytes) \div 2
    ELSE ((CHOOSE i \in refused : \A j \in refused : i <= j) - 1) \div 2

\* consumed_bytes of that many frames, in pieces.
PayloadOnly(frames) == frames
Consumed(frames) == 2 * frames

\* emit snapshot_received, once per frame.
NewestFirst(bytes, frames) ==
  [i \in 1 .. frames |-> SnapshotReceived(bytes[2 * (frames - i + 1)].snapshot)]
Announced(bytes, frames) == [i \in 1 .. frames |-> SnapshotReceived(bytes[2 * i].snapshot)]

ReadOneFrame(c, arrived) ==
  LET bytes == c.buffer \o arrived
      frames == IF DecodedFrames(bytes) = 0 THEN 0 ELSE 1
      read  == [c EXCEPT !.buffer = SubSeq(bytes, 2 * frames + 1, Len(bytes)),
                         !.signals = @ \o Announced(bytes, frames)]
  IN  IF Refused(bytes) = {} THEN read ELSE abort(Emit(read, ProtocolError))

handle_ready_read(c, arrived) ==
  LET bytes  == c.buffer \o arrived
      frames == DecodedFrames(bytes)
      rest   == SubSeq(bytes, Consumed(frames) + 1, Len(bytes))
      read   == [c EXCEPT !.buffer = rest, !.signals = @ \o Announced(bytes, frames)]
  IN  IF Refused(bytes) = {} THEN read ELSE abort(Emit(read, ProtocolError))

-----------------------------------------------------------------------------
(* The turns of the event loop *)

\* A turn starts with no signal emitted yet.
Turn == [client EXCEPT !.signals = <<>>]

\* A client that lets go of a live connection leaves the Agent's single pipe
\* instance without a listener until the Agent has seen it.
AgentNotices ==
  IF client.link = "live" /\ client'.link = "none"
  THEN agentUp' \in {agentUp, FALSE} ELSE UNCHANGED agentUp

\* How a connection attempt, and a write to the socket, can end just now.
Endings == IF agentUp THEN {"connected"} ELSE {"refused", "lost"}
Outcomes == {"pending"} \cup Endings
Accepted == IF client.link = "dead" THEN BOOLEAN ELSE {TRUE}

Start ==
  /\ ~client.running
  /\ \E outcome \in Outcomes : client' = start(Turn, outcome)
  /\ UNCHANGED agentUp

Stop ==
  /\ client.running
  /\ client' = stop(Turn)
  /\ AgentNotices

\* The pending attempt ends: connected, or errorOccurred.
ConnectEnds ==
  /\ client.socket = "Connecting"
  /\ \E outcome \in Endings : client' = AttemptEnds(Turn, outcome)
  /\ UNCHANGED agentUp

ReconnectTimeout ==
  /\ client.reconnect # 0
  /\ \E outcome \in Outcomes :
       client' = connect_to_agent([Turn EXCEPT !.reconnect = 0], outcome)
  /\ UNCHANGED agentUp

PollTimeout ==
  /\ client.poll
  /\ client.asked + Len(client.inbox) \div 2 < MaxAsked
  /\ \E accepted \in Accepted : client' = request_snapshot(Turn, accepted)
  /\ AgentNotices

ReadyRead ==
  /\ client.socket = "Connected"
  /\ \E n \in 1 .. Len(client.inbox) :
       client' = handle_ready_read(
                   [Turn EXCEPT !.inbox = SubSeq(@, n + 1, Len(@))],
                   SubSeq(client.inbox, 1, n))
  /\ AgentNotices

\* The socket notices that the Agent's end is gone: disconnected alone, with
\* errorOccurred after it, or with errorOccurred before it.
ConnectionLost ==
  /\ client.socket = "Connected" /\ client.link = "dead"
  /\ \/ client' = handle_disconnected(Unlink(Turn))
     \/ client' = handle_socket_error(handle_disconnected(Unlink(Turn)))
     \/ client' = handle_disconnected(Unlink(handle_socket_error(Turn)))
  /\ UNCHANGED agentUp

-----------------------------------------------------------------------------
(* The Agent *)

\* What a bad frame holds does not matter.
AnyFrames ==
  {ResponseFrame("none", snapshot) : snapshot \in Snapshots}
    \cup {ResponseFrame(fault, CHOOSE snapshot \in Snapshots : TRUE) : fault \in Faults}

Answer ==
  /\ client.link = "live" /\ client.asked > 0
  /\ \E frame \in AnyFrames :
       client' = [Turn EXCEPT !.asked = @ - 1,
                              !.inbox = @ \o frame]
  /\ UNCHANGED agentUp

\* The Agent ends, closes this connection or serves another client.  What the
\* socket has not fetched from the pipe yet can be lost, at any byte.
AgentDown ==
  /\ agentUp
  /\ agentUp' = FALSE
  /\ IF client.link = "live"
     THEN \E kept \in 0 .. Len(client.inbox) :
            client' = [Turn EXCEPT !.link = "dead", !.asked = 0,
                                   !.inbox = SubSeq(@, 1, kept)]
     ELSE client' = Turn

AgentReturns ==
  /\ ~agentUp
  /\ agentUp' = TRUE
  /\ client' = Turn

ClientTurn == ConnectEnds \/ ReconnectTimeout \/ PollTimeout \/ ReadyRead \/ ConnectionLost
Next == Start \/ Stop \/ ClientTurn \/ Answer \/ AgentDown \/ AgentReturns

Spec == Init /\ [][Next]_vars

-----------------------------------------------------------------------------
(* Properties *)

\* Between turns a running client without a connection has its timer armed,
\* and only then: no path through disconnected, errorOccurred, abort or a
\* refused attempt forgets the retry, and no timer is left to start a second
\* attempt (schedule_reconnect's callers, lines 144-149, 231-254;
\* docs/tasks/IPC-001.md:195-196: one attempt at a time).
ReconnectArmed ==
  client.reconnect # 0 <=> client.running /\ client.socket = "Unconnected"
\* What the last connection_state_changed said is what the socket does.
StateMirrorsSocket ==
  client.state = CASE client.socket = "Unconnected" -> "Disconnected"
                   [] OTHER -> client.socket
PollsWhileConnected == client.poll <=> client.socket = "Connected"
\* After stop() nothing can start the client again: no timer, no socket.
StoppedIsQuiet ==
  ~client.running => client.reconnect = 0 /\ ~client.poll /\ client.socket = "Unconnected"

\* Whatever slots ran in a turn, and inside one another, the timers, the
\* published state and the socket agree when it is over (lines 84-91, 135-149,
\* 231-263; abort runs handle_disconnected inside its callers).
TimersFollowSocket ==
  /\ TypeOK
  /\ ReconnectArmed /\ PollsWhileConnected /\ StateMirrorsSocket /\ StoppedIsQuiet

\* After any turn, less than a frame waits in receive_buffer_, and it is the
\* beginning of the frame the socket delivers next, even when the connection
\* ended inside a frame: the decode loop leaves no complete frame behind and
\* no byte of an earlier connection ahead.
FramesAligned ==
  LET stream == client.buffer \o client.inbox IN
    /\ Len(client.buffer) <= 1
    /\ client.link = "live" => Len(stream) % 2 = 0
    /\ \A i \in DOMAIN stream : stream[i].part = IF i % 2 = 1 THEN "header" ELSE "body"

Emitted(c) == {c.signals[i] : i \in DOMAIN c.signals}

\* A turn takes at most one step of the backoff, even when disconnected and
\* errorOccurred both arrive for one failure; a delay that is armed is the
\* one that follows the attempts since the last connection (lines 240-254).
BackoffStep ==
  client'.reconnect # 0 /\ StateChanged("Disconnected") \in Emitted(client') =>
    \E attempts \in {client.attempt, 0} :
      /\ client'.reconnect = reconnect_delays_ms[attempts + 1]
      /\ client'.attempt = IF attempts < LastDelay THEN attempts + 1 ELSE attempts
OneBackoffStep == [][BackoffStep]_vars

\* protocol_error is emitted only for a response frame that is bad or a
\* connection that is gone, never because of how a good stream was cut into
\* reads or because bytes of an earlier connection were kept (lines 151-191).
ErrorStep ==
  ProtocolError \in Emitted(client') =>
    \/ client.link = "dead" \/ ~agentUp
    \/ LET stream == client.buffer \o client.inbox IN
         \E i \in DOMAIN stream : stream[i].fault # "none"
ProtocolErrorHasCause == [][ErrorStep]_vars

\* Once the Agent stays up and sends good frames, a running client gets
\* connected and receives snapshot after snapshot (lines 114-149, 240-254).
GoodAgent == agentUp /\ \A i \in DOMAIN client.inbox : client.inbox[i].fault = "none"
SnapshotArrives == \E snapshot \in Snapshots : SnapshotReceived(snapshot) \in Emitted(client')
KeepsReceiving == <>[](GoodAgent /\ client.running) => []<><<SnapshotArrives>>_vars
=============================================================================
