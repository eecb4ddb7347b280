----------------------------- MODULE DesktopProofs -----------------------------
(***************************************************************************)
(* The Desktop's client and view model, for every set of snapshots, every  *)
(* kind of bad frame and every number of requests under way.               *)
(*                                                                         *)
(* The client is proved slot by slot, as the code is written: what each    *)
(* slot turns a record with known fields into, then what each turn of the  *)
(* event loop composes of them.  Between turns the client is Idle, Pending *)
(* or Joined (ClientInv).  What a turn emits is applied to the view signal *)
(* by signal; the view then fits the client (ViewInv).                     *)
(*                                                                         *)
(* A turn reads any number of frames and emits any number of signals.      *)
(* Where that takes an induction (Decodes, AnnouncedType, RunExists,       *)
(* RunsAgree) the proof looks at the least counterexample (Least).         *)
(***************************************************************************)
EXTENDS SystemMetricsViewModel, FiniteSetTheorems, SequenceTheorems, TLAPS

-----------------------------------------------------------------------------
(* The backoff table *)

Delays == {500, 1000, 2000, 5000}

\* The table has a delay for every attempt count the client can hold.
LEMMA DelayTable ==
  /\ LastDelay = 3
  /\ {0} \cup {reconnect_delays_ms[i] : i \in DOMAIN reconnect_delays_ms} = {0} \cup Delays
  /\ \A attempt \in 0 .. LastDelay :
       reconnect_delays_ms[attempt + 1] \in Delays /\ reconnect_delays_ms[attempt + 1] # 0
<1>1. DOMAIN reconnect_delays_ms = 1 .. 4 /\ Len(reconnect_delays_ms) = 4
  BY DEF reconnect_delays_ms
<1>2. /\ reconnect_delays_ms[1] = 500 /\ reconnect_delays_ms[2] = 1000
      /\ reconnect_delays_ms[3] = 2000 /\ reconnect_delays_ms[4] = 5000
  BY DEF reconnect_delays_ms
<1>3. LastDelay = 3
  BY <1>1 DEF LastDelay
<1>4. DOMAIN reconnect_delays_ms = {1, 2, 3, 4}
  BY <1>1
<1>5. {0} \cup {reconnect_delays_ms[i] : i \in DOMAIN reconnect_delays_ms} = {0} \cup Delays
  BY <1>2, <1>4 DEF Delays
<1>6. ASSUME NEW attempt \in 0 .. LastDelay
      PROVE  reconnect_delays_ms[attempt + 1] \in Delays /\ reconnect_delays_ms[attempt + 1] # 0
  BY <1>2, <1>3 DEF Delays
<1> QED BY <1>3, <1>5, <1>6

Bump(attempt) == IF attempt < LastDelay THEN attempt + 1 ELSE attempt

-----------------------------------------------------------------------------
(* The slots *)

Records ==
  [running : BOOLEAN, state : ConnectionStates,
   socket : {"Unconnected", "Connecting", "Connected"},
   reconnect : {0} \cup Delays, attempt : 0 .. 3, poll : BOOLEAN,
   buffer : Seq(Pieces), signals : Seq(Signals),
   link : {"none", "live", "dead"}, asked : 0 .. MaxAsked, inbox : Seq(Pieces)]

LEMMA RecordsAreClients == Records = ClientRecords
BY DelayTable DEF Records, ClientRecords

\* c with another published state, and what it emitted for it.
Told(c, state) ==
  IF c.state = state THEN c.signals ELSE Append(c.signals, StateChanged(state))

LEMMA SetState ==
  ASSUME NEW c \in Records, NEW state \in ConnectionStates
  PROVE  LET d == set_connection_state(c, state) IN
           /\ d \in Records
           /\ d.state = state /\ d.signals = Told(c, state)
           /\ d.running = c.running /\ d.socket = c.socket /\ d.poll = c.poll
           /\ d.reconnect = c.reconnect /\ d.attempt = c.attempt
           /\ d.buffer = c.buffer /\ d.inbox = c.inbox
           /\ d.link = c.link /\ d.asked = c.asked
<1>1. StateChanged(state) \in Signals
  BY DEF Signals
<1>2. CASE c.state = state
  BY <1>2 DEF set_connection_state, Told
<1>3. CASE c.state # state
  <2>1. set_connection_state(c, state) =
          [c EXCEPT !.state = state, !.signals = Append(c.signals, StateChanged(state))]
    BY <1>3 DEF set_connection_state, Emit, Records
  <2>2. Append(c.signals, StateChanged(state)) \in Seq(Signals)
    BY <1>1 DEF Records
  <2> QED BY <1>3, <2>1, <2>2 DEF Told, Records
<1> QED BY <1>2, <1>3

\* What schedule_reconnect leaves: the timer armed once, the backoff advanced.
Scheduled(c, d) ==
  IF c.running /\ c.reconnect = 0
  THEN d.reconnect = reconnect_delays_ms[c.attempt + 1] /\ d.attempt = Bump(c.attempt)
  ELSE d.reconnect = c.reconnect /\ d.attempt = c.attempt

LEMMA Schedule ==
  ASSUME NEW c \in Records
  PROVE  LET d == schedule_reconnect(c) IN
           /\ d \in Records
           /\ Scheduled(c, d)
           /\ d.state = c.state /\ d.signals = c.signals
           /\ d.running = c.running /\ d.socket = c.socket /\ d.poll = c.poll
           /\ d.buffer = c.buffer /\ d.inbox = c.inbox
           /\ d.link = c.link /\ d.asked = c.asked
<1>1. CASE ~c.running \/ c.reconnect # 0
  BY <1>1 DEF schedule_reconnect, Scheduled
<1>2. CASE c.running /\ c.reconnect = 0
  <2>1. schedule_reconnect(c) = [c EXCEPT !.reconnect = reconnect_delays_ms[c.attempt + 1],
                                          !.attempt = Bump(c.attempt)]
    BY <1>2 DEF schedule_reconnect, Bump, Records
  <2>2. reconnect_delays_ms[c.attempt + 1] \in {0} \cup Delays /\ Bump(c.attempt) \in 0 .. 3
    BY DelayTable DEF Bump, Records
  <2> QED BY <1>2, <2>1, <2>2 DEF Scheduled, Records
<1> QED BY <1>1, <1>2

Unlinked(c) ==
  c.socket = "Unconnected" /\ c.link = "none" /\ c.asked = 0 /\ c.inbox = <<>>
Off(c) == Unlinked(c) /\ c.state = "Disconnected" /\ c.poll = FALSE /\ c.buffer = <<>>

LEMMA HandleDisconnected ==
  ASSUME NEW c \in Records, Unlinked(c)
  PROVE  LET d == handle_disconnected(c) IN
           /\ d \in Records
           /\ Off(d) /\ d.running = c.running
           /\ Scheduled(c, d)
           /\ d.signals = Told(c, "Disconnected")
<1> DEFINE a == [c EXCEPT !.poll = FALSE, !.buffer = <<>>]
           b == set_connection_state(a, "Disconnected")
           d == schedule_reconnect(b)
<1>1. /\ a \in Records /\ Unlinked(a) /\ a.poll = FALSE /\ a.buffer = <<>>
      /\ a.running = c.running /\ a.reconnect = c.reconnect /\ a.attempt = c.attempt
      /\ a.state = c.state /\ a.signals = c.signals
  BY DEF Records, Unlinked
<1>2. handle_disconnected(c) = d
  BY DEF handle_disconnected
<1> HIDE DEF a
<1>3. "Disconnected" \in ConnectionStates
  BY DEF ConnectionStates
<1>4. /\ b \in Records /\ Unlinked(b) /\ b.poll = FALSE /\ b.buffer = <<>>
      /\ b.running = c.running /\ b.reconnect = c.reconnect /\ b.attempt = c.attempt
      /\ b.state = "Disconnected" /\ b.signals = Told(a, "Disconnected")
  BY <1>1, <1>3, SetState DEF Unlinked
<1>5. Told(a, "Disconnected") = Told(c, "Disconnected")
  BY <1>1 DEF Told
<1> HIDE DEF b
<1>6. /\ d \in Records /\ Scheduled(b, d)
      /\ d.state = b.state /\ d.signals = b.signals
      /\ d.running = b.running /\ d.socket = b.socket /\ d.poll = b.poll
      /\ d.buffer = b.buffer /\ d.inbox = b.inbox
      /\ d.link = b.link /\ d.asked = b.asked
  BY <1>4, Schedule
<1> HIDE DEF d
<1>7. Scheduled(c, d)
  BY <1>4, <1>6 DEF Scheduled
<1>8. Off(d) /\ d.running = c.running
  BY <1>4, <1>6, <1>1 DEF Off, Unlinked
<1>9. d.signals = Told(c, "Disconnected")
  BY <1>4, <1>5, <1>6
<1> QED BY <1>2, <1>6, <1>7, <1>8, <1>9

LEMMA Unlinks ==
  ASSUME NEW c \in Records
  PROVE  LET d == Unlink(c) IN
           /\ d \in Records
           /\ Unlinked(d) /\ d.running = c.running /\ d.state = c.state
           /\ d.poll = c.poll /\ d.buffer = c.buffer /\ d.signals = c.signals
           /\ d.reconnect = c.reconnect /\ d.attempt = c.attempt
<1>1. 0 \in 0 .. MaxAsked
  BY MaxAskedAssumption
<1>2. <<>> \in Seq(Pieces)
  OBVIOUS
<1> DEFINE d == Unlink(c)
<1>3. /\ Unlinked(d) /\ d.running = c.running /\ d.state = c.state
      /\ d.poll = c.poll /\ d.buffer = c.buffer /\ d.signals = c.signals
      /\ d.reconnect = c.reconnect /\ d.attempt = c.attempt
  BY DEF Unlink, Unlinked, Records
<1>4. d \in Records
  BY <1>1, <1>2 DEF Unlink, Records
<1> QED BY <1>3, <1>4

\* abort of a connected socket ends like disconnected; of another, it tells
\* nobody.
LEMMA Aborts ==
  ASSUME NEW c \in Records
  PROVE  LET d == abort(c) IN
           /\ d \in Records
           /\ d.running = c.running
           /\ c.socket = "Connected" =>
                /\ Off(d) /\ Scheduled(c, d)
                /\ d.signals = Told(c, "Disconnected")
           /\ c.socket # "Connected" =>
                /\ Unlinked(d) /\ d.state = c.state
                /\ d.poll = c.poll /\ d.buffer = c.buffer /\ d.signals = c.signals
                /\ d.reconnect = c.reconnect /\ d.attempt = c.attempt
<1> DEFINE u == Unlink(c)
<1>1. /\ u \in Records
      /\ Unlinked(u) /\ u.running = c.running /\ u.state = c.state
      /\ u.poll = c.poll /\ u.buffer = c.buffer /\ u.signals = c.signals
      /\ u.reconnect = c.reconnect /\ u.attempt = c.attempt
  BY Unlinks
<1>2. CASE c.socket # "Connected"
  <2>1. abort(c) = u
    BY <1>2 DEF abort
  <2> HIDE DEF u
  <2> QED BY <1>1, <1>2, <2>1
<1>3. CASE c.socket = "Connected"
  <2>1. abort(c) = handle_disconnected(u)
    BY <1>3 DEF abort
  <2> HIDE DEF u
  <2>2. Told(u, "Disconnected") = Told(c, "Disconnected")
    BY <1>1 DEF Told
  <2>3. Scheduled(u, abort(c)) => Scheduled(c, abort(c))
    BY <1>1 DEF Scheduled
  <2> QED BY <1>1, <1>3, <2>1, <2>2, <2>3, HandleDisconnected
<1> QED BY <1>2, <1>3

LEMMA Complains ==
  ASSUME NEW c \in Records
  PROVE  LET d == Emit(c, ProtocolError) IN
           /\ d \in Records
           /\ d.signals = Append(c.signals, ProtocolError)
           /\ d.state = c.state /\ d.running = c.running /\ d.socket = c.socket
           /\ d.poll = c.poll /\ d.reconnect = c.reconnect /\ d.attempt = c.attempt
           /\ d.buffer = c.buffer /\ d.inbox = c.inbox
           /\ d.link = c.link /\ d.asked = c.asked
<1>1. ProtocolError \in Signals
  BY DEF Signals
<1>2. Append(c.signals, ProtocolError) \in Seq(Signals)
  BY <1>1 DEF Records
<1> QED BY <1>2 DEF Emit, Records

\* A frame that cannot be read or written ends the connection, and says so.
LEMMA Breaks ==
  ASSUME NEW c \in Records, c.socket = "Connected", c.state = "Connected"
  PROVE  LET d == abort(Emit(c, ProtocolError)) IN
           /\ d \in Records
           /\ Off(d) /\ d.running = c.running /\ Scheduled(c, d)
           /\ d.signals = Append(Append(c.signals, ProtocolError),
                                 StateChanged("Disconnected"))
<1> DEFINE e == Emit(c, ProtocolError)
<1>1. /\ e \in Records
      /\ e.signals = Append(c.signals, ProtocolError)
      /\ e.state = c.state /\ e.running = c.running /\ e.socket = c.socket
      /\ e.reconnect = c.reconnect /\ e.attempt = c.attempt
  BY Complains
<1> HIDE DEF e
<1>2. Told(e, "Disconnected") =
        Append(Append(c.signals, ProtocolError), StateChanged("Disconnected"))
  BY <1>1 DEF Told
<1>3. Scheduled(e, abort(e)) => Scheduled(c, abort(e))
  BY <1>1 DEF Scheduled
<1>4. /\ abort(e) \in Records /\ abort(e).running = e.running
      /\ Off(abort(e)) /\ Scheduled(e, abort(e))
      /\ abort(e).signals = Told(e, "Disconnected")
  BY <1>1, Aborts
<1>5. /\ abort(e) \in Records
      /\ Off(abort(e)) /\ abort(e).running = c.running /\ Scheduled(c, abort(e))
      /\ abort(e).signals = Append(Append(c.signals, ProtocolError),
                                   StateChanged("Disconnected"))
  BY <1>1, <1>2, <1>3, <1>4
<1> QED BY <1>5 DEF e

LEMMA RequestCases ==
  ASSUME NEW c, NEW accepted
  PROVE  /\ c.socket # "Connected" => request_snapshot(c, accepted) = c
         /\ c.socket = "Connected" /\ accepted =>
              request_snapshot(c, accepted) = [c EXCEPT !.asked = @ + 1]
         /\ c.socket = "Connected" /\ ~accepted =>
              request_snapshot(c, accepted) = abort(Emit(c, ProtocolError))
<1>1. CASE c.socket # "Connected"
  BY <1>1, Zenon DEF request_snapshot
<1>2. CASE c.socket = "Connected" /\ accepted
  BY <1>2, Zenon DEF request_snapshot
<1>3. CASE c.socket = "Connected" /\ ~accepted
  BY <1>3, Zenon DEF request_snapshot
<1> QED BY <1>1, <1>2, <1>3

\* The connection is there, the timer polls, nothing is to be retried.
On(c) ==
  /\ c.running = TRUE /\ c.socket = "Connected" /\ c.state = "Connected"
  /\ c.poll = TRUE /\ c.reconnect = 0 /\ c.link \in {"live", "dead"}

LEMMA RequestAccepted ==
  ASSUME NEW c \in Records, c.asked < MaxAsked
  PROVE  LET d == [c EXCEPT !.asked = @ + 1] IN
           /\ d \in Records
           /\ d.asked = c.asked + 1
           /\ d.state = c.state /\ d.running = c.running /\ d.socket = c.socket
           /\ d.poll = c.poll /\ d.reconnect = c.reconnect /\ d.attempt = c.attempt
           /\ d.buffer = c.buffer /\ d.inbox = c.inbox
           /\ d.link = c.link /\ d.signals = c.signals
<1>1. c.asked + 1 \in 0 .. MaxAsked
  BY MaxAskedAssumption DEF Records
<1> QED BY <1>1 DEF Records

LEMMA HandleConnected ==
  ASSUME NEW c \in Records, c.running = TRUE, c.socket = "Connected", c.asked = 0,
         c.link \in {"live", "dead"}, NEW accepted \in BOOLEAN
  PROVE  LET d == handle_connected(c, accepted) IN
           /\ d \in Records
           /\ accepted =>
                /\ On(d) /\ d.link = c.link /\ d.inbox = c.inbox /\ d.buffer = <<>>
                /\ d.attempt = 0 /\ d.asked = 1
                /\ d.signals = Told(c, "Connected")
           /\ ~accepted =>
                /\ Off(d) /\ d.running = TRUE
                /\ d.reconnect = reconnect_delays_ms[1] /\ d.attempt = Bump(0)
                /\ d.signals = Append(Append(Told(c, "Connected"), ProtocolError),
                                      StateChanged("Disconnected"))
<1> DEFINE fresh == [c EXCEPT !.reconnect = 0, !.attempt = 0, !.buffer = <<>>]
           told == set_connection_state(fresh, "Connected")
           polled == [told EXCEPT !.poll = TRUE]
<1>1. handle_connected(c, accepted) = request_snapshot(polled, accepted)
  BY DEF handle_connected
<1>2. /\ <<>> \in Seq(Pieces) /\ "Connected" \in ConnectionStates
      /\ 0 \in 0 .. 3 /\ 0 \in {0} \cup Delays
  BY DEF ConnectionStates
<1>3. fresh \in Records
  BY <1>2 DEF Records
<1>4. /\ fresh.reconnect = 0 /\ fresh.attempt = 0 /\ fresh.buffer = <<>>
      /\ fresh.state = c.state /\ fresh.running = c.running /\ fresh.socket = c.socket
      /\ fresh.inbox = c.inbox /\ fresh.link = c.link /\ fresh.signals = c.signals
      /\ fresh.asked = c.asked
  BY DEF Records
<1> HIDE DEF fresh
<1>5. Told(fresh, "Connected") = Told(c, "Connected")
  BY <1>4 DEF Told
<1>6. /\ told \in Records
      /\ told.reconnect = 0 /\ told.attempt = 0 /\ told.buffer = <<>>
      /\ told.state = "Connected" /\ told.running = TRUE /\ told.socket = "Connected"
      /\ told.inbox = c.inbox /\ told.link = c.link /\ told.asked = 0
      /\ told.signals = Told(c, "Connected")
  BY <1>2, <1>3, <1>4, <1>5, SetState
<1> HIDE DEF told
<1>7. /\ polled \in Records /\ polled.poll = TRUE
      /\ polled.reconnect = 0 /\ polled.attempt = 0 /\ polled.buffer = <<>>
      /\ polled.state = "Connected" /\ polled.running = TRUE
      /\ polled.socket = "Connected"
      /\ polled.inbox = c.inbox /\ polled.link = c.link /\ polled.asked = 0
      /\ polled.signals = Told(c, "Connected")
  BY <1>6 DEF Records
<1> HIDE DEF polled
<1> DEFINE d == request_snapshot(polled, accepted)
<1>8. CASE accepted = TRUE
  <2> DEFINE e == [polled EXCEPT !.asked = @ + 1]
  <2>1. d = e
    BY <1>7, <1>8, RequestCases
  <2>2. polled.asked < MaxAsked
    BY <1>7, MaxAskedAssumption
  <2>3. /\ e \in Records /\ e.asked = polled.asked + 1
        /\ e.state = polled.state /\ e.running = polled.running
        /\ e.socket = polled.socket /\ e.poll = polled.poll
        /\ e.reconnect = polled.reconnect /\ e.attempt = polled.attempt
        /\ e.buffer = polled.buffer /\ e.inbox = polled.inbox
        /\ e.link = polled.link /\ e.signals = polled.signals
    BY <1>7, <2>2, RequestAccepted
  <2> HIDE DEF e, d
  <2>4. On(d)
    BY <1>7, <2>1, <2>3 DEF On
  <2>5. /\ d \in Records /\ d.link = c.link /\ d.inbox = c.inbox /\ d.buffer = <<>>
        /\ d.attempt = 0 /\ d.asked = 1 /\ d.signals = Told(c, "Connected")
    BY <1>7, <2>1, <2>3
  <2>6. handle_connected(c, accepted) = d
    BY <1>1 DEF d
  <2>7. ~(~accepted)
    BY <1>8
  <2> QED BY <2>4, <2>5, <2>6, <2>7, Zenon
<1>9. CASE accepted = FALSE
  <2> DEFINE e == abort(Emit(polled, ProtocolError))
  <2>1. d = e
    BY <1>7, <1>9, RequestCases
  <2>2. /\ e \in Records /\ Off(e) /\ e.running = polled.running /\ Scheduled(polled, e)
        /\ e.signals = Append(Append(polled.signals, ProtocolError),
                              StateChanged("Disconnected"))
    BY <1>7, Breaks
  <2> HIDE DEF e, d
  <2>3. e.reconnect = reconnect_delays_ms[1] /\ e.attempt = Bump(0)
    BY <1>7, <2>2 DEF Scheduled
  <2>4. handle_connected(c, accepted) = d
    BY <1>1 DEF d
  <2>5. /\ d \in Records /\ Off(d) /\ d.running = TRUE
        /\ d.reconnect = reconnect_delays_ms[1] /\ d.attempt = Bump(0)
        /\ d.signals = Append(Append(Told(c, "Connected"), ProtocolError),
                              StateChanged("Disconnected"))
    BY <1>7, <2>1, <2>2, <2>3
  <2>6. ~accepted
    BY <1>9
  <2> QED BY <2>4, <2>5, <2>6, Zenon
<1> QED BY <1>8, <1>9

LEMMA HandleSocketError ==
  ASSUME NEW c \in Records
  PROVE  LET d == handle_socket_error(c) IN
           /\ d \in Records
           /\ c.socket # "Unconnected" => d = [c EXCEPT !.poll = FALSE]
           /\ Unlinked(c) /\ c.buffer = <<>> =>
                /\ Off(d) /\ d.running = c.running /\ Scheduled(c, d)
                /\ d.signals = Told(c, "Disconnected")
<1> DEFINE quiet == [c EXCEPT !.poll = FALSE]
           told == set_connection_state(quiet, "Disconnected")
           d == handle_socket_error(c)
<1>1. /\ quiet \in Records /\ quiet.poll = FALSE
      /\ quiet.socket = c.socket /\ quiet.running = c.running
      /\ quiet.reconnect = c.reconnect /\ quiet.attempt = c.attempt
      /\ quiet.state = c.state /\ quiet.signals = c.signals /\ quiet.link = c.link
      /\ quiet.asked = c.asked /\ quiet.inbox = c.inbox /\ quiet.buffer = c.buffer
  BY DEF Records
<1>2. d = IF quiet.socket = "Unconnected" THEN schedule_reconnect(told) ELSE quiet
  BY DEF handle_socket_error
<1> HIDE DEF d
<1>3. CASE c.socket # "Unconnected"
  BY <1>1, <1>2, <1>3 DEF Unlinked, d
<1>4. CASE c.socket = "Unconnected"
  <2> HIDE DEF quiet
  <2>1. "Disconnected" \in ConnectionStates
    BY DEF ConnectionStates
  <2>2. Told(quiet, "Disconnected") = Told(c, "Disconnected")
    BY <1>1 DEF Told
  <2>3. /\ told \in Records /\ told.poll = FALSE
        /\ told.socket = c.socket /\ told.running = c.running
        /\ told.reconnect = c.reconnect /\ told.attempt = c.attempt
        /\ told.state = "Disconnected" /\ told.signals = Told(c, "Disconnected")
        /\ told.link = c.link /\ told.asked = c.asked /\ told.inbox = c.inbox
        /\ told.buffer = c.buffer
    BY <1>1, <2>1, <2>2, SetState
  <2> HIDE DEF told
  <2>4. d = schedule_reconnect(told)
    BY <1>1, <1>2, <1>4
  <2>5. /\ d \in Records /\ Scheduled(told, d)
        /\ d.state = told.state /\ d.signals = told.signals
        /\ d.running = told.running /\ d.socket = told.socket /\ d.poll = told.poll
        /\ d.buffer = told.buffer /\ d.inbox = told.inbox
        /\ d.link = told.link /\ d.asked = told.asked
    BY <2>3, <2>4, Schedule
  <2>6. Scheduled(c, d)
    BY <2>3, <2>5 DEF Scheduled
  <2>7. ASSUME Unlinked(c), c.buffer = <<>>
        PROVE  Off(d)
    BY <2>3, <2>5, <2>7 DEF Off, Unlinked
  <2>8. /\ d \in Records /\ d.running = c.running
        /\ d.signals = Told(c, "Disconnected")
    BY <2>3, <2>5
  <2> QED BY <1>4, <2>6, <2>7, <2>8 DEF d
<1> QED BY <1>3, <1>4

-----------------------------------------------------------------------------
(* Connection attempts *)

\* A client about to learn how its attempt ends.
Attempting(c) ==
  /\ c.running = TRUE /\ c.reconnect = 0 /\ c.poll = FALSE /\ c.buffer = <<>>
  /\ c.link = "none" /\ c.asked = 0 /\ c.inbox = <<>>

GotConnected(c, d) ==
  /\ On(d) /\ d.link = "live" /\ d.inbox = <<>> /\ d.buffer = <<>> /\ d.asked = 1
  /\ d.signals = Told(c, "Connected")
GotLost(c, d) ==
  /\ Off(d) /\ d.running = TRUE
  /\ d.reconnect = reconnect_delays_ms[1] /\ d.attempt = Bump(0)
  /\ d.signals = Append(Append(Told(c, "Connected"), ProtocolError),
                        StateChanged("Disconnected"))
GotRefused(c, d) ==
  /\ Off(d) /\ d.running = TRUE
  /\ d.reconnect = reconnect_delays_ms[c.attempt + 1] /\ d.attempt = Bump(c.attempt)
  /\ d.signals = Told(c, "Disconnected")

LEMMA AttemptCases ==
  ASSUME NEW c
  PROVE  /\ AttemptEnds(c, "connected") =
              handle_connected([c EXCEPT !.socket = "Connected", !.link = "live"], TRUE)
         /\ AttemptEnds(c, "lost") =
              handle_connected([c EXCEPT !.socket = "Connected", !.link = "dead"], FALSE)
         /\ AttemptEnds(c, "refused") =
              handle_socket_error([c EXCEPT !.socket = "Unconnected"])
BY DEF AttemptEnds

LEMMA Attempted ==
  ASSUME NEW c \in Records, Attempting(c), NEW outcome \in {"connected", "lost", "refused"}
  PROVE  LET d == AttemptEnds(c, outcome) IN
           /\ d \in Records
           /\ outcome = "connected" => GotConnected(c, d)
           /\ outcome = "lost" => GotLost(c, d)
           /\ outcome = "refused" => GotRefused(c, d)
<1> DEFINE live == [c EXCEPT !.socket = "Connected", !.link = "live"]
           dead == [c EXCEPT !.socket = "Connected", !.link = "dead"]
           refused == [c EXCEPT !.socket = "Unconnected"]
<1>1. CASE outcome = "connected"
  <2>1. /\ live \in Records /\ live.running = TRUE /\ live.socket = "Connected"
        /\ live.asked = 0 /\ live.link = "live" /\ live.inbox = <<>>
        /\ live.state = c.state /\ live.signals = c.signals
    BY DEF Records, Attempting
  <2>2. AttemptEnds(c, outcome) = handle_connected(live, TRUE)
    BY <1>1, AttemptCases
  <2>3. Told(live, "Connected") = Told(c, "Connected")
    BY <2>1 DEF Told
  <2> HIDE DEF live
  <2> DEFINE d == handle_connected(live, TRUE)
  <2>4. /\ d \in Records /\ On(d) /\ d.link = live.link /\ d.inbox = live.inbox
        /\ d.buffer = <<>> /\ d.asked = 1 /\ d.signals = Told(live, "Connected")
    BY <2>1, HandleConnected
  <2> HIDE DEF d
  <2>5. d \in Records /\ GotConnected(c, d)
    BY <2>1, <2>3, <2>4 DEF GotConnected
  <2> QED BY <1>1, <2>2, <2>5 DEF d
<1>2. CASE outcome = "lost"
  <2>1. /\ dead \in Records /\ dead.running = TRUE /\ dead.socket = "Connected"
        /\ dead.asked = 0 /\ dead.link = "dead"
        /\ dead.state = c.state /\ dead.signals = c.signals
    BY DEF Records, Attempting
  <2>2. AttemptEnds(c, outcome) = handle_connected(dead, FALSE)
    BY <1>2, AttemptCases
  <2>3. Told(dead, "Connected") = Told(c, "Connected")
    BY <2>1 DEF Told
  <2> HIDE DEF dead
  <2> DEFINE d == handle_connected(dead, FALSE)
  <2>4. /\ d \in Records /\ Off(d) /\ d.running = TRUE
        /\ d.reconnect = reconnect_delays_ms[1] /\ d.attempt = Bump(0)
        /\ d.signals = Append(Append(Told(dead, "Connected"), ProtocolError),
                              StateChanged("Disconnected"))
    BY <2>1, HandleConnected
  <2> HIDE DEF d
  <2>5. d \in Records /\ GotLost(c, d)
    BY <2>1, <2>3, <2>4 DEF GotLost
  <2> QED BY <1>2, <2>2, <2>5 DEF d
<1>3. CASE outcome = "refused"
  <2>1. /\ refused \in Records /\ Unlinked(refused) /\ refused.buffer = <<>>
        /\ refused.running = TRUE /\ refused.reconnect = 0
        /\ refused.attempt = c.attempt
        /\ refused.state = c.state /\ refused.signals = c.signals
    BY DEF Records, Attempting, Unlinked
  <2>2. AttemptEnds(c, outcome) = handle_socket_error(refused)
    BY <1>3, AttemptCases
  <2>3. Told(refused, "Disconnected") = Told(c, "Disconnected")
    BY <2>1 DEF Told
  <2> HIDE DEF refused
  <2> DEFINE d == handle_socket_error(refused)
  <2>4. /\ d \in Records /\ Off(d) /\ d.running = refused.running
        /\ Scheduled(refused, d) /\ d.signals = Told(refused, "Disconnected")
    BY <2>1, HandleSocketError
  <2> HIDE DEF d
  <2>5. d \in Records /\ GotRefused(c, d)
    BY <2>1, <2>3, <2>4 DEF GotRefused, Scheduled
  <2> QED BY <1>3, <2>2, <2>5 DEF d
<1> QED BY <1>1, <1>2, <1>3

StillConnecting(c, d) ==
  /\ d.socket = "Connecting" /\ d.state = "Connecting"
  /\ d.running = TRUE /\ d.reconnect = 0 /\ d.poll = FALSE /\ d.buffer = <<>>
  /\ d.link = "none" /\ d.asked = 0 /\ d.inbox = <<>>
  /\ d.signals = Told(c, "Connecting")

\* connect_to_agent of a client that is not connected: it says so, and then
\* the attempt may end at once.
LEMMA Connects ==
  ASSUME NEW c \in Records, Attempting(c), c.socket = "Unconnected",
         NEW outcome \in {"pending", "connected", "lost", "refused"}
  PROVE  LET d == connect_to_agent(c, outcome) IN
           /\ d \in Records
           /\ \/ outcome = "pending" /\ StillConnecting(c, d)
              \/ \E trying \in Records :
                   /\ trying.state = "Connecting"
                   /\ trying.signals = Told(c, "Connecting")
                   /\ trying.attempt = c.attempt
                   /\ \/ outcome = "connected" /\ GotConnected(trying, d)
                      \/ outcome = "lost" /\ GotLost(trying, d)
                      \/ outcome = "refused" /\ GotRefused(trying, d)
<1> DEFINE trying == set_connection_state(c, "Connecting")
<1>1. connect_to_agent(c, outcome) =
        IF outcome = "pending" THEN [trying EXCEPT !.socket = "Connecting"]
        ELSE AttemptEnds(trying, outcome)
  BY DEF connect_to_agent, Attempting
<1>2. /\ trying \in Records /\ trying.state = "Connecting"
      /\ trying.signals = Told(c, "Connecting") /\ trying.attempt = c.attempt
      /\ Attempting(trying)
  BY SetState DEF ConnectionStates, Attempting
<1> HIDE DEF trying
<1>3. CASE outcome = "pending"
  <2> DEFINE d == [trying EXCEPT !.socket = "Connecting"]
  <2>1. d \in Records /\ StillConnecting(c, d)
    BY <1>2 DEF Records, StillConnecting, Attempting
  <2> QED BY <1>1, <1>3, <2>1
<1>4. CASE outcome \in {"connected", "lost", "refused"}
  <2>1. connect_to_agent(c, outcome) = AttemptEnds(trying, outcome)
    BY <1>1, <1>4
  <2> QED BY <1>2, <1>4, <2>1, Attempted
<1> QED BY <1>3, <1>4

-----------------------------------------------------------------------------
(* What holds between turns *)

\* No connection: a running client, and no other, has its timer armed.
Idle(c) == Off(c) /\ (c.running = TRUE <=> c.reconnect # 0)
Pending(c) ==
  /\ c.socket = "Connecting" /\ c.state = "Connecting"
  /\ c.running = TRUE /\ c.reconnect = 0 /\ c.poll = FALSE /\ c.buffer = <<>>
  /\ c.link = "none" /\ c.asked = 0 /\ c.inbox = <<>>

PartAt(i) == IF i % 2 = 1 THEN "header" ELSE "body"
InStep(bytes) == \A i \in DOMAIN bytes : bytes[i].part = PartAt(i)
\* Header and payload alternate in what was received and what will be.
Aligned(c) ==
  /\ Len(c.buffer) <= 1
  /\ c.link = "live" => Len(c.buffer \o c.inbox) % 2 = 0
  /\ InStep(c.buffer \o c.inbox)
Joined(c) == On(c) /\ Aligned(c)

ClientOK(c) == c \in Records /\ (Idle(c) \/ Pending(c) \/ Joined(c))
ClientInv == ClientOK(client)

LEMMA InitClient == Init => ClientInv
<1> SUFFICES ASSUME Init PROVE ClientInv
  OBVIOUS
<1>1. <<>> \in Seq(Pieces) /\ <<>> \in Seq(Signals) /\ 0 \in 0 .. MaxAsked
  BY MaxAskedAssumption
<1>2. client \in Records
  BY <1>1 DEF Init, Records, ConnectionStates
<1>3. Idle(client)
  BY DEF Init, Idle, Off, Unlinked
<1> QED BY <1>2, <1>3 DEF ClientInv, ClientOK

LEMMA EmptyInStep == Len(<<>> \o <<>>) % 2 = 0 /\ InStep(<<>> \o <<>>)
BY DEF InStep

\* The invariant says what TimersFollowSocket and FramesAligned ask for.
LEMMA InvGivesTimers ==
  ASSUME ClientInv, agentUp \in BOOLEAN
  PROVE  TimersFollowSocket
<1>1. TypeOK
  BY RecordsAreClients DEF ClientInv, ClientOK, TypeOK
<1>2. ReconnectArmed /\ PollsWhileConnected /\ StoppedIsQuiet
  BY DEF ClientInv, ClientOK, Idle, Pending, Joined, On, Off, Unlinked,
         ReconnectArmed, PollsWhileConnected, StoppedIsQuiet, Records
<1>3. StateMirrorsSocket
  <2>1. CASE client.socket = "Unconnected"
    <3>1. client.state = "Disconnected"
      BY <2>1 DEF ClientInv, ClientOK, Idle, Pending, Joined, On, Off
    <3> QED BY <2>1, <3>1, Zenon DEF StateMirrorsSocket
  <2>2. CASE client.socket # "Unconnected"
    <3>1. client.state = client.socket
      BY <2>2 DEF ClientInv, ClientOK, Idle, Pending, Joined, On, Off, Unlinked
    <3> QED BY <2>2, <3>1, Zenon DEF StateMirrorsSocket
  <2> QED BY <2>1, <2>2
<1> QED BY <1>1, <1>2, <1>3 DEF TimersFollowSocket

LEMMA InvGivesAligned ==
  ASSUME ClientInv
  PROVE  FramesAligned
<1>1. CASE Joined(client)
  BY <1>1 DEF Joined, Aligned, InStep, PartAt, FramesAligned
<1>2. CASE Idle(client) \/ Pending(client)
  <2>1. client.buffer = <<>> /\ client.inbox = <<>>
    BY <1>2 DEF Idle, Pending, Off, Unlinked
  <2> QED BY <2>1, EmptyInStep DEF InStep, PartAt, FramesAligned
<1> QED BY <1>1, <1>2 DEF ClientInv, ClientOK

-----------------------------------------------------------------------------
(* Reading *)

\* A set of natural numbers that is not empty has a least element.
LEMMA Least ==
  ASSUME NEW T \in SUBSET Nat, T # {}
  PROVE  \E x \in T : \A y \in T : x <= y
<1> DEFINE Below(i) == 1 .. i
           Segments == {Below(i) : i \in T}
<1>1. Segments \subseteq FiniteSubsetsOf(Nat)
  <2>1. \A i \in T : IsFiniteSet(1 .. i)
    BY FS_Interval
  <2> QED BY <2>1 DEF FiniteSubsetsOf
<1>2. PICK s \in Segments : \A r \in Segments : ~(<<r, s>> \in StrictSubsetOrdering(Nat))
  <2>1. IsWellFoundedOn(StrictSubsetOrdering(Nat), FiniteSubsetsOf(Nat))
    BY FS_StrictSubsetOrderingWellFounded
  <2>2. Segments # {}
    OBVIOUS
  <2> HIDE DEF Segments
  <2> QED BY <1>1, <2>1, <2>2, WFMin
<1>3. PICK x \in T : s = Below(x)
  OBVIOUS
<1>4. ASSUME NEW y \in T, y < x PROVE FALSE
  <2>1. Below(y) \subseteq Below(x) /\ Below(y) # Below(x)
    <3>1. x \in Below(x) /\ x \notin Below(y)
      BY <1>4
    <3> QED BY <3>1, <1>4
  <2>2. Below(y) \in SUBSET Nat /\ Below(x) \in SUBSET Nat
    OBVIOUS
  <2>3. <<Below(y), Below(x)>> \in StrictSubsetOrdering(Nat)
    <3> HIDE DEF Below
    <3> QED BY <2>1, <2>2 DEF StrictSubsetOrdering
  <2> QED BY <1>2, <1>3, <2>3
<1> QED BY <1>4

\* Of bytes in step the decoder refuses none but bad ones, and the frames it
\* decodes are there.
LEMMA Decodes ==
  ASSUME NEW bytes \in Seq(Pieces), InStep(bytes)
  PROVE  /\ DecodedFrames(bytes) \in Nat
         /\ 2 * DecodedFrames(bytes) <= Len(bytes)
         /\ Refused(bytes) = {} => DecodedFrames(bytes) = Len(bytes) \div 2
         /\ Refused(bytes) # {} => \E i \in DOMAIN bytes : bytes[i].fault # "none"
<1>1. DOMAIN bytes = 1 .. Len(bytes) /\ Len(bytes) \in Nat
  OBVIOUS
<1>2. CASE Refused(bytes) = {}
  <2>1. DecodedFrames(bytes) = Len(bytes) \div 2
    BY <1>2 DEF DecodedFrames
  <2> QED BY <1>1, <1>2, <2>1
<1>3. CASE Refused(bytes) # {}
  <2> DEFINE first == CHOOSE i \in Refused(bytes) : \A j \in Refused(bytes) : i <= j
  <2>1. Refused(bytes) \in SUBSET Nat /\ Refused(bytes) \subseteq DOMAIN bytes
    BY <1>1 DEF Refused
  <2>2. \E i \in Refused(bytes) : \A j \in Refused(bytes) : i <= j
    BY <1>3, <2>1, Least
  <2>3. first \in Refused(bytes)
    BY <2>2
  <2>4. DecodedFrames(bytes) = (first - 1) \div 2
    BY <1>3 DEF DecodedFrames
  <2> HIDE DEF first
  <2>5. first \in 1 .. Len(bytes)
    BY <1>1, <2>1, <2>3
  <2>6. DecodedFrames(bytes) \in Nat /\ 2 * DecodedFrames(bytes) <= Len(bytes)
    BY <1>1, <2>4, <2>5
  <2>7. bytes[first].fault # "none"
    BY <1>1, <2>3, <2>5 DEF Refused, InStep, PartAt
  <2> QED BY <1>1, <1>3, <2>5, <2>6, <2>7
<1> QED BY <1>2, <1>3

LEMMA AnnouncedType ==
  ASSUME NEW bytes \in Seq(Pieces), NEW frames \in Nat, 2 * frames <= Len(bytes)
  PROVE  /\ Announced(bytes, frames) \in Seq(Signals)
         /\ Len(Announced(bytes, frames)) = frames
         /\ \A i \in 1 .. frames :
              /\ Announced(bytes, frames)[i] = SnapshotReceived(bytes[2 * i].snapshot)
              /\ bytes[2 * i].snapshot \in Snapshots
<1>1. ASSUME NEW i \in 1 .. frames
      PROVE  /\ bytes[2 * i].snapshot \in Snapshots
             /\ SnapshotReceived(bytes[2 * i].snapshot) \in Signals
  <2>1. 2 * i \in 1 .. Len(bytes)
    OBVIOUS
  <2>2. bytes[2 * i] \in Pieces
    BY <2>1
  <2>3. bytes[2 * i].snapshot \in Snapshots
    BY <2>2 DEF Pieces
  <2> QED BY <2>3 DEF Signals
<1>2. Announced(bytes, frames) \in [1 .. frames -> Signals]
  BY <1>1 DEF Announced
<1>3. Announced(bytes, frames) \in Seq(Signals) /\ Len(Announced(bytes, frames)) = frames
  BY <1>2
<1> QED BY <1>1, <1>3 DEF Announced

Rest(bytes) == SubSeq(bytes, 2 * (Len(bytes) \div 2) + 1, Len(bytes))

\* handle_ready_read announces the frames it decodes and keeps the rest, or
\* ends the connection.
LEMMA HandleReadyRead ==
  ASSUME NEW c \in Records, On(c), c.signals = <<>>, NEW arrived \in Seq(Pieces),
         InStep(c.buffer \o arrived)
  PROVE  LET d == handle_ready_read(c, arrived)
             bytes == c.buffer \o arrived
             announced == Announced(bytes, DecodedFrames(bytes))
         IN
           /\ d \in Records
           /\ announced \in Seq(Signals)
           /\ Refused(bytes) = {} =>
                /\ On(d) /\ d.link = c.link /\ d.asked = c.asked /\ d.inbox = c.inbox
                /\ d.buffer = Rest(bytes)
                /\ d.attempt = c.attempt /\ d.signals = announced
           /\ Refused(bytes) # {} =>
                /\ Off(d) /\ d.running = TRUE /\ Scheduled(c, d)
                /\ d.signals = Append(Append(announced, ProtocolError),
                                      StateChanged("Disconnected"))
<1> DEFINE bytes == c.buffer \o arrived
           frames == DecodedFrames(bytes)
           rest == SubSeq(bytes, 2 * frames + 1, Len(bytes))
           announced == Announced(bytes, frames)
           read == [c EXCEPT !.buffer = rest, !.signals = announced]
           d == handle_ready_read(c, arrived)
<1>1. bytes \in Seq(Pieces)
  BY DEF Records
<1>2. frames \in Nat /\ 2 * frames <= Len(bytes)
      /\ (Refused(bytes) = {} => frames = Len(bytes) \div 2)
  BY <1>1, Decodes
<1>3. announced \in Seq(Signals)
  <2> HIDE DEF bytes, frames
  <2> QED BY <1>1, <1>2, AnnouncedType
<1>4. rest \in Seq(Pieces)
  <2> HIDE DEF bytes, frames
  <2> QED BY <1>1, <1>2
<1>5. d = IF Refused(bytes) = {} THEN read ELSE abort(Emit(read, ProtocolError))
  <2>1. c.signals \o announced = announced
    <3> HIDE DEF announced
    <3> QED BY <1>3
  <2>2. d = LET r == [c EXCEPT !.buffer = rest, !.signals = c.signals \o announced] IN
              IF Refused(bytes) = {} THEN r ELSE abort(Emit(r, ProtocolError))
    BY DEF handle_ready_read, Consumed, Records
  <2> QED BY <2>1, <2>2
<1> HIDE DEF bytes, frames, rest, announced, d
<1>6. /\ read \in Records /\ read.buffer = rest /\ read.signals = announced
      /\ read.state = c.state /\ read.running = c.running /\ read.socket = c.socket
      /\ read.poll = c.poll /\ read.reconnect = c.reconnect
      /\ read.attempt = c.attempt /\ read.inbox = c.inbox
      /\ read.link = c.link /\ read.asked = c.asked
  BY <1>3, <1>4 DEF Records
<1> HIDE DEF read
<1>7. CASE Refused(bytes) = {}
  <2>1. d = read
    BY <1>5, <1>7
  <2>2. On(read)
    BY <1>6 DEF On
  <2>3. rest = Rest(bytes)
    BY <1>2, <1>7 DEF Rest, rest
  <2>4. /\ d \in Records /\ On(d) /\ d.link = c.link /\ d.asked = c.asked
        /\ d.inbox = c.inbox /\ d.buffer = Rest(bytes)
        /\ d.attempt = c.attempt /\ d.signals = announced
    BY <1>6, <2>1, <2>2, <2>3
  <2> QED BY <1>3, <1>7, <2>4 DEF bytes, frames, announced, d
<1>8. CASE Refused(bytes) # {}
  <2>1. d = abort(Emit(read, ProtocolError))
    BY <1>5, <1>8
  <2>2. read.socket = "Connected" /\ read.state = "Connected" /\ read.running = TRUE
    BY <1>6 DEF On
  <2>3. /\ d \in Records /\ Off(d) /\ d.running = read.running /\ Scheduled(read, d)
        /\ d.signals = Append(Append(announced, ProtocolError),
                              StateChanged("Disconnected"))
    BY <1>6, <2>1, <2>2, Breaks
  <2>4. Scheduled(c, d)
    BY <1>6, <2>3 DEF Scheduled
  <2>5. /\ d \in Records /\ Off(d) /\ d.running = TRUE /\ Scheduled(c, d)
        /\ d.signals = Append(Append(announced, ProtocolError),
                              StateChanged("Disconnected"))
    BY <2>2, <2>3, <2>4
  <2> QED BY <1>3, <1>8, <2>5 DEF bytes, frames, announced, d
<1> QED BY <1>7, <1>8

-----------------------------------------------------------------------------
(* What each turn can do *)

\* The connection is over after that many attempts, and said so last.
Dropped(d, attempt, signals) ==
  /\ Off(d) /\ d.running = TRUE
  /\ d.reconnect = reconnect_delays_ms[attempt + 1] /\ d.attempt = Bump(attempt)
  /\ d.signals = Append(signals, StateChanged("Disconnected"))

\* An attempt ended, after these signals.
Tried(d, attempt, signals) ==
  \/ /\ Joined(d) /\ d.asked = 1
     /\ d.signals = Append(signals, StateChanged("Connected"))
  \/ /\ ~agentUp
     /\ Dropped(d, 0, Append(Append(signals, StateChanged("Connected")), ProtocolError))
  \/ Dropped(d, attempt, signals)

LEMMA TurnKeeps ==
  ASSUME client \in Records
  PROVE  /\ Turn \in Records /\ Turn.signals = <<>>
         /\ Turn.state = client.state /\ Turn.running = client.running
         /\ Turn.socket = client.socket /\ Turn.poll = client.poll
         /\ Turn.reconnect = client.reconnect /\ Turn.attempt = client.attempt
         /\ Turn.buffer = client.buffer /\ Turn.inbox = client.inbox
         /\ Turn.link = client.link /\ Turn.asked = client.asked
<1>1. <<>> \in Seq(Signals)
  OBVIOUS
<1>2. Turn \in Records
  BY <1>1 DEF Turn, Records
<1>3. /\ Turn.signals = <<>>
      /\ Turn.state = client.state /\ Turn.running = client.running
      /\ Turn.socket = client.socket /\ Turn.poll = client.poll
      /\ Turn.reconnect = client.reconnect /\ Turn.attempt = client.attempt
      /\ Turn.buffer = client.buffer /\ Turn.inbox = client.inbox
      /\ Turn.link = client.link /\ Turn.asked = client.asked
  BY DEF Turn, Records
<1> QED BY <1>2, <1>3

LEMMA EndingsAre ==
  ASSUME agentUp \in BOOLEAN, NEW outcome \in Endings
  PROVE  outcome = "connected" \/ (outcome \in {"refused", "lost"} /\ ~agentUp)
BY DEF Endings

\* Both kinds of attempt, from the record the attempt begins with.
LEMMA TriedFrom ==
  ASSUME NEW c, NEW d, d \in Records, NEW outcome, agentUp \in BOOLEAN,
         outcome \in Endings,
         \/ outcome = "connected" /\ GotConnected(c, d)
         \/ outcome = "lost" /\ GotLost(c, d)
         \/ outcome = "refused" /\ GotRefused(c, d),
         c.state = "Connecting"
  PROVE  Tried(d, c.attempt, c.signals)
<1>1. /\ Told(c, "Connected") = Append(c.signals, StateChanged("Connected"))
      /\ Told(c, "Disconnected") = Append(c.signals, StateChanged("Disconnected"))
  BY DEF Told
<1>2. CASE outcome = "connected" /\ GotConnected(c, d)
  <2>1. Joined(d)
    BY <1>2, EmptyInStep DEF GotConnected, Joined, Aligned
  <2> QED BY <1>1, <1>2, <2>1 DEF Tried, GotConnected
<1>3. CASE outcome = "lost" /\ GotLost(c, d)
  BY <1>1, <1>3, EndingsAre DEF Tried, GotLost, Dropped
<1>4. CASE outcome = "refused" /\ GotRefused(c, d)
  BY <1>1, <1>4 DEF Tried, GotRefused, Dropped
<1> QED BY <1>2, <1>3, <1>4

\* Start and ReconnectTimeout, in the records they call connect_to_agent with.
LEMMA Begins ==
  ASSUME NEW c \in Records, Attempting(c), c.socket = "Unconnected",
         c.state = "Disconnected", c.signals = <<>>,
         agentUp \in BOOLEAN, NEW outcome \in Outcomes
  PROVE  LET d == connect_to_agent(c, outcome)
             connecting == Append(<<>>, StateChanged("Connecting"))
         IN  /\ d \in Records
             /\ \/ Pending(d) /\ d.signals = connecting
                \/ Tried(d, c.attempt, connecting)
<1> DEFINE d == connect_to_agent(c, outcome)
<1>1. outcome \in {"pending", "connected", "lost", "refused"}
  BY DEF Outcomes, Endings
<1>2. Told(c, "Connecting") = Append(<<>>, StateChanged("Connecting"))
  BY DEF Told
<1>3. /\ d \in Records
      /\ \/ outcome = "pending" /\ StillConnecting(c, d)
         \/ \E trying \in Records :
              /\ trying.state = "Connecting"
              /\ trying.signals = Told(c, "Connecting")
              /\ trying.attempt = c.attempt
              /\ \/ outcome = "connected" /\ GotConnected(trying, d)
                 \/ outcome = "lost" /\ GotLost(trying, d)
                 \/ outcome = "refused" /\ GotRefused(trying, d)
  BY <1>1, Connects
<1> HIDE DEF d
<1>4. CASE outcome = "pending" /\ StillConnecting(c, d)
  <2>1. Pending(d) /\ d.signals = Append(<<>>, StateChanged("Connecting"))
    BY <1>2, <1>4 DEF StillConnecting, Pending
  <2> QED BY <1>3, <2>1 DEF d
<1>5. ASSUME NEW trying \in Records,
             trying.state = "Connecting",
             trying.signals = Told(c, "Connecting"),
             trying.attempt = c.attempt,
             \/ outcome = "connected" /\ GotConnected(trying, d)
             \/ outcome = "lost" /\ GotLost(trying, d)
             \/ outcome = "refused" /\ GotRefused(trying, d)
      PROVE  Tried(d, c.attempt, Append(<<>>, StateChanged("Connecting")))
  <2>1. outcome \in Endings
    BY <1>5 DEF Outcomes
  <2> QED BY <1>2, <1>3, <1>5, <2>1, TriedFrom
<1> QED BY <1>3, <1>4, <1>5 DEF d

LEMMA StartTurn ==
  ASSUME ClientInv, agentUp \in BOOLEAN, Start
  PROVE  LET connecting == Append(<<>>, StateChanged("Connecting")) IN
         /\ Idle(client) /\ client' \in Records
         /\ \/ Pending(client') /\ client'.signals = connecting
            \/ Tried(client', 0, connecting)
<1> DEFINE fresh == [Turn EXCEPT !.running = TRUE, !.attempt = 0]
<1>1. Idle(client) /\ client \in Records
  BY DEF ClientInv, ClientOK, Start, Pending, Joined, On
<1>2. /\ Turn \in Records /\ Turn.signals = <<>>
      /\ Turn.state = client.state /\ Turn.running = client.running
      /\ Turn.socket = client.socket /\ Turn.poll = client.poll
      /\ Turn.reconnect = client.reconnect
      /\ Turn.buffer = client.buffer /\ Turn.inbox = client.inbox
      /\ Turn.link = client.link /\ Turn.asked = client.asked
  BY <1>1, TurnKeeps
<1>3. /\ fresh \in Records /\ fresh.signals = <<>> /\ fresh.attempt = 0
      /\ fresh.socket = "Unconnected" /\ fresh.state = "Disconnected"
      /\ Attempting(fresh)
  <2>1. ~client.running /\ client.reconnect = 0
    BY <1>1 DEF Start, Idle, Records
  <2>2. fresh \in Records
    <3>1. 0 \in 0 .. 3 /\ Turn \in Records
      BY <1>2
    <3> QED BY <3>1 DEF Records
  <2>3. /\ fresh.signals = <<>> /\ fresh.attempt = 0 /\ fresh.running = TRUE
        /\ fresh.socket = client.socket /\ fresh.state = client.state
        /\ fresh.reconnect = client.reconnect /\ fresh.poll = client.poll
        /\ fresh.buffer = client.buffer /\ fresh.inbox = client.inbox
        /\ fresh.link = client.link /\ fresh.asked = client.asked
    BY <1>2 DEF Records
  <2> HIDE DEF fresh
  <2> QED BY <1>1, <2>1, <2>2, <2>3 DEF Idle, Off, Unlinked, Attempting
<1>4. PICK outcome \in Outcomes : client' = start(Turn, outcome)
  BY DEF Start
<1>5. client' = connect_to_agent(fresh, outcome)
  BY <1>2, <1>4 DEF start, Start
<1> HIDE DEF fresh
<1> QED BY <1>1, <1>3, <1>5, Begins

LEMMA ReconnectTurn ==
  ASSUME ClientInv, agentUp \in BOOLEAN, ReconnectTimeout
  PROVE  LET connecting == Append(<<>>, StateChanged("Connecting")) IN
         /\ Idle(client) /\ client' \in Records
         /\ \/ Pending(client') /\ client'.signals = connecting
            \/ Tried(client', client.attempt, connecting)
<1> DEFINE fired == [Turn EXCEPT !.reconnect = 0]
<1>1. Idle(client) /\ client \in Records /\ client.running = TRUE
  BY DEF ClientInv, ClientOK, ReconnectTimeout, Idle, Pending, Joined, On
<1>2. /\ Turn \in Records /\ Turn.signals = <<>>
      /\ Turn.state = client.state /\ Turn.running = client.running
      /\ Turn.socket = client.socket /\ Turn.poll = client.poll
      /\ Turn.attempt = client.attempt
      /\ Turn.buffer = client.buffer /\ Turn.inbox = client.inbox
      /\ Turn.link = client.link /\ Turn.asked = client.asked
  BY <1>1, TurnKeeps
<1>3. /\ fired \in Records /\ fired.signals = <<>> /\ fired.attempt = client.attempt
      /\ fired.socket = "Unconnected" /\ fired.state = "Disconnected"
      /\ Attempting(fired)
  BY <1>1, <1>2 DEF Records, Idle, Off, Unlinked, Attempting
<1>4. PICK outcome \in Outcomes : client' = connect_to_agent(fired, outcome)
  BY DEF ReconnectTimeout
<1> HIDE DEF fired
<1> QED BY <1>1, <1>3, <1>4, Begins

LEMMA ConnectEndsTurn ==
  ASSUME ClientInv, agentUp \in BOOLEAN, ConnectEnds
  PROVE  /\ Pending(client) /\ client' \in Records
         /\ Tried(client', client.attempt, <<>>)
<1>1. Pending(client) /\ client \in Records
  BY DEF ClientInv, ClientOK, ConnectEnds, Idle, Off, Unlinked, Joined, On
<1>2. /\ Turn \in Records /\ Turn.signals = <<>> /\ Turn.state = "Connecting"
      /\ Turn.attempt = client.attempt /\ Attempting(Turn)
  BY <1>1, TurnKeeps DEF Pending, Attempting
<1>3. PICK outcome \in Endings : client' = AttemptEnds(Turn, outcome)
  BY DEF ConnectEnds
<1>4. outcome \in {"connected", "lost", "refused"}
  BY DEF Endings
<1>5. /\ client' \in Records
      /\ outcome = "connected" => GotConnected(Turn, client')
      /\ outcome = "lost" => GotLost(Turn, client')
      /\ outcome = "refused" => GotRefused(Turn, client')
  BY <1>2, <1>3, <1>4, Attempted
<1>6. Tried(client', Turn.attempt, Turn.signals)
  BY <1>2, <1>4, <1>5, TriedFrom
<1> QED BY <1>1, <1>2, <1>5, <1>6

\* Reading n pieces of an aligned stream and decoding them leaves an aligned
\* stream, with less than a frame in front.
LEMMA Cut ==
  ASSUME NEW b \in Seq(Pieces), NEW inbox \in Seq(Pieces), InStep(b \o inbox),
         NEW n \in 0 .. Len(inbox)
  PROVE  LET bytes == b \o SubSeq(inbox, 1, n)
             left == SubSeq(inbox, n + 1, Len(inbox))
         IN
           /\ bytes \in Seq(Pieces) /\ left \in Seq(Pieces) /\ InStep(bytes)
           /\ \A i \in DOMAIN bytes :
                i \in DOMAIN (b \o inbox) /\ (b \o inbox)[i] = bytes[i]
           /\ Len(bytes) = Len(b) + n
           /\ Rest(bytes) \in Seq(Pieces) /\ Len(Rest(bytes)) <= 1
           /\ Len(Rest(bytes)) = Len(bytes) - 2 * (Len(bytes) \div 2)
           /\ Len(Rest(bytes) \o left) =
                Len(b \o inbox) - 2 * (Len(bytes) \div 2)
           /\ InStep(Rest(bytes) \o left)
<1> DEFINE whole == b \o inbox
           arrived == SubSeq(inbox, 1, n)
           bytes == b \o arrived
           left == SubSeq(inbox, n + 1, Len(inbox))
           k == Len(bytes) \div 2
           rest == SubSeq(bytes, 2 * k + 1, Len(bytes))
<1>1. /\ whole \in Seq(Pieces) /\ Len(whole) = Len(b) + Len(inbox)
      /\ \A i \in 1 .. Len(whole) :
           whole[i] = IF i <= Len(b) THEN b[i] ELSE inbox[i - Len(b)]
  BY ConcatProperties
<1>2. /\ arrived \in Seq(Pieces) /\ Len(arrived) = n
      /\ \A i \in 1 .. n : arrived[i] = inbox[i]
  OBVIOUS
<1>3. /\ left \in Seq(Pieces) /\ Len(left) = Len(inbox) - n
      /\ \A i \in 1 .. Len(inbox) - n : left[i] = inbox[n + i]
  OBVIOUS
<1> HIDE DEF arrived, left
<1>4. /\ bytes \in Seq(Pieces) /\ Len(bytes) = Len(b) + n
      /\ \A i \in 1 .. Len(bytes) :
           bytes[i] = IF i <= Len(b) THEN b[i] ELSE arrived[i - Len(b)]
  <2>1. arrived \in Seq(Pieces)
    BY <1>2
  <2>2. /\ bytes \in Seq(Pieces) /\ Len(bytes) = Len(b) + Len(arrived)
        /\ \A i \in 1 .. Len(b) + Len(arrived) :
             bytes[i] = IF i <= Len(b) THEN b[i] ELSE arrived[i - Len(b)]
    BY <2>1, ConcatProperties
  <2> QED BY <1>2, <2>2
<1> HIDE DEF whole, bytes
<1>5. \A i \in 1 .. Len(bytes) : i \in 1 .. Len(whole) /\ whole[i] = bytes[i]
  <2>1. TAKE i \in 1 .. Len(bytes)
  <2>2. i \in 1 .. Len(whole)
    BY <1>1, <1>4
  <2>3. CASE i <= Len(b)
    BY <1>1, <1>4, <2>2, <2>3
  <2>4. CASE ~(i <= Len(b))
    <3>1. i - Len(b) \in 1 .. n
      BY <1>4, <2>4
    <3> QED BY <1>1, <1>2, <1>4, <2>2, <2>4, <3>1
  <2> QED BY <2>2, <2>3, <2>4
<1>6. k \in Nat /\ 2 * k <= Len(bytes) /\ Len(bytes) <= 2 * k + 1
  <2>1. Len(bytes) \in Nat
    BY <1>4
  <2> QED BY <2>1
<1> HIDE DEF k
<1>7. /\ rest \in Seq(Pieces) /\ Len(rest) = Len(bytes) - 2 * k
      /\ \A i \in 1 .. Len(rest) : rest[i] = bytes[2 * k + i]
  <2>1. 2 * k + 1 \in 1 .. Len(bytes) + 1 /\ Len(bytes) \in Nat
    BY <1>4, <1>6
  <2>2. /\ rest \in Seq(Pieces) /\ Len(rest) = Len(bytes) - (2 * k + 1) + 1
        /\ \A i \in 1 .. Len(bytes) - (2 * k + 1) + 1 : rest[i] = bytes[(2 * k + 1) + i - 1]
    <3> DEFINE m == 2 * k + 1
    <3> HIDE DEF m
    <3>1. /\ SubSeq(bytes, m, Len(bytes)) \in Seq(Pieces)
          /\ Len(SubSeq(bytes, m, Len(bytes))) = Len(bytes) - m + 1
          /\ \A i \in 1 .. Len(bytes) - m + 1 :
               SubSeq(bytes, m, Len(bytes))[i] = bytes[m + i - 1]
      <4>1. m \in 1 .. Len(bytes) + 1
        BY <2>1 DEF m
      <4>2. bytes \in Seq(Pieces) /\ Len(bytes) \in Nat
        BY <1>4
      <4>3. \A i \in m .. Len(bytes) : bytes[i] \in Pieces
        BY <4>1, <4>2
      <4> QED BY <4>1, <4>2, <4>3, SubSeqProperties
    <3> QED BY <3>1 DEF m
  <2> HIDE DEF rest
  <2>3. Len(rest) = Len(bytes) - 2 * k
    BY <2>1, <2>2, <1>6
  <2>4. ASSUME NEW i \in 1 .. Len(rest)
        PROVE  rest[i] = bytes[2 * k + i]
    <3>1. i \in 1 .. Len(bytes) - (2 * k + 1) + 1
      BY <2>1, <2>3, <1>6
    <3>2. (2 * k + 1) + i - 1 = 2 * k + i
      BY <1>6, <2>1, <3>1
    <3>3. rest[i] = bytes[(2 * k + 1) + i - 1]
      BY <2>2, <3>1
    <3> QED BY <3>2, <3>3
  <2> QED BY <2>2, <2>3, <2>4
<1> HIDE DEF rest
<1>8. /\ Len(rest \o left) = Len(rest) + Len(left) /\ rest \o left \in Seq(Pieces)
      /\ \A i \in 1 .. Len(rest \o left) :
           (rest \o left)[i] = IF i <= Len(rest) THEN rest[i] ELSE left[i - Len(rest)]
  BY SMTT(30), <1>3, <1>7, ConcatProperties
<1>9. Len(rest \o left) = Len(whole) - 2 * k
  BY <1>1, <1>3, <1>4, <1>6, <1>7, <1>8
<1>10. ASSUME NEW i \in 1 .. Len(rest \o left)
       PROVE  (rest \o left)[i] = whole[2 * k + i] /\ 2 * k + i \in 1 .. Len(whole)
  <2>1. 2 * k + i \in 1 .. Len(whole)
    BY <1>1, <1>6, <1>9
  <2>2. CASE i <= Len(rest)
    <3>1. (rest \o left)[i] = rest[i] /\ rest[i] = bytes[2 * k + i]
      BY <1>7, <1>8, <2>2
    <3>2. 2 * k + i \in 1 .. Len(bytes)
      BY <1>4, <1>6, <1>7, <1>8, <2>2
    <3> QED BY <1>5, <2>1, <3>1, <3>2
  <2>3. CASE ~(i <= Len(rest))
    <3>1. (rest \o left)[i] = left[i - Len(rest)] /\ i - Len(rest) \in 1 .. Len(inbox) - n
      BY SMTT(30), <1>3, <1>7, <1>8, <2>3
    <3>2. left[i - Len(rest)] = inbox[n + (i - Len(rest))]
      BY <1>3, <3>1
    <3>3. n + (i - Len(rest)) = 2 * k + i - Len(b)
      BY <1>4, <1>6, <1>7
    <3>4. ~(2 * k + i <= Len(b))
      BY <1>4, <1>6, <1>7, <3>1, <3>3
    <3>5. whole[2 * k + i] = inbox[2 * k + i - Len(b)]
      <4> DEFINE j == 2 * k + i
      <4>1. j \in 1 .. Len(whole) /\ ~(j <= Len(b))
        BY <2>1, <3>4
      <4> HIDE DEF j
      <4>2. whole[j] = inbox[j - Len(b)]
        BY <1>1, <4>1
      <4>3. j = 2 * k + i
        BY DEF j
      <4>4. 2 * k + i - Len(b) = j - Len(b)
        BY <1>6, <1>8, <4>3
      <4> QED BY <4>2, <4>3, <4>4, Zenon
    <3> QED BY <2>1, <3>1, <3>2, <3>3, <3>5
  <2> QED BY <2>2, <2>3
<1>11. \A i \in 1 .. Len(whole) : whole[i].part = PartAt(i)
  BY <1>1 DEF InStep, whole
<1>12. InStep(bytes)
  BY <1>4, <1>5, <1>11 DEF InStep
<1>13. ASSUME NEW i \in 1 .. Len(rest \o left)
       PROVE  (rest \o left)[i].part = PartAt(i)
  <2>1. PartAt(2 * k + i) = PartAt(i)
    BY <1>6, <1>8 DEF PartAt
  <2> QED BY <1>10, <1>11, <2>1
<1>14. InStep(rest \o left)
  BY <1>8, <1>13 DEF InStep
<1>15. Len(rest) <= 1
  BY <1>4, <1>6, <1>7
<1>16. DOMAIN bytes = 1 .. Len(bytes) /\ DOMAIN whole = 1 .. Len(whole)
  BY <1>1, <1>4
<1>17. /\ bytes \in Seq(Pieces) /\ left \in Seq(Pieces) /\ InStep(bytes)
       /\ \A i \in DOMAIN bytes : i \in DOMAIN whole /\ whole[i] = bytes[i]
       /\ Len(bytes) = Len(b) + n
       /\ rest \in Seq(Pieces) /\ Len(rest) <= 1 /\ Len(rest) = Len(bytes) - 2 * k
       /\ Len(rest \o left) = Len(whole) - 2 * k
       /\ InStep(rest \o left)
  BY <1>3, <1>4, <1>5, <1>7, <1>9, <1>12, <1>14, <1>15, <1>16
<1> QED BY <1>17 DEF whole, bytes, left, rest, k, arrived, Rest

\* A turn that announces frames: the connection stays, or a bad frame ends it.
LEMMA ReadTurn ==
  ASSUME ClientInv, ReadyRead
  PROVE  /\ Joined(client) /\ client' \in Records
         /\ \E bytes \in Seq(Pieces), frames \in Nat :
              LET announced == Announced(bytes, frames) IN
              /\ 2 * frames <= Len(bytes)
              /\ \/ /\ Joined(client') /\ client'.link = client.link
                    /\ client'.asked = client.asked
                    /\ frames = 0 => client'.buffer # <<>>
                    /\ client'.signals = announced
                 \/ /\ \E i \in DOMAIN (client.buffer \o client.inbox) :
                         (client.buffer \o client.inbox)[i].fault # "none"
                    /\ Dropped(client', client.attempt, Append(announced, ProtocolError))
<1>1. Joined(client) /\ client \in Records
  BY DEF ClientInv, ClientOK, ReadyRead, Idle, Off, Unlinked, Pending
<1>2. PICK n \in 1 .. Len(client.inbox) :
        client' = handle_ready_read([Turn EXCEPT !.inbox = SubSeq(@, n + 1, Len(@))],
                                    SubSeq(client.inbox, 1, n))
  BY DEF ReadyRead
<1> DEFINE left == SubSeq(client.inbox, n + 1, Len(client.inbox))
           arrived == SubSeq(client.inbox, 1, n)
           c == [Turn EXCEPT !.inbox = left]
           bytes == client.buffer \o arrived
           frames == DecodedFrames(bytes)
           announced == Announced(bytes, frames)
           stream == client.buffer \o client.inbox
<1>3. client.buffer \in Seq(Pieces) /\ client.inbox \in Seq(Pieces)
  BY <1>1 DEF Records
<1>4. n \in 0 .. Len(client.inbox)
  BY <1>3
<1>5. InStep(stream)
  BY <1>1 DEF Joined, Aligned
<1>6. /\ bytes \in Seq(Pieces) /\ left \in Seq(Pieces) /\ InStep(bytes)
      /\ \A i \in DOMAIN bytes : i \in DOMAIN stream /\ stream[i] = bytes[i]
      /\ Len(bytes) = Len(client.buffer) + n
      /\ Rest(bytes) \in Seq(Pieces) /\ Len(Rest(bytes)) <= 1
      /\ Len(Rest(bytes)) = Len(bytes) - 2 * (Len(bytes) \div 2)
      /\ Len(Rest(bytes) \o left) = Len(stream) - 2 * (Len(bytes) \div 2)
      /\ InStep(Rest(bytes) \o left)
  <2> HIDE DEF left, bytes, stream
  <2> QED BY <1>3, <1>4, <1>5, Cut DEF left, bytes, stream
<1>7. /\ Turn \in Records /\ Turn.signals = <<>>
      /\ Turn.state = client.state /\ Turn.running = client.running
      /\ Turn.socket = client.socket /\ Turn.poll = client.poll
      /\ Turn.reconnect = client.reconnect /\ Turn.attempt = client.attempt
      /\ Turn.buffer = client.buffer /\ Turn.inbox = client.inbox
      /\ Turn.link = client.link /\ Turn.asked = client.asked
  BY <1>1, TurnKeeps
<1>8. client' = handle_ready_read(c, arrived)
  BY <1>2, <1>7
<1>9. arrived \in Seq(Pieces)
  BY <1>3
<1> HIDE DEF left, arrived
<1>10. /\ c \in Records /\ c.signals = <<>> /\ c.inbox = left
       /\ c.state = client.state /\ c.running = client.running
       /\ c.socket = client.socket /\ c.poll = client.poll
       /\ c.reconnect = client.reconnect /\ c.attempt = client.attempt
       /\ c.buffer = client.buffer
       /\ c.link = client.link /\ c.asked = client.asked
  <2>1. left \in Seq(Pieces)
    BY <1>6
  <2> HIDE DEF bytes, stream
  <2> QED BY <1>7, <2>1 DEF Records
<1> HIDE DEF c
<1>11. On(c)
  BY <1>1, <1>10 DEF Joined, On
<1>12. c.buffer \o arrived = bytes
  BY <1>10
<1> HIDE DEF bytes, frames, announced, stream
<1>13. /\ client' \in Records
       /\ Refused(bytes) = {} =>
            /\ On(client') /\ client'.link = c.link /\ client'.asked = c.asked
            /\ client'.inbox = c.inbox /\ client'.buffer = Rest(bytes)
            /\ client'.signals = announced
       /\ Refused(bytes) # {} =>
            /\ Off(client') /\ client'.running = TRUE /\ Scheduled(c, client')
            /\ client'.signals = Append(Append(announced, ProtocolError),
                                        StateChanged("Disconnected"))
  <2>1. InStep(c.buffer \o arrived)
    BY <1>6, <1>12
  <2> DEFINE d == handle_ready_read(c, arrived)
             bs == c.buffer \o arrived
  <2>2. /\ d \in Records
        /\ Refused(bs) = {} =>
             /\ On(d) /\ d.link = c.link /\ d.asked = c.asked /\ d.inbox = c.inbox
             /\ d.buffer = Rest(bs)
             /\ d.attempt = c.attempt /\ d.signals = Announced(bs, DecodedFrames(bs))
        /\ Refused(bs) # {} =>
             /\ Off(d) /\ d.running = TRUE /\ Scheduled(c, d)
             /\ d.signals = Append(Append(Announced(bs, DecodedFrames(bs)), ProtocolError),
                                   StateChanged("Disconnected"))
    BY <1>9, <1>10, <1>11, <2>1, HandleReadyRead
  <2>3. d = client' /\ bs = bytes
    BY <1>8, <1>12
  <2> HIDE DEF d, bs
  <2> QED BY <2>2, <2>3 DEF announced, frames
<1>14. /\ frames \in Nat /\ 2 * frames <= Len(bytes)
       /\ Refused(bytes) # {} => \E i \in DOMAIN bytes : bytes[i].fault # "none"
  BY <1>6, Decodes DEF frames
<1>15. CASE Refused(bytes) = {}
  <2>1. /\ On(client') /\ client'.link = client.link /\ client'.asked = client.asked
        /\ client'.inbox = left /\ client'.buffer = Rest(bytes)
        /\ client'.signals = announced
    BY <1>10, <1>13, <1>15
  <2>2. client'.link = "live" => Len(Rest(bytes) \o left) % 2 = 0
    <3>1. Len(stream) \in Nat /\ Len(bytes) \in Nat
      <4>1. stream \in Seq(Pieces)
        BY <1>3, ConcatProperties DEF stream
      <4> QED BY <1>6, <4>1
    <3>2. client.link = "live" => Len(stream) % 2 = 0
      BY <1>1 DEF Joined, Aligned, stream
    <3> DEFINE half == Len(bytes) \div 2
               after == Len(Rest(bytes) \o left)
    <3>3. half \in Nat
      BY <3>1
    <3>4. after = Len(stream) - 2 * half
      BY <1>6
    <3> HIDE DEF half, after
    <3>5. Len(stream) % 2 = 0 => after % 2 = 0
      BY <3>1, <3>3, <3>4
    <3> QED BY <2>1, <3>2, <3>5 DEF after
  <2>3. Joined(client')
    BY <1>6, <2>1, <2>2 DEF Joined, Aligned
  <2>4. frames = 0 => client'.buffer # <<>>
    <3>1. ASSUME frames = 0 PROVE client'.buffer # <<>>
      <4>1. Len(bytes) \div 2 = 0
        BY <1>6, <1>14, <1>15, <3>1, Decodes DEF frames
      <4>2. Len(bytes) \in Nat /\ Len(bytes) # 0
        BY <1>3, <1>6
      <4>3. Len(Rest(bytes)) = Len(bytes) - 2 * (Len(bytes) \div 2)
        BY <1>6
      <4>4. Len(Rest(bytes)) # 0
        BY <4>1, <4>2, <4>3
      <4> QED BY <2>1, <4>4
    <3> QED BY <3>1
  <2> QED BY <1>1, <1>6, <1>13, <1>14, <2>1, <2>3, <2>4 DEF announced
<1>16. CASE Refused(bytes) # {}
  <2>1. c.running = TRUE /\ c.reconnect = 0
    BY <1>11 DEF On
  <2>2. Dropped(client', client.attempt, Append(announced, ProtocolError))
    BY <1>10, <1>13, <1>16, <2>1 DEF Dropped, Scheduled
  <2>3. \E i \in DOMAIN stream : stream[i].fault # "none"
    BY <1>6, <1>14, <1>16
  <2> QED BY <1>1, <1>6, <1>13, <1>14, <2>2, <2>3 DEF announced, stream
<1> QED BY <1>15, <1>16

\* A request that the socket takes, or that ends a connection already lost.
LEMMA RequestTurn ==
  ASSUME ClientInv, client.socket = "Connected",
         client.asked + Len(client.inbox) \div 2 < MaxAsked,
         NEW accepted \in Accepted, client' = request_snapshot(Turn, accepted)
  PROVE  /\ Joined(client) /\ client' \in Records
         /\ \/ /\ Joined(client') /\ client'.asked = client.asked + 1
               /\ client'.signals = <<>>
            \/ /\ client.link = "dead"
               /\ Dropped(client', client.attempt, Append(<<>>, ProtocolError))
<1>1. Joined(client) /\ client \in Records
  BY DEF ClientInv, ClientOK, Idle, Off, Unlinked, Pending
<1>2. /\ Turn \in Records /\ Turn.signals = <<>>
      /\ Turn.state = client.state /\ Turn.running = client.running
      /\ Turn.socket = client.socket /\ Turn.poll = client.poll
      /\ Turn.reconnect = client.reconnect /\ Turn.attempt = client.attempt
      /\ Turn.buffer = client.buffer /\ Turn.inbox = client.inbox
      /\ Turn.link = client.link /\ Turn.asked = client.asked
  BY <1>1, TurnKeeps
<1>3. accepted \in BOOLEAN /\ (accepted = FALSE => client.link = "dead")
  BY DEF Accepted
<1>4. client.asked < MaxAsked
  <2>1. client.asked \in Nat /\ Len(client.inbox) \in Nat /\ MaxAsked \in Nat
    BY <1>1, MaxAskedAssumption DEF Records
  <2>2. \A m \in Nat : m \div 2 \in Nat
    OBVIOUS
  <2> DEFINE unread == Len(client.inbox) \div 2
  <2>3. unread \in Nat
    BY <2>1, <2>2
  <2>4. client.asked + unread < MaxAsked
    OBVIOUS
  <2> HIDE DEF unread
  <2> QED BY <2>1, <2>3, <2>4
<1>5. CASE accepted = TRUE
  <2> DEFINE d == [Turn EXCEPT !.asked = @ + 1]
  <2>1. client' = d
    BY ZenonT(30), <1>2, <1>5, RequestCases
  <2>2. /\ d \in Records
        /\ d.asked = Turn.asked + 1
        /\ d.state = Turn.state /\ d.running = Turn.running /\ d.socket = Turn.socket
        /\ d.poll = Turn.poll /\ d.reconnect = Turn.reconnect /\ d.attempt = Turn.attempt
        /\ d.buffer = Turn.buffer /\ d.inbox = Turn.inbox
        /\ d.link = Turn.link /\ d.signals = Turn.signals
    BY <1>2, <1>4, RequestAccepted
  <2> HIDE DEF d
  <2>3. On(d) /\ Aligned(d)
    BY <1>1, <1>2, <2>2 DEF Joined, On, Aligned
  <2> QED BY <1>1, <1>2, <2>1, <2>2, <2>3 DEF Joined
<1>6. CASE accepted = FALSE
  <2> DEFINE d == abort(Emit(Turn, ProtocolError))
  <2>1. client' = d
    BY <1>2, <1>6, RequestCases
  <2>2. Turn.socket = "Connected" /\ Turn.state = "Connected" /\ Turn.running = TRUE
        /\ Turn.reconnect = 0
    BY <1>1, <1>2 DEF Joined, On
  <2>3. /\ d \in Records /\ Off(d) /\ d.running = Turn.running /\ Scheduled(Turn, d)
        /\ d.signals = Append(Append(Turn.signals, ProtocolError),
                              StateChanged("Disconnected"))
    BY <1>2, <2>2, Breaks
  <2> HIDE DEF d
  <2>4. Dropped(d, client.attempt, Append(<<>>, ProtocolError))
    BY <1>2, <2>2, <2>3 DEF Dropped, Scheduled
  <2> QED BY <1>1, <1>3, <1>6, <2>1, <2>3, <2>4
<1> QED BY <1>3, <1>5, <1>6

\* Whichever of disconnected and errorOccurred arrive, and in which order, the
\* retry is scheduled once.
LEMMA LostTurn ==
  ASSUME ClientInv, ConnectionLost
  PROVE  /\ Joined(client) /\ client' \in Records
         /\ Dropped(client', client.attempt, <<>>)
<1>1. Joined(client) /\ client \in Records
  BY DEF ClientInv, ClientOK, ConnectionLost, Idle, Off, Unlinked, Pending
<1> DEFINE u == Unlink(Turn)
           gone == handle_disconnected(u)
           quiet == [Turn EXCEPT !.poll = FALSE]
           v == Unlink(quiet)
<1>2. /\ Turn \in Records /\ Turn.signals = <<>> /\ Turn.state = "Connected"
      /\ Turn.running = TRUE /\ Turn.socket = "Connected"
      /\ Turn.reconnect = 0 /\ Turn.attempt = client.attempt
  BY <1>1, TurnKeeps DEF Joined, On
<1>3. ASSUME NEW w, w \in Records, Unlinked(w), w.running = TRUE, w.state = "Connected",
             w.signals = <<>>, w.reconnect = 0, w.attempt = client.attempt
      PROVE  /\ handle_disconnected(w) \in Records
             /\ Dropped(handle_disconnected(w), client.attempt, <<>>)
  <2> DEFINE d == handle_disconnected(w)
  <2>1. /\ d \in Records /\ Off(d) /\ d.running = w.running /\ Scheduled(w, d)
        /\ d.signals = Told(w, "Disconnected")
    BY <1>3, HandleDisconnected
  <2> HIDE DEF d
  <2>2. Told(w, "Disconnected") = Append(<<>>, StateChanged("Disconnected"))
    BY <1>3 DEF Told
  <2>3. d \in Records /\ Dropped(d, client.attempt, <<>>)
    BY <1>3, <2>1, <2>2 DEF Dropped, Scheduled
  <2> QED BY <2>3 DEF d
<1>4. /\ u \in Records /\ Unlinked(u) /\ u.running = TRUE /\ u.state = "Connected"
      /\ u.signals = <<>> /\ u.reconnect = 0 /\ u.attempt = client.attempt
  BY <1>2, Unlinks
<1> HIDE DEF u
<1>5. gone \in Records /\ Dropped(gone, client.attempt, <<>>)
  BY <1>3, <1>4
<1> HIDE DEF gone
<1>6. CASE client' = gone
  BY <1>1, <1>5, <1>6
<1>7. CASE client' = handle_socket_error(gone)
  <2> DEFINE d == handle_socket_error(gone)
  <2>1. Unlinked(gone) /\ gone.buffer = <<>> /\ gone.state = "Disconnected"
    BY <1>5 DEF Dropped, Off
  <2>2. /\ d \in Records /\ Off(d) /\ d.running = gone.running
        /\ Scheduled(gone, d) /\ d.signals = Told(gone, "Disconnected")
    BY <1>5, <2>1, HandleSocketError
  <2> HIDE DEF d
  <2>3. gone.reconnect # 0
    BY <1>1, <1>5, DelayTable DEF Dropped, Records
  <2>4. Dropped(d, client.attempt, <<>>)
    BY <1>5, <2>1, <2>2, <2>3 DEF Dropped, Scheduled, Told
  <2> QED BY <1>1, <1>7, <2>2, <2>4 DEF d
<1>8. CASE client' = handle_disconnected(Unlink(handle_socket_error(Turn)))
  <2>1. handle_socket_error(Turn) = quiet
    BY <1>2, HandleSocketError
  <2>2. /\ quiet \in Records /\ quiet.signals = <<>> /\ quiet.state = "Connected"
        /\ quiet.running = TRUE /\ quiet.reconnect = 0 /\ quiet.attempt = client.attempt
    BY <1>2 DEF Records
  <2> HIDE DEF quiet
  <2>3. /\ v \in Records /\ Unlinked(v) /\ v.running = TRUE /\ v.state = "Connected"
        /\ v.signals = <<>> /\ v.reconnect = 0 /\ v.attempt = client.attempt
    BY <2>2, Unlinks
  <2> HIDE DEF v
  <2>4. client' = handle_disconnected(v)
    BY <1>8, <2>1 DEF v
  <2> QED BY <1>1, <1>3, <2>3, <2>4
<1> QED BY <1>6, <1>7, <1>8 DEF ConnectionLost, gone, u

LEMMA StopTurn ==
  ASSUME ClientInv, Stop
  PROVE  /\ client' \in Records /\ Idle(client')
         /\ client'.running = FALSE /\ client'.reconnect = 0
         /\ client'.signals \in {<<>>, Append(<<>>, StateChanged("Disconnected"))}
<1> DEFINE quiet == [Turn EXCEPT !.running = FALSE, !.reconnect = 0, !.poll = FALSE,
                                 !.buffer = <<>>]
           gone == abort(quiet)
           d == set_connection_state(gone, "Disconnected")
<1>1. client \in Records
  BY DEF ClientInv, ClientOK
<1>2. /\ Turn \in Records /\ Turn.signals = <<>>
      /\ Turn.state = client.state /\ Turn.socket = client.socket
  BY <1>1, TurnKeeps
<1>3. <<>> \in Seq(Pieces) /\ "Disconnected" \in ConnectionStates
  BY DEF ConnectionStates
<1>4. /\ quiet \in Records /\ quiet.running = FALSE /\ quiet.reconnect = 0
      /\ quiet.poll = FALSE /\ quiet.buffer = <<>> /\ quiet.signals = <<>>
      /\ quiet.state = client.state /\ quiet.socket = client.socket
  <2>1. quiet \in Records
    <3>1. 0 \in {0} \cup Delays /\ FALSE \in BOOLEAN
      OBVIOUS
    <3> QED BY <1>2, <1>3, <3>1 DEF Records
  <2> QED BY <1>2, <2>1 DEF Records
<1>5. client' = d
  BY DEF Stop, stop
<1> HIDE DEF quiet
<1> DEFINE told == Append(<<>>, StateChanged("Disconnected"))
<1>6. /\ gone \in Records /\ gone.running = FALSE /\ gone.reconnect = 0
      /\ Unlinked(gone) /\ gone.poll = FALSE /\ gone.buffer = <<>>
      /\ \/ gone.signals = <<>>
         \/ gone.signals = told /\ gone.state = "Disconnected"
  <2>1. CASE quiet.socket = "Connected"
    <3>1. /\ gone \in Records /\ gone.running = quiet.running
          /\ Off(gone) /\ Scheduled(quiet, gone)
          /\ gone.signals = Told(quiet, "Disconnected")
      BY <1>4, <2>1, Aborts
    <3> HIDE DEF gone
    <3>2. Told(quiet, "Disconnected") \in {<<>>, told}
      BY <1>4 DEF Told
    <3> QED BY <1>4, <3>1, <3>2 DEF Off, Scheduled
  <2>2. CASE quiet.socket # "Connected"
    <3>1. /\ gone \in Records /\ gone.running = quiet.running /\ Unlinked(gone)
          /\ gone.poll = quiet.poll /\ gone.buffer = quiet.buffer
          /\ gone.signals = quiet.signals /\ gone.reconnect = quiet.reconnect
      BY <1>4, <2>2, Aborts
    <3> HIDE DEF gone
    <3> QED BY <1>4, <3>1
  <2> QED BY <2>1, <2>2
<1> HIDE DEF gone
<1>7. /\ d \in Records /\ d.state = "Disconnected" /\ d.signals = Told(gone, "Disconnected")
      /\ d.running = gone.running /\ d.socket = gone.socket /\ d.poll = gone.poll
      /\ d.reconnect = gone.reconnect /\ d.buffer = gone.buffer
      /\ d.inbox = gone.inbox /\ d.link = gone.link /\ d.asked = gone.asked
  BY <1>3, <1>6, SetState
<1> HIDE DEF d
<1>8. Told(gone, "Disconnected") \in {<<>>, told}
  BY <1>6 DEF Told
<1>9. Idle(d)
  BY <1>6, <1>7 DEF Idle, Off, Unlinked
<1> QED BY <1>5, <1>6, <1>7, <1>8, <1>9

LEMMA FrameType ==
  ASSUME NEW frame \in AnyFrames
  PROVE  frame \in Seq(Pieces) /\ Len(frame) = 2 /\ InStep(frame)
<1>1. PICK fault \in Faults \cup {"none"}, snapshot \in Snapshots :
        frame = ResponseFrame(fault, snapshot)
  <2>1. (CHOOSE snapshot \in Snapshots : TRUE) \in Snapshots
    BY SomeSnapshot
  <2> QED BY <2>1 DEF AnyFrames
<1>2. \A part \in {"header", "body"} : Piece(part, fault, snapshot) \in Pieces
  BY <1>1 DEF Piece, Pieces
<1>3. frame = <<Piece("header", fault, snapshot), Piece("body", fault, snapshot)>>
  BY <1>1 DEF ResponseFrame
<1>4. frame \in Seq(Pieces) /\ Len(frame) = 2 /\ DOMAIN frame = 1 .. 2
  BY <1>2, <1>3
<1>5. frame[1].part = "header" /\ frame[2].part = "body"
  BY <1>3 DEF Piece
<1> QED BY <1>4, <1>5 DEF InStep, PartAt

\* What the Agent's turns leave: nothing emitted, the socket as it was.
Unmoved(d) ==
  /\ d.signals = <<>> /\ d.socket = client.socket /\ d.state = client.state
  /\ d.running = client.running /\ d.reconnect = client.reconnect

LEMMA AnswerTurn ==
  ASSUME ClientInv, Answer
  PROVE  /\ Joined(client) /\ client' \in Records /\ Joined(client')
         /\ Unmoved(client') /\ client'.inbox # <<>> /\ client'.link = "live"
<1>1. Joined(client) /\ client \in Records
  BY DEF ClientInv, ClientOK, Answer, Idle, Off, Unlinked, Pending
<1>2. PICK frame \in AnyFrames :
        client' = [Turn EXCEPT !.asked = @ - 1, !.inbox = @ \o frame]
  BY DEF Answer
<1> DEFINE inbox == client.inbox
           grown == inbox \o frame
           b == client.buffer
           whole == b \o inbox
           longer == b \o grown
<1>3. frame \in Seq(Pieces) /\ Len(frame) = 2 /\ InStep(frame)
  BY FrameType
<1>4. inbox \in Seq(Pieces) /\ b \in Seq(Pieces)
  BY <1>1 DEF Records
<1> HIDE DEF b, inbox
<1>5. /\ whole \in Seq(Pieces) /\ Len(whole) = Len(b) + Len(inbox)
      /\ \A i \in 1 .. Len(b) + Len(inbox) :
           whole[i] = IF i <= Len(b) THEN b[i] ELSE inbox[i - Len(b)]
  BY <1>4, ConcatProperties
<1>6. /\ grown \in Seq(Pieces) /\ Len(grown) = Len(inbox) + 2
      /\ \A i \in 1 .. Len(inbox) + 2 :
           grown[i] = IF i <= Len(inbox) THEN inbox[i] ELSE frame[i - Len(inbox)]
  <2>1. frame \in Seq(Pieces)
    BY <1>3
  <2>2. /\ grown \in Seq(Pieces) /\ Len(grown) = Len(inbox) + Len(frame)
        /\ \A i \in 1 .. Len(inbox) + Len(frame) :
             grown[i] = IF i <= Len(inbox) THEN inbox[i] ELSE frame[i - Len(inbox)]
    BY <1>4, <2>1, ConcatProperties
  <2> HIDE DEF grown
  <2> QED BY <1>3, <2>2
<1> HIDE DEF grown
<1>7. /\ longer \in Seq(Pieces) /\ Len(longer) = Len(b) + Len(grown)
      /\ \A i \in 1 .. Len(b) + Len(grown) :
           longer[i] = IF i <= Len(b) THEN b[i] ELSE grown[i - Len(b)]
  <2>1. grown \in Seq(Pieces)
    BY <1>6
  <2> QED BY <1>4, <2>1, ConcatProperties
<1>8. Len(b) \in Nat /\ Len(inbox) \in Nat /\ Len(longer) = Len(whole) + 2
  BY <1>4, <1>5, <1>6, <1>7
<1>9. InStep(whole) /\ Len(whole) % 2 = 0 /\ client.link = "live" /\ Len(b) <= 1
  BY <1>1 DEF Joined, Aligned, Answer, b, inbox
<1> HIDE DEF whole, longer
<1>10. ASSUME NEW i \in 1 .. Len(longer)
       PROVE  longer[i].part = PartAt(i)
  <2>1. \A k \in 1 .. Len(whole) : whole[k].part = PartAt(k)
    BY <1>5, <1>9 DEF InStep
  <2>2. CASE i <= Len(b)
    <3>1. longer[i] = whole[i] /\ i \in 1 .. Len(whole)
      BY <1>5, <1>7, <1>8, <2>2
    <3> QED BY <2>1, <3>1
  <2>3. CASE ~(i <= Len(b)) /\ i <= Len(whole)
    <3>1. longer[i] = grown[i - Len(b)] /\ whole[i] = inbox[i - Len(b)]
      BY <1>5, <1>7, <1>8, <2>3
    <3>2. i - Len(b) \in 1 .. Len(inbox)
      BY <1>5, <1>8, <2>3
    <3>3. grown[i - Len(b)] = inbox[i - Len(b)]
      BY <1>6, <1>8, <3>2
    <3> QED BY <2>1, <2>3, <1>8, <3>1, <3>3
  <2>4. CASE i > Len(whole)
    <3> DEFINE j == i - Len(b)
               k == j - Len(inbox)
    <3>1. j \in 1 .. Len(inbox) + 2 /\ ~(j <= Len(inbox)) /\ k \in 1 .. 2
          /\ ~(i <= Len(b)) /\ i = Len(whole) + k
      BY <1>5, <1>6, <1>7, <1>8, <2>4
    <3>2. longer[i] = grown[j]
      BY <1>7, <1>8, <3>1
    <3> HIDE DEF j
    <3>3. grown[j] = frame[k]
      BY <1>6, <3>1
    <3> HIDE DEF k
    <3>4. frame[k].part = PartAt(k)
      BY <1>3, <3>1 DEF InStep
    <3>5. PartAt(i) = PartAt(k)
      BY <1>5, <1>8, <1>9, <3>1 DEF PartAt
    <3> QED BY <3>2, <3>3, <3>4, <3>5
  <2> QED BY <1>5, <1>8, <2>2, <2>3, <2>4
<1>11. InStep(longer)
  BY <1>7, <1>10 DEF InStep
<1>12. Len(longer) % 2 = 0
  BY <1>5, <1>8, <1>9
<1>13. /\ Turn \in Records /\ Turn.signals = <<>>
       /\ Turn.state = client.state /\ Turn.running = client.running
       /\ Turn.socket = client.socket /\ Turn.poll = client.poll
       /\ Turn.reconnect = client.reconnect /\ Turn.attempt = client.attempt
       /\ Turn.buffer = client.buffer /\ Turn.inbox = client.inbox
       /\ Turn.link = client.link /\ Turn.asked = client.asked
  BY <1>1, TurnKeeps
<1>14. client.asked - 1 \in 0 .. MaxAsked
  BY <1>1, MaxAskedAssumption DEF Records, Answer
<1>15. client' = [Turn EXCEPT !.asked = client.asked - 1, !.inbox = grown]
  BY <1>2, <1>13 DEF grown, inbox
<1>16. /\ client' \in Records /\ client'.signals = <<>> /\ client'.inbox = grown
       /\ client'.state = client.state /\ client'.running = client.running
       /\ client'.socket = client.socket /\ client'.poll = client.poll
       /\ client'.reconnect = client.reconnect
       /\ client'.buffer = b /\ client'.link = client.link
  <2>1. client' \in Records
    BY <1>6, <1>13, <1>14, <1>15 DEF Records
  <2> QED BY <1>13, <1>15, <2>1 DEF Records, b
<1>17. Joined(client')
  BY <1>1, <1>9, <1>11, <1>12, <1>16 DEF Joined, On, Aligned, longer
<1>18. grown # <<>>
  BY <1>6, <1>8
<1> QED BY <1>1, <1>9, <1>16, <1>17, <1>18 DEF Unmoved

\* A turn of the loop in which nothing of the client changes.
LEMMA EmptyTurn ==
  ASSUME ClientInv, client' = Turn
  PROVE  /\ ClientOK(client') /\ Unmoved(client')
         /\ client'.link = client.link /\ client'.asked = client.asked
         /\ client'.inbox = client.inbox
<1>1. client \in Records
  BY DEF ClientInv, ClientOK
<1>2. /\ client' \in Records /\ client'.signals = <<>>
      /\ client'.state = client.state /\ client'.running = client.running
      /\ client'.socket = client.socket /\ client'.poll = client.poll
      /\ client'.reconnect = client.reconnect /\ client'.attempt = client.attempt
      /\ client'.buffer = client.buffer /\ client'.inbox = client.inbox
      /\ client'.link = client.link /\ client'.asked = client.asked
  BY <1>1, TurnKeeps
<1>3. ClientOK(client')
  BY <1>2 DEF ClientInv, ClientOK, Idle, Off, Unlinked, Pending, Joined, On, Aligned
<1> QED BY <1>2, <1>3 DEF Unmoved

\* The Agent's end goes away, and with it bytes that were not fetched.
LEMMA AgentDownTurn ==
  ASSUME ClientInv, AgentDown
  PROVE  /\ ClientOK(client') /\ Unmoved(client')
         /\ \/ /\ client'.link = client.link /\ client'.asked = client.asked
               /\ client'.inbox = client.inbox
            \/ client'.link = "dead"
<1>1. CASE client.link # "live"
  BY <1>1, EmptyTurn DEF AgentDown
<1>2. CASE client.link = "live"
  <2>1. Joined(client) /\ client \in Records
    BY <1>2 DEF ClientInv, ClientOK, Idle, Off, Unlinked, Pending
  <2>2. PICK kept \in 0 .. Len(client.inbox) :
          client' = [Turn EXCEPT !.link = "dead", !.asked = 0, !.inbox = SubSeq(@, 1, kept)]
    BY <1>2 DEF AgentDown
  <2> DEFINE inbox == client.inbox
             left == SubSeq(inbox, 1, kept)
  <2>3. inbox \in Seq(Pieces) /\ client.buffer \in Seq(Pieces)
    BY <2>1 DEF Records
  <2>4. left \in Seq(Pieces)
    BY <2>3
  <2>5. InStep(client.buffer \o left)
    BY <2>1, <2>3, Cut DEF Joined, Aligned
  <2>6. /\ Turn \in Records /\ Turn.signals = <<>>
        /\ Turn.state = client.state /\ Turn.running = client.running
        /\ Turn.socket = client.socket /\ Turn.poll = client.poll
        /\ Turn.reconnect = client.reconnect
        /\ Turn.buffer = client.buffer /\ Turn.inbox = client.inbox
    BY <2>1, TurnKeeps
  <2>7. client' = [Turn EXCEPT !.link = "dead", !.asked = 0, !.inbox = left]
    BY <2>2, <2>6
  <2> HIDE DEF left
  <2>8. /\ client' \in Records /\ client'.signals = <<>> /\ client'.link = "dead"
        /\ client'.state = client.state /\ client'.running = client.running
        /\ client'.socket = client.socket /\ client'.poll = client.poll
        /\ client'.reconnect = client.reconnect
        /\ client'.buffer = client.buffer /\ client'.inbox = left
    <3>1. 0 \in 0 .. MaxAsked
      BY MaxAskedAssumption
    <3>2. client' \in Records
      BY <2>4, <2>6, <2>7, <3>1 DEF Records
    <3> QED BY <2>6, <2>7, <3>2 DEF Records
  <2>9. Joined(client')
    BY <2>1, <2>5, <2>8 DEF Joined, On, Aligned
  <2> QED BY <2>8, <2>9 DEF ClientOK, Unmoved
<1> QED BY <1>1, <1>2

-----------------------------------------------------------------------------
(* What a turn emits *)

ElementsOf(signals) == {signals[i] : i \in DOMAIN signals}

LEMMA AppendElements ==
  ASSUME NEW signals \in Seq(Signals), NEW signal \in Signals
  PROVE  /\ ElementsOf(Append(signals, signal)) = ElementsOf(signals) \cup {signal}
         /\ Append(signals, signal) \in Seq(Signals)
<1> DEFINE longer == Append(signals, signal)
<1>1. /\ longer \in Seq(Signals) /\ Len(longer) = Len(signals) + 1
      /\ longer[Len(signals) + 1] = signal
      /\ \A i \in 1 .. Len(signals) : longer[i] = signals[i]
      /\ DOMAIN signals = 1 .. Len(signals) /\ Len(signals) \in Nat
  OBVIOUS
<1>2. DOMAIN longer = 1 .. Len(signals) + 1
  BY <1>1
<1> HIDE DEF longer
<1>3. ElementsOf(longer) = ElementsOf(signals) \cup {signal}
  BY <1>1, <1>2 DEF ElementsOf
<1> QED BY <1>1, <1>3 DEF longer

LEMMA SignalsAre ==
  /\ <<>> \in Seq(Signals) /\ ElementsOf(<<>>) = {}
  /\ ProtocolError \in Signals
  /\ \A state \in ConnectionStates :
       StateChanged(state) \in Signals /\ StateChanged(state) # ProtocolError
  /\ StateChanged("Connecting") # StateChanged("Disconnected")
  /\ StateChanged("Connected") # StateChanged("Disconnected")
  /\ \A snapshot \in Snapshots :
       /\ SnapshotReceived(snapshot) # ProtocolError
       /\ \A state \in ConnectionStates : SnapshotReceived(snapshot) # StateChanged(state)
<1>1. <<>> \in Seq(Signals) /\ ElementsOf(<<>>) = {}
  BY DEF ElementsOf
<1>2. ProtocolError.signal = "protocol_error"
  BY DEF ProtocolError
<1>3. \A state : StateChanged(state).signal = "connection_state_changed"
                 /\ StateChanged(state).state = state
  BY DEF StateChanged
<1>4. \A snapshot : SnapshotReceived(snapshot).signal = "snapshot_received"
  BY DEF SnapshotReceived
<1>5. ProtocolError \in Signals /\ \A state \in ConnectionStates : StateChanged(state) \in Signals
  BY DEF Signals
<1>6. \A state : StateChanged(state) # ProtocolError
  BY <1>2, <1>3
<1>7. \A snapshot : SnapshotReceived(snapshot) # ProtocolError
  BY <1>2, <1>4
<1>8. \A snapshot, state : SnapshotReceived(snapshot) # StateChanged(state)
  BY <1>3, <1>4
<1>9. /\ StateChanged("Connecting") # StateChanged("Disconnected")
      /\ StateChanged("Connected") # StateChanged("Disconnected")
  BY <1>3
<1> QED BY <1>1, <1>5, <1>6, <1>7, <1>8, <1>9

\* What was announced is snapshots, and no other signal.
LEMMA AnnouncedElements ==
  ASSUME NEW bytes \in Seq(Pieces), NEW frames \in Nat, 2 * frames <= Len(bytes)
  PROVE  /\ Announced(bytes, frames) \in Seq(Signals)
         /\ ProtocolError \notin ElementsOf(Announced(bytes, frames))
         /\ \A state \in ConnectionStates :
              StateChanged(state) \notin ElementsOf(Announced(bytes, frames))
<1> DEFINE announced == Announced(bytes, frames)
<1>1. /\ announced \in Seq(Signals) /\ Len(announced) = frames
      /\ \A i \in 1 .. frames :
           /\ announced[i] = SnapshotReceived(bytes[2 * i].snapshot)
           /\ bytes[2 * i].snapshot \in Snapshots
  BY AnnouncedType
<1> HIDE DEF announced
<1>2. \A i \in DOMAIN announced : \E snapshot \in Snapshots :
        announced[i] = SnapshotReceived(snapshot)
  BY <1>1
<1>3. /\ ProtocolError \notin ElementsOf(announced)
      /\ \A state \in ConnectionStates : StateChanged(state) \notin ElementsOf(announced)
  BY <1>2, SignalsAre DEF ElementsOf
<1> QED BY <1>1, <1>3 DEF announced

LEMMA EmittedIs ==
  ASSUME NEW c
  PROVE  Emitted(c) = ElementsOf(c.signals)
BY DEF Emitted, ElementsOf

\* A state change after signals that are no error is no error.
LEMMA NoErrorYet ==
  ASSUME NEW d, NEW signals \in Seq(Signals), ProtocolError \notin ElementsOf(signals),
         NEW state \in ConnectionStates, d.signals = Append(signals, StateChanged(state))
  PROVE  ProtocolError \notin Emitted(d)
<1>1. StateChanged(state) \in Signals /\ StateChanged(state) # ProtocolError
  BY SignalsAre
<1>2. ElementsOf(d.signals) = ElementsOf(signals) \cup {StateChanged(state)}
  BY <1>1, AppendElements
<1>3. Emitted(d) = ElementsOf(d.signals)
  BY EmittedIs
<1> QED BY <1>1, <1>2, <1>3

-----------------------------------------------------------------------------
(* Every turn keeps the invariant and the two action properties *)

LEMMA DroppedOK ==
  ASSUME NEW d \in Records, NEW attempt \in 0 .. 3, NEW signals,
         Dropped(d, attempt, signals)
  PROVE  ClientOK(d)
BY DelayTable DEF Dropped, ClientOK, Idle

LEMMA TriedOK ==
  ASSUME NEW d \in Records, NEW attempt \in 0 .. 3, NEW signals,
         Tried(d, attempt, signals)
  PROVE  ClientOK(d)
<1>1. 0 \in 0 .. 3
  OBVIOUS
<1> QED BY <1>1, DroppedOK DEF Tried, ClientOK

LEMMA DroppedBackoff ==
  ASSUME NEW attempt \in {client.attempt, 0}, NEW signals,
         Dropped(client', attempt, signals)
  PROVE  BackoffStep
BY DEF Dropped, BackoffStep, Bump

\* A step of the client: a turn of its own, the user's refresh(), or one that
\* touches only the view.
Asks ==
  /\ client.socket = "Connected"
  /\ client.asked + Len(client.inbox) \div 2 < MaxAsked
  /\ \E accepted \in Accepted : client' = request_snapshot(Turn, accepted)
  /\ agentUp' \in {agentUp, FALSE}
Looks == client' = Turn /\ UNCHANGED agentUp
Turns == Next \/ Asks \/ Looks

TurnOK == ClientOK(client') /\ BackoffStep /\ ErrorStep

LEMMA TriedStep ==
  ASSUME NEW attempt \in {client.attempt, 0}, attempt \in 0 .. 3, NEW signals \in Seq(Signals),
         ProtocolError \notin ElementsOf(signals),
         client' \in Records,
         Tried(client', attempt, signals)
  PROVE  TurnOK
<1>1. ClientOK(client')
  BY TriedOK
<1>2. CASE Joined(client') /\ client'.signals = Append(signals, StateChanged("Connected"))
  <2>1. client'.reconnect = 0
    BY <1>2 DEF Joined, On
  <2>2. ProtocolError \notin Emitted(client')
    BY <1>2, NoErrorYet, SignalsAre DEF ConnectionStates
  <2> QED BY <1>1, <2>1, <2>2 DEF TurnOK, BackoffStep, ErrorStep
<1>3. CASE /\ ~agentUp
           /\ Dropped(client', 0,
                      Append(Append(signals, StateChanged("Connected")), ProtocolError))
  BY <1>1, <1>3, DroppedBackoff DEF TurnOK, ErrorStep
<1>4. CASE Dropped(client', attempt, signals)
  <2>1. client'.signals = Append(signals, StateChanged("Disconnected"))
    BY <1>4 DEF Dropped
  <2>2. ProtocolError \notin Emitted(client')
    BY <2>1, NoErrorYet, SignalsAre DEF ConnectionStates
  <2> QED BY <1>1, <1>4, <2>2, DroppedBackoff DEF TurnOK, ErrorStep
<1> QED BY <1>2, <1>3, <1>4 DEF Tried

LEMMA QuietStep ==
  ASSUME ClientOK(client'), client'.signals = <<>>
  PROVE  TurnOK
<1>1. Emitted(client') = {}
  BY EmittedIs, SignalsAre
<1> QED BY <1>1 DEF TurnOK, BackoffStep, ErrorStep

LEMMA TurnsOK ==
  ASSUME ClientInv, agentUp \in BOOLEAN, Turns
  PROVE  TurnOK /\ agentUp' \in BOOLEAN
<1> DEFINE connecting == Append(<<>>, StateChanged("Connecting"))
<1>1. client \in Records /\ client.attempt \in 0 .. 3 /\ 0 \in 0 .. 3
  BY DEF ClientInv, ClientOK, Records
<1>2. /\ connecting \in Seq(Signals) /\ ProtocolError \notin ElementsOf(connecting)
  BY ZenonT(30), AppendElements, SignalsAre DEF ConnectionStates
<1> HIDE DEF connecting
<1>3. agentUp' \in BOOLEAN
  BY DEF Turns, Next, ClientTurn, Start, Stop, ConnectEnds, ReconnectTimeout, PollTimeout,
         ReadyRead, ConnectionLost, Answer, AgentDown, AgentReturns, AgentNotices, Asks, Looks
<1> SUFFICES TurnOK
  BY <1>3
<1>4. ASSUME Pending(client'), client' \in Records, client'.signals = connecting
      PROVE  TurnOK
  <2>1. ProtocolError \notin Emitted(client')
    BY <1>2, <1>4, EmittedIs
  <2>2. client'.reconnect = 0
    BY <1>4 DEF Pending
  <2> QED BY <1>4, <2>1, <2>2 DEF TurnOK, BackoffStep, ErrorStep, ClientOK
<1>5. CASE Start
  BY <1>1, <1>2, <1>4, <1>5, StartTurn, TriedStep DEF connecting
<1>6. CASE ReconnectTimeout
  BY <1>1, <1>2, <1>4, <1>6, ReconnectTurn, TriedStep DEF connecting
<1>7. CASE ConnectEnds
  BY <1>1, <1>7, ConnectEndsTurn, TriedStep, SignalsAre
<1>8. CASE Stop
  <2>1. /\ client' \in Records /\ Idle(client') /\ client'.reconnect = 0
        /\ client'.signals \in {<<>>, Append(<<>>, StateChanged("Disconnected"))}
    BY <1>8, StopTurn
  <2>2. CASE client'.signals = <<>>
    BY <2>1, <2>2, QuietStep DEF ClientOK
  <2>3. CASE client'.signals = Append(<<>>, StateChanged("Disconnected"))
    <3>1. ProtocolError \notin Emitted(client')
      BY <2>3, NoErrorYet, SignalsAre DEF ConnectionStates
    <3> QED BY <2>1, <3>1 DEF TurnOK, BackoffStep, ErrorStep, ClientOK
  <2> QED BY <2>1, <2>2, <2>3
<1>9. ASSUME client.socket = "Connected",
             client.asked + Len(client.inbox) \div 2 < MaxAsked,
             NEW accepted \in Accepted, client' = request_snapshot(Turn, accepted)
      PROVE  TurnOK
  <2>1. client' \in Records
    BY <1>9, RequestTurn
  <2>2. CASE Joined(client') /\ client'.signals = <<>>
    BY <2>1, <2>2, QuietStep DEF ClientOK
  <2>3. CASE /\ client.link = "dead"
             /\ Dropped(client', client.attempt, Append(<<>>, ProtocolError))
    BY <1>1, <2>1, <2>3, DroppedOK, DroppedBackoff DEF TurnOK, ErrorStep
  <2> QED BY <1>9, <2>2, <2>3, RequestTurn
<1>10. CASE Asks
  BY <1>9, <1>10 DEF Asks
<1>11. CASE PollTimeout
  <2>1. client.socket = "Connected"
    BY <1>11 DEF PollTimeout, ClientInv, ClientOK, Idle, Off, Pending, Joined, On
  <2> QED BY <1>9, <1>11, <2>1 DEF PollTimeout
<1>12. CASE ReadyRead
  <2>1. client' \in Records
    BY <1>12, ReadTurn
  <2>2. PICK bytes \in Seq(Pieces), frames \in Nat :
          LET announced == Announced(bytes, frames) IN
          /\ 2 * frames <= Len(bytes)
          /\ \/ /\ Joined(client') /\ client'.link = client.link
                /\ client'.asked = client.asked
                /\ frames = 0 => client'.buffer # <<>>
                /\ client'.signals = announced
             \/ /\ \E i \in DOMAIN (client.buffer \o client.inbox) :
                     (client.buffer \o client.inbox)[i].fault # "none"
                /\ Dropped(client', client.attempt, Append(announced, ProtocolError))
    BY <1>12, ReadTurn
  <2> DEFINE announced == Announced(bytes, frames)
  <2>3. announced \in Seq(Signals) /\ ProtocolError \notin ElementsOf(announced)
    BY <2>2, AnnouncedElements
  <2>4. CASE Joined(client') /\ client'.signals = announced
    <3>1. ProtocolError \notin Emitted(client') /\ client'.reconnect = 0
      BY <2>3, <2>4, EmittedIs DEF Joined, On
    <3> QED BY <2>1, <2>4, <3>1 DEF TurnOK, BackoffStep, ErrorStep, ClientOK
  <2>5. CASE /\ \E i \in DOMAIN (client.buffer \o client.inbox) :
                  (client.buffer \o client.inbox)[i].fault # "none"
             /\ Dropped(client', client.attempt, Append(announced, ProtocolError))
    <3>1. ErrorStep
      BY <2>5 DEF ErrorStep
    <3> HIDE DEF announced
    <3> QED BY <1>1, <2>1, <2>5, <3>1, DroppedOK, DroppedBackoff DEF TurnOK
  <2> QED BY <2>2, <2>4, <2>5
<1>13. CASE ConnectionLost
  <2>1. client' \in Records /\ Dropped(client', client.attempt, <<>>)
    BY <1>13, LostTurn
  <2>2. client'.signals = Append(<<>>, StateChanged("Disconnected"))
    BY <2>1 DEF Dropped
  <2>3. ProtocolError \notin Emitted(client')
    BY <2>2, NoErrorYet, SignalsAre DEF ConnectionStates
  <2> QED BY <1>1, <2>1, <2>3, DroppedOK, DroppedBackoff DEF TurnOK, ErrorStep
<1>14. CASE Answer
  <2>1. client' \in Records /\ Joined(client') /\ Unmoved(client')
    BY <1>14, AnswerTurn
  <2>2. ClientOK(client') /\ client'.signals = <<>>
    BY <2>1 DEF Unmoved, ClientOK
  <2> QED BY <2>2, QuietStep
<1>15. CASE AgentDown
  BY <1>15, AgentDownTurn, QuietStep DEF Unmoved
<1>16. CASE AgentReturns \/ Looks
  <2>1. client' = Turn
    BY <1>16 DEF AgentReturns, Looks
  <2> QED BY <2>1, EmptyTurn, QuietStep DEF Unmoved
<1> QED BY <1>5, <1>6, <1>7, <1>8, <1>10, <1>11, <1>12, <1>13, <1>14, <1>15, <1>16
        DEF Turns, Next, ClientTurn

-----------------------------------------------------------------------------
(* The view's slots, one after the other *)

\* f holds the view before the first signal and after each of the first m.
IsRun(f, v, signals, m) ==
  f = [n \in 0 .. m |-> IF n = 0 THEN v ELSE Apply(f[n - 1], signals[n])]

LEMMA RunSteps ==
  ASSUME NEW f, NEW v, NEW signals, NEW m \in Nat, IsRun(f, v, signals, m)
  PROVE  f[0] = v /\ \A n \in 1 .. m : f[n] = Apply(f[n - 1], signals[n])
<1> DEFINE slot(n) == Apply(f[n - 1], signals[n])
<1>1. f = [n \in 0 .. m |-> IF n = 0 THEN v ELSE slot(n)]
  BY DEF IsRun
<1> HIDE DEF slot
<1>2. f[0] = v /\ \A n \in 1 .. m : f[n] = slot(n)
  BY <1>1
<1> QED BY <1>2 DEF slot

\* Such a run exists: the least m without one could be reached from m - 1.
LEMMA RunExists ==
  ASSUME NEW v, NEW signals, NEW m \in Nat
  PROVE  \E f : IsRun(f, v, signals, m)
<1> DEFINE Bad == {k \in Nat : ~ \E f : IsRun(f, v, signals, k)}
<1>1. SUFFICES ASSUME Bad # {} PROVE FALSE
  OBVIOUS
<1>2. PICK k \in Bad : \A j \in Bad : k <= j
  <2>1. Bad \in SUBSET Nat
    OBVIOUS
  <2> HIDE DEF Bad
  <2> QED BY <1>1, <2>1, Least
<1>3. k \in Nat /\ ~ \E f : IsRun(f, v, signals, k)
  OBVIOUS
<1>4. CASE k = 0
  <2> DEFINE f == [n \in 0 .. 0 |-> v]
  <2>1. f = [n \in 0 .. 0 |-> IF n = 0 THEN v ELSE Apply(f[n - 1], signals[n])]
    OBVIOUS
  <2>2. IsRun(f, v, signals, 0)
    BY <2>1 DEF IsRun
  <2> QED BY <1>3, <1>4, <2>2
<1>5. CASE k # 0
  <2>1. k - 1 \in Nat /\ k - 1 \notin Bad
    BY <1>2, <1>3, <1>5
  <2>2. PICK f : IsRun(f, v, signals, k - 1)
    BY <2>1
  <2>3. f[0] = v /\ \A n \in 1 .. k - 1 : f[n] = Apply(f[n - 1], signals[n])
    BY <2>1, <2>2, RunSteps
  <2> DEFINE last == Apply(f[k - 1], signals[k])
             g == [n \in 0 .. k |-> IF n = k THEN last ELSE f[n]]
             next(n) == Apply(g[n - 1], signals[n])
  <2>4. /\ \A n \in 0 .. k - 1 : g[n] = f[n]
        /\ g[k] = last
    <3> HIDE DEF last
    <3> QED BY <1>3
  <2>5. ASSUME NEW n \in 0 .. k
        PROVE  g[n] = IF n = 0 THEN v ELSE next(n)
    <3>1. CASE n = 0
      <4>1. g[0] = f[0]
        BY <1>5, <2>4, <1>3
      <4> HIDE DEF g
      <4> QED BY <2>3, <3>1, <4>1
    <3>2. CASE n = k
      <4>1. g[k - 1] = f[k - 1]
        BY <1>3, <1>5, <2>4
      <4>2. next(k) = last
        BY <4>1, Zenon
      <4> HIDE DEF g, next, last
      <4> QED BY <1>5, <2>4, <3>2, <4>2
    <3>3. CASE n # 0 /\ n # k
      <4>1. n \in 1 .. k - 1 /\ n - 1 \in 0 .. k - 1 /\ n \in 0 .. k - 1
        BY <1>3, <3>3
      <4>2. g[n] = f[n] /\ g[n - 1] = f[n - 1]
        BY <2>4, <4>1
      <4>3. f[n] = Apply(f[n - 1], signals[n])
        BY <2>3, <4>1
      <4>4. next(n) = f[n]
        BY <4>2, <4>3, Zenon
      <4> HIDE DEF g, next
      <4> QED BY <3>3, <4>2, <4>4
    <3> QED BY <3>1, <3>2, <3>3
  <2>6. g = [n \in 0 .. k |-> IF n = 0 THEN v ELSE next(n)]
    <3> HIDE DEF next, last
    <3>1. g = [n \in 0 .. k |-> g[n]]
      OBVIOUS
    <3> HIDE DEF g
    <3> QED BY <2>5, <3>1
  <2>7. IsRun(g, v, signals, k)
    BY <2>6 DEF IsRun
  <2> QED BY <1>3, <2>7
<1> QED BY <1>4, <1>5

\* Runs over the same signals agree as far as the shorter one goes.
LEMMA RunsAgree ==
  ASSUME NEW f, NEW g, NEW v, NEW s, NEW t, NEW m \in Nat, NEW k \in Nat, m <= k,
         IsRun(f, v, s, m), IsRun(g, v, t, k), \A n \in 1 .. m : s[n] = t[n]
  PROVE  \A n \in 0 .. m : f[n] = g[n]
<1> DEFINE Bad == {n \in 0 .. m : f[n] # g[n]}
<1>1. SUFFICES ASSUME Bad # {} PROVE FALSE
  OBVIOUS
<1>2. PICK n \in Bad : \A j \in Bad : n <= j
  <2>1. Bad \in SUBSET Nat
    OBVIOUS
  <2> HIDE DEF Bad
  <2> QED BY <1>1, <2>1, Least
<1>3. n \in 0 .. m /\ f[n] # g[n]
  OBVIOUS
<1>4. /\ f[0] = v /\ \A i \in 1 .. m : f[i] = Apply(f[i - 1], s[i])
      /\ g[0] = v /\ \A i \in 1 .. k : g[i] = Apply(g[i - 1], t[i])
  BY RunSteps
<1>5. n # 0
  BY <1>3, <1>4
<1>6. n \in 1 .. m /\ n \in 1 .. k /\ n - 1 \in 0 .. m /\ ~(n <= n - 1)
  BY <1>3, <1>5
<1>7. f[n - 1] = g[n - 1]
  BY <1>2, <1>6
<1>8. f[n] = Apply(f[n - 1], s[n]) /\ g[n] = Apply(g[n - 1], t[n]) /\ s[n] = t[n]
  BY <1>4, <1>6
<1> QED BY <1>3, <1>7, <1>8, Zenon

LEMMA ApplyIsRun ==
  ASSUME NEW v, NEW signals \in Seq(Signals)
  PROVE  \E f : IsRun(f, v, signals, Len(signals)) /\ ApplyAll(v, signals) = f[Len(signals)]
<1> DEFINE f == CHOOSE g : IsRun(g, v, signals, Len(signals))
<1>1. ApplyAll(v, signals) = f[Len(signals)]
  BY DEF ApplyAll, IsRun
<1>2. IsRun(f, v, signals, Len(signals))
  <2>1. Len(signals) \in Nat
    OBVIOUS
  <2> QED BY <2>1, RunExists
<1> QED BY <1>1, <1>2

LEMMA ApplyNone ==
  ASSUME NEW v
  PROVE  ApplyAll(v, <<>>) = v
<1>1. <<>> \in Seq(Signals) /\ Len(<<>>) = 0
  OBVIOUS
<1>2. PICK f : IsRun(f, v, <<>>, 0) /\ ApplyAll(v, <<>>) = f[0]
  BY <1>1, ApplyIsRun
<1> QED BY <1>2, RunSteps

LEMMA ApplyMore ==
  ASSUME NEW v, NEW signals \in Seq(Signals), NEW signal \in Signals
  PROVE  ApplyAll(v, Append(signals, signal)) = Apply(ApplyAll(v, signals), signal)
<1> DEFINE longer == Append(signals, signal)
           m == Len(signals)
<1>1. /\ longer \in Seq(Signals) /\ Len(longer) = m + 1
      /\ longer[m + 1] = signal /\ \A n \in 1 .. m : longer[n] = signals[n]
      /\ m \in Nat
  OBVIOUS
<1> HIDE DEF longer, m
<1>2. PICK f : IsRun(f, v, signals, m) /\ ApplyAll(v, signals) = f[m]
  BY ApplyIsRun DEF m
<1>3. PICK g : IsRun(g, v, longer, m + 1) /\ ApplyAll(v, longer) = g[m + 1]
  BY <1>1, ApplyIsRun
<1>4. m <= m + 1 /\ m + 1 \in Nat /\ m \in 0 .. m /\ m + 1 \in 1 .. m + 1
  BY <1>1
<1>5. f[m] = g[m]
  <2>1. \A n \in 1 .. m : signals[n] = longer[n]
    BY <1>1
  <2>2. \A n \in 0 .. m : f[n] = g[n]
    BY <1>1, <1>2, <1>3, <1>4, <2>1, RunsAgree
  <2> QED BY <1>4, <2>2
<1>6. g[m + 1] = Apply(g[m + 1 - 1], longer[m + 1])
  BY <1>3, <1>4, RunSteps
<1>7. m + 1 - 1 = m
  BY <1>1
<1>8. ApplyAll(v, longer) = Apply(ApplyAll(v, signals), signal)
  BY <1>1, <1>2, <1>3, <1>5, <1>6, <1>7
<1> QED BY <1>8 DEF longer

LEMMA ApplyOne ==
  ASSUME NEW v, NEW signal \in Signals
  PROVE  /\ Append(<<>>, signal) \in Seq(Signals)
         /\ ApplyAll(v, Append(<<>>, signal)) = Apply(v, signal)
<1> DEFINE none == <<>>
<1>1. none \in Seq(Signals) /\ Append(none, signal) \in Seq(Signals)
  OBVIOUS
<1>2. ApplyAll(v, none) = v
  BY ApplyNone
<1> HIDE DEF none
<1>3. ApplyAll(v, Append(none, signal)) = Apply(ApplyAll(v, none), signal)
  BY <1>1, ApplyMore
<1>4. /\ Append(none, signal) \in Seq(Signals)
      /\ ApplyAll(v, Append(none, signal)) = Apply(v, signal)
  BY <1>1, <1>2, <1>3
<1> QED BY <1>4 DEF none

-----------------------------------------------------------------------------
(* What each signal does to the view *)

\* A view that has shown no snapshot shows no metric.
Base(v) ==
  v \in ViewRecords /\ (v.hasSnapshot = FALSE => v.cpu = "none" /\ v.memory = "none")

\* The same metrics are shown.
SameData(v, w) ==
  w.hasSnapshot = v.hasSnapshot /\ w.cpu = v.cpu /\ w.memory = v.memory

Offline(v) ==
  /\ Base(v) /\ v.agentAvailable = FALSE /\ v.refreshing = FALSE
  /\ v.text = "unavailable" /\ v.dataStale = v.hasSnapshot

LEMMA SeesConnecting ==
  ASSUME NEW v, Base(v)
  PROVE  LET w == Apply(v, StateChanged("Connecting")) IN
           /\ Base(w) /\ SameData(v, w) /\ w.dataStale = v.dataStale
           /\ w.agentAvailable = FALSE /\ w.refreshing = TRUE /\ w.text = "connecting"
<1> DEFINE w == Status([v EXCEPT !.agentAvailable = FALSE, !.refreshing = TRUE],
                       "connecting", FALSE)
<1>1. Apply(v, StateChanged("Connecting")) = w
  BY DEF Apply, StateChanged, apply_connection_state
<1>2. w \in ViewRecords
  BY DEF Base, ViewRecords, Status, Texts
<1>3. /\ w.hasSnapshot = v.hasSnapshot /\ w.cpu = v.cpu /\ w.memory = v.memory
      /\ w.dataStale = v.dataStale /\ w.agentAvailable = FALSE /\ w.refreshing = TRUE
      /\ w.text = "connecting"
  BY DEF Base, ViewRecords, Status
<1> HIDE DEF w
<1>4. Base(w) /\ SameData(v, w)
  BY <1>2, <1>3 DEF Base, SameData
<1> QED BY <1>1, <1>3, <1>4

LEMMA SeesConnected ==
  ASSUME NEW v, Base(v)
  PROVE  LET w == Apply(v, StateChanged("Connected")) IN
           /\ Base(w) /\ SameData(v, w) /\ w.dataStale = v.dataStale
           /\ w.agentAvailable = TRUE /\ w.refreshing = TRUE /\ w.text = "awaitingAnswer"
<1> DEFINE w == Status([v EXCEPT !.agentAvailable = TRUE, !.refreshing = TRUE],
                       "awaitingAnswer", FALSE)
<1>1. Apply(v, StateChanged("Connected")) = w
  BY DEF Apply, StateChanged, apply_connection_state
<1>2. w \in ViewRecords
  BY DEF Base, ViewRecords, Status, Texts
<1>3. /\ w.hasSnapshot = v.hasSnapshot /\ w.cpu = v.cpu /\ w.memory = v.memory
      /\ w.dataStale = v.dataStale /\ w.agentAvailable = TRUE /\ w.refreshing = TRUE
      /\ w.text = "awaitingAnswer"
  BY DEF Base, ViewRecords, Status
<1> HIDE DEF w
<1>4. Base(w) /\ SameData(v, w)
  BY <1>2, <1>3 DEF Base, SameData
<1> QED BY <1>1, <1>3, <1>4

LEMMA SeesDisconnected ==
  ASSUME NEW v, Base(v)
  PROVE  Offline(Apply(v, StateChanged("Disconnected")))
<1> DEFINE w == Status([v EXCEPT !.agentAvailable = FALSE, !.refreshing = FALSE,
                                 !.dataStale = v.hasSnapshot],
                       "unavailable", v.hasSnapshot)
<1>1. Apply(v, StateChanged("Disconnected")) = w
  BY DEF Apply, StateChanged, apply_connection_state
<1>2. w \in ViewRecords
  BY DEF Base, ViewRecords, Status, Texts
<1>3. /\ w.hasSnapshot = v.hasSnapshot /\ w.cpu = v.cpu /\ w.memory = v.memory
      /\ w.dataStale = v.hasSnapshot /\ w.agentAvailable = FALSE /\ w.refreshing = FALSE
      /\ w.text = "unavailable"
  BY DEF Base, ViewRecords, Status
<1> HIDE DEF w
<1>4. Offline(w)
  BY <1>2, <1>3 DEF Base, Offline
<1> QED BY <1>1, <1>4

LEMMA SeesError ==
  ASSUME NEW v, Base(v)
  PROVE  Base(Apply(v, ProtocolError))
<1> DEFINE w == Status([v EXCEPT !.refreshing = FALSE], "protocolError", FALSE)
<1>1. Apply(v, ProtocolError) = w
  BY DEF Apply, ProtocolError, apply_protocol_error
<1>2. w \in ViewRecords
  BY DEF Base, ViewRecords, Status, Texts
<1>3. w.hasSnapshot = v.hasSnapshot /\ w.cpu = v.cpu /\ w.memory = v.memory
  BY DEF Base, ViewRecords, Status
<1> HIDE DEF w
<1>4. Base(w)
  BY <1>2, <1>3 DEF Base
<1> QED BY <1>1, <1>4

\* What a view shows after a snapshot.
Truthful(v) ==
  /\ v.text = "observing" =>
       v.cpu = "latest" /\ v.memory = "latest" /\ v.staleText = v.dataStale
  /\ "earlier" \in {v.cpu, v.memory} => v.text = "partial" \/ v.dataStale = TRUE

LEMMA ShownIs ==
  ASSUME NEW origin \in Origins, NEW present \in BOOLEAN
  PROVE  /\ Shown(origin, present) \in Origins
         /\ present => Shown(origin, present) = "latest"
<1>1. CASE present = TRUE
  BY <1>1, Zenon DEF Shown, Origins
<1>2. CASE present = FALSE /\ origin = "none"
  BY <1>2, Zenon DEF Shown, Origins
<1>3. CASE present = FALSE /\ origin # "none"
  BY <1>3, Zenon DEF Shown, Origins
<1> QED BY <1>1, <1>2, <1>3

LEMMA TextIs ==
  ASSUME NEW s \in SnapshotRecords
  PROVE  /\ SnapshotText(s) \in {"observing", "partial", "limited"}
         /\ SnapshotText(s) # "partial" => s.cpu = TRUE /\ s.memory = TRUE
<1>1. s.cpu \in BOOLEAN /\ s.memory \in BOOLEAN
  BY DEF SnapshotRecords
<1>2. CASE s.cpu = TRUE /\ s.memory = TRUE /\ s.state = "Running"
  <2>1. SnapshotText(s) = "observing"
    BY <1>2, Zenon DEF SnapshotText
  <2> QED BY <1>2, <2>1
<1>3. CASE ~(s.cpu /\ s.memory)
  <2>1. SnapshotText(s) = "partial"
    BY <1>3, Zenon DEF SnapshotText
  <2> QED BY <1>3, <2>1
<1>4. CASE s.cpu = TRUE /\ s.memory = TRUE /\ s.state # "Running"
  <2>1. SnapshotText(s) = "limited"
    BY <1>4, Zenon DEF SnapshotText
  <2> QED BY <1>4, <2>1
<1> QED BY <1>1, <1>2, <1>3, <1>4

LEMMA SeesSnapshot ==
  ASSUME NEW v, Base(v), NEW s \in SnapshotRecords
  PROVE  LET w == Apply(v, SnapshotReceived(s)) IN
           /\ Base(w) /\ Truthful(w)
           /\ w.agentAvailable = v.agentAvailable /\ w.refreshing = FALSE
           /\ s.has = FALSE => SameData(v, w) /\ w.dataStale = v.hasSnapshot
<1>1. Apply(v, SnapshotReceived(s)) = apply_snapshot(v, s)
  BY DEF Apply, SnapshotReceived
<1>2. /\ s.has \in BOOLEAN /\ s.cpu \in BOOLEAN /\ s.memory \in BOOLEAN
      /\ s.old \in BOOLEAN
  BY DEF SnapshotRecords
<1>3. CASE s.has = FALSE
  <2> DEFINE w == Status([v EXCEPT !.refreshing = FALSE, !.dataStale = v.hasSnapshot],
                         "awaitingFirst", v.hasSnapshot)
  <2>1. apply_snapshot(v, s) = w
    BY <1>3 DEF apply_snapshot
  <2>2. w \in ViewRecords
    BY DEF Base, ViewRecords, Status, Texts
  <2>3. /\ w.hasSnapshot = v.hasSnapshot /\ w.cpu = v.cpu /\ w.memory = v.memory
        /\ w.dataStale = v.hasSnapshot /\ w.agentAvailable = v.agentAvailable
        /\ w.refreshing = FALSE /\ w.text = "awaitingFirst"
    BY DEF Base, ViewRecords, Status
  <2> HIDE DEF w
  <2>4. Base(w) /\ SameData(v, w)
    BY <2>2, <2>3 DEF Base, SameData
  <2>5. Truthful(w)
    BY <2>3 DEF Truthful, Base, ViewRecords
  <2> QED BY <1>1, <1>3, <2>1, <2>3, <2>4, <2>5
<1>4. CASE s.has = TRUE
  <2> DEFINE text == SnapshotText(s)
             cpu == Shown(v.cpu, s.cpu)
             memory == Shown(v.memory, s.memory)
             w == Status([v EXCEPT !.refreshing = FALSE, !.hasSnapshot = TRUE,
                                   !.dataStale = s.old, !.cpu = cpu, !.memory = memory,
                                   !.aged = s.old], text, s.old)
  <2>1. apply_snapshot(v, s) = w
    BY <1>4 DEF apply_snapshot, Base, ViewRecords
  <2>2. /\ cpu \in Origins /\ (s.cpu => cpu = "latest")
        /\ memory \in Origins /\ (s.memory => memory = "latest")
    BY <1>2, ShownIs DEF Base, ViewRecords
  <2>3. /\ text \in {"observing", "partial", "limited"}
        /\ text # "partial" => s.cpu = TRUE /\ s.memory = TRUE
    BY TextIs
  <2> HIDE DEF text, cpu, memory
  <2>4. text \in Texts
    BY <2>3 DEF Texts
  <2>5. w \in ViewRecords
    BY <1>2, <2>2, <2>4 DEF Base, ViewRecords, Status
  <2>6. /\ w.hasSnapshot = TRUE /\ w.cpu = cpu /\ w.memory = memory
        /\ w.dataStale = s.old /\ w.staleText = s.old
        /\ w.agentAvailable = v.agentAvailable
        /\ w.refreshing = FALSE /\ w.text = text
    BY DEF Base, ViewRecords, Status
  <2> HIDE DEF w
  <2>7. Base(w)
    BY <2>5, <2>6 DEF Base
  <2>8. Truthful(w)
    BY <2>2, <2>3, <2>6 DEF Truthful
  <2> QED BY <1>1, <1>4, <2>1, <2>6, <2>7, <2>8
<1> QED BY <1>2, <1>3, <1>4

\* What a view becomes by the first frames of bytes.
Watched(v, bytes, frames) ==
  LET w == ApplyAll(v, Announced(bytes, frames)) IN
    /\ Base(w) /\ w.agentAvailable = v.agentAvailable
    /\ frames = 0 => w = v
    /\ frames # 0 => Truthful(w) /\ w.refreshing = FALSE
    /\ v.dataStale = TRUE /\ w.dataStale = FALSE /\ w.hasSnapshot = TRUE =>
         \E i \in 1 .. frames : bytes[2 * i].snapshot.has = TRUE

\* By the least number of frames for which it would not hold.
LEMMA WatchesFrames ==
  ASSUME NEW v, Base(v), NEW bytes \in Seq(Pieces), NEW frames \in Nat,
         2 * frames <= Len(bytes)
  PROVE  Watched(v, bytes, frames)
<1> DEFINE Bad == {k \in Nat : 2 * k <= Len(bytes) /\ ~Watched(v, bytes, k)}
<1>1. SUFFICES ASSUME Bad # {} PROVE FALSE
  OBVIOUS
<1>2. PICK k \in Bad : \A j \in Bad : k <= j
  <2>1. Bad \in SUBSET Nat
    OBVIOUS
  <2> HIDE DEF Bad
  <2> QED BY <1>1, <2>1, Least
<1>3. k \in Nat /\ 2 * k <= Len(bytes) /\ ~Watched(v, bytes, k)
  OBVIOUS
<1>4. CASE k = 0
  <2>1. Announced(bytes, 0) = <<>>
    BY DEF Announced
  <2>2. ApplyAll(v, Announced(bytes, 0)) = v
    BY <2>1, ApplyNone
  <2>3. Watched(v, bytes, 0)
    BY <2>2 DEF Watched
  <2> QED BY <1>3, <1>4, <2>3
<1>5. CASE k # 0
  <2>1. k - 1 \in Nat /\ 2 * (k - 1) <= Len(bytes) /\ ~(k <= k - 1)
    <3>1. Len(bytes) \in Nat
      OBVIOUS
    <3> QED BY <1>3, <1>5, <3>1
  <2>2. Watched(v, bytes, k - 1)
    BY <1>2, <2>1
  <2> DEFINE s == bytes[2 * k].snapshot
             before == Announced(bytes, k - 1)
             u == ApplyAll(v, before)
             w == ApplyAll(v, Announced(bytes, k))
  <2>3. s \in Snapshots
    <3>1. k \in 1 .. k
      BY <1>3, <1>5
    <3>2. \A i \in 1 .. k : bytes[2 * i].snapshot \in Snapshots
      BY <1>3, AnnouncedType
    <3> QED BY <3>1, <3>2
  <2>4. s \in SnapshotRecords /\ SnapshotReceived(s) \in Signals
    BY <2>3, SnapshotsAssumption DEF Signals
  <2>5. before \in Seq(Signals) /\ Len(before) = k - 1
    BY <2>1, AnnouncedType
  <2>6. Announced(bytes, k) = Append(before, SnapshotReceived(s))
    <3> DEFINE all == Announced(bytes, k)
               longer == Append(before, SnapshotReceived(s))
    <3>1. all \in Seq(Signals) /\ Len(all) = k
      BY <1>3, AnnouncedType
    <3>2. \A i \in 1 .. k : all[i] = SnapshotReceived(bytes[2 * i].snapshot)
      BY <1>3, AnnouncedType
    <3>3. \A i \in 1 .. k - 1 : before[i] = SnapshotReceived(bytes[2 * i].snapshot)
      BY <2>1, AnnouncedType
    <3> HIDE DEF all, before, s
    <3>4. /\ longer \in Seq(Signals) /\ Len(longer) = k
          /\ longer[k] = SnapshotReceived(s)
          /\ \A i \in 1 .. k - 1 : longer[i] = before[i]
      BY <1>3, <1>5, <2>4, <2>5
    <3> HIDE DEF longer
    <3>5. \A i \in 1 .. k : all[i] = longer[i]
      <4> TAKE i \in 1 .. k
      <4>1. CASE i = k
        BY <3>2, <3>4, <4>1 DEF s
      <4>2. CASE i # k
        <5>1. i \in 1 .. k - 1
          BY <1>3, <4>2
        <5> QED BY <3>2, <3>3, <3>4, <5>1
      <4> QED BY <4>1, <4>2
    <3> QED BY <3>1, <3>4, <3>5, SeqEqual DEF all, longer
  <2>7. w = Apply(u, SnapshotReceived(s))
    <3> HIDE DEF before, s
    <3> QED BY <2>4, <2>5, <2>6, ApplyMore
  <2>8. /\ Base(u) /\ u.agentAvailable = v.agentAvailable
        /\ k - 1 = 0 => u = v
        /\ v.dataStale = TRUE /\ u.dataStale = FALSE /\ u.hasSnapshot = TRUE =>
             \E i \in 1 .. k - 1 : bytes[2 * i].snapshot.has = TRUE
    BY <2>2 DEF Watched
  <2> HIDE DEF s, before, u, w
  <2>9. /\ Base(w) /\ Truthful(w)
        /\ w.agentAvailable = u.agentAvailable /\ w.refreshing = FALSE
        /\ s.has = FALSE => SameData(u, w) /\ w.dataStale = u.hasSnapshot
    BY <2>4, <2>7, <2>8, SeesSnapshot
  <2>10. ASSUME v.dataStale = TRUE, w.dataStale = FALSE, w.hasSnapshot = TRUE
         PROVE  \E i \in 1 .. k : bytes[2 * i].snapshot.has = TRUE
    <3>1. s.has = TRUE
      BY <2>4, <2>9, <2>10 DEF SnapshotRecords, SameData
    <3>2. k \in 1 .. k /\ bytes[2 * k].snapshot.has = TRUE
      BY <1>3, <1>5, <3>1 DEF s
    <3> QED BY <3>2
  <2>11. Watched(v, bytes, k)
    BY <1>5, <2>8, <2>9, <2>10 DEF Watched, w
  <2> QED BY <1>3, <2>11
<1> QED BY <1>4, <1>5

-----------------------------------------------------------------------------
(* The view and the client together *)

\* Something will end the spinner.
Cause(c) == c.asked > 0 \/ c.inbox # <<>> \/ c.link = "dead"

ViewOK(v, c) ==
  /\ Base(v)
  /\ v.agentAvailable = TRUE <=> c.socket = "Connected"
  /\ v.text = "observing" =>
       /\ v.agentAvailable = TRUE /\ v.refreshing = FALSE
       /\ v.cpu = "latest" /\ v.memory = "latest" /\ v.staleText = v.dataStale
  /\ "earlier" \in {v.cpu, v.memory} =>
       v.text \in {"partial", "asking", "connecting", "awaitingAnswer"} \/ v.dataStale = TRUE
  /\ v.agentAvailable = FALSE /\ v.hasSnapshot = TRUE => v.dataStale = TRUE
  /\ v.refreshing = TRUE /\ c.socket = "Connected" => Cause(c)
ViewInv == ViewOK(view, client)

LEMMA InvGivesView ==
  ASSUME ViewInv
  PROVE  SpinnerHasCause /\ OldMetricFlagged /\ HonestStatus
<1>1. /\ view \in ViewRecords /\ view.agentAvailable \in BOOLEAN
      /\ view.refreshing \in BOOLEAN /\ view.dataStale \in BOOLEAN
      /\ view.staleText \in BOOLEAN
  BY DEF ViewInv, ViewOK, Base, ViewRecords
<1>2. SpinnerHasCause
  BY <1>1 DEF ViewInv, ViewOK, Cause, SpinnerHasCause
<1>3. OldMetricFlagged
  BY <1>1 DEF ViewInv, ViewOK, OldMetricFlagged
<1>4. AvailableMeansConnected /\ HonestObserving
  BY <1>1 DEF ViewInv, ViewOK, AvailableMeansConnected, HonestObserving
<1> QED BY <1>1, <1>2, <1>3, <1>4 DEF HonestStatus

ViewStepOK == ViewOK(view', client') /\ LostStep

LEMMA LostStepFrom ==
  ASSUME ViewOK(view', client'),
         view.dataStale = TRUE /\ view'.dataStale = FALSE /\ view'.hasSnapshot = TRUE =>
           \E s \in Snapshots : s.has = TRUE /\ SnapshotReceived(s) \in Emitted(client'),
         Base(view)
  PROVE  LostStep
<1>1. /\ view.dataStale \in BOOLEAN /\ view'.dataStale \in BOOLEAN
      /\ view'.hasSnapshot \in BOOLEAN /\ view'.agentAvailable \in BOOLEAN
  BY DEF ViewOK, Base, ViewRecords
<1>2. \A s \in Snapshots : s.has \in BOOLEAN
  BY SnapshotsAssumption DEF SnapshotRecords
<1>3. ~view'.agentAvailable /\ view'.hasSnapshot => view'.dataStale
  BY <1>1 DEF ViewOK
<1>4. view.dataStale /\ ~view'.dataStale /\ view'.hasSnapshot =>
        \E s \in Snapshots : s.has /\ SnapshotReceived(s) \in Emitted(client')
  BY <1>1, <1>2
<1> QED BY <1>3, <1>4 DEF LostStep

LEMMA OfflineStep ==
  ASSUME Base(view), Offline(view'), client'.socket # "Connected"
  PROVE  ViewStepOK
<1>1. ViewOK(view', client')
  BY DEF Offline, ViewOK, Base, ViewRecords
<1>2. ~(view'.dataStale = FALSE /\ view'.hasSnapshot = TRUE)
  BY DEF Offline
<1> QED BY <1>1, <1>2, LostStepFrom DEF ViewStepOK

LEMMA DroppedView ==
  ASSUME NEW v, Base(view), NEW signals \in Seq(Signals), Base(ApplyAll(v, signals)),
         NEW attempt, Dropped(client', attempt, signals),
         view' = ApplyAll(v, client'.signals)
  PROVE  ViewStepOK
<1>1. client'.signals = Append(signals, StateChanged("Disconnected"))
      /\ client'.socket # "Connected"
  BY DEF Dropped, Off, Unlinked
<1>2. StateChanged("Disconnected") \in Signals
  BY SignalsAre DEF ConnectionStates
<1>3. view' = Apply(ApplyAll(v, signals), StateChanged("Disconnected"))
  BY <1>1, <1>2, ApplyMore
<1>4. Offline(view')
  BY <1>3, SeesDisconnected
<1> QED BY <1>1, <1>4, OfflineStep

\* A turn that tried to connect, after signals that left the view's data alone.
LEMMA TriedView ==
  ASSUME ViewInv, client' \in Records, NEW attempt, NEW signals \in Seq(Signals),
         Tried(client', attempt, signals),
         LET u == ApplyAll(view, signals) IN
           Base(u) /\ SameData(view, u) /\ u.dataStale = view.dataStale,
         view' = ApplyAll(view, client'.signals)
  PROVE  ViewStepOK
<1> DEFINE u == ApplyAll(view, signals)
<1>1. Base(u) /\ SameData(view, u) /\ u.dataStale = view.dataStale
  OBVIOUS
<1>2. Base(view)
  BY DEF ViewInv, ViewOK
<1>3. StateChanged("Connected") \in Signals /\ ProtocolError \in Signals
  BY SignalsAre DEF ConnectionStates
<1> DEFINE connected == Append(signals, StateChanged("Connected"))
<1>4. connected \in Seq(Signals) /\ ApplyAll(view, connected) = Apply(u, StateChanged("Connected"))
  BY <1>3, ApplyMore
<1> HIDE DEF u
<1>5. LET w == Apply(u, StateChanged("Connected")) IN
        /\ Base(w) /\ SameData(u, w) /\ w.dataStale = u.dataStale
        /\ w.agentAvailable = TRUE /\ w.refreshing = TRUE /\ w.text = "awaitingAnswer"
  BY <1>1, SeesConnected
<1>6. CASE Joined(client') /\ client'.asked = 1 /\ client'.signals = connected
  <2>1. view' = Apply(u, StateChanged("Connected"))
    BY <1>4, <1>6
  <2>2. /\ Base(view') /\ view'.dataStale = view.dataStale
        /\ view'.agentAvailable = TRUE /\ view'.refreshing = TRUE
        /\ view'.text = "awaitingAnswer"
    BY <1>1, <1>5, <2>1
  <2>3. client'.socket = "Connected"
    BY <1>6 DEF Joined, On
  <2>4. ViewOK(view', client')
    BY <1>6, <2>2, <2>3 DEF ViewOK, Cause
  <2> QED BY <1>2, <2>2, <2>4, LostStepFrom DEF ViewStepOK
<1>7. CASE Dropped(client', 0, Append(connected, ProtocolError))
  <2> DEFINE failed == Append(connected, ProtocolError)
  <2> HIDE DEF connected
  <2>1. failed \in Seq(Signals)
        /\ ApplyAll(view, failed) = Apply(ApplyAll(view, connected), ProtocolError)
    BY <1>3, <1>4, ApplyMore
  <2>2. Base(ApplyAll(view, failed))
    BY <1>4, <1>5, <2>1, SeesError
  <2> QED BY <1>2, <1>7, <2>1, <2>2, DroppedView
<1>8. CASE Dropped(client', attempt, signals)
  BY <1>1, <1>2, <1>8, DroppedView DEF u
<1> QED BY <1>6, <1>7, <1>8 DEF Tried

\* A turn that begins an attempt: the view hears of it before it hears the end.
LEMMA BeginsView ==
  ASSUME ViewInv, client.socket # "Connected", client' \in Records, NEW attempt,
         \/ Pending(client') /\ client'.signals = Append(<<>>, StateChanged("Connecting"))
         \/ Tried(client', attempt, Append(<<>>, StateChanged("Connecting"))),
         view' = ApplyAll(view, client'.signals)
  PROVE  ViewStepOK
<1> DEFINE connecting == Append(<<>>, StateChanged("Connecting"))
           u == ApplyAll(view, connecting)
<1>1. Base(view)
  BY DEF ViewInv, ViewOK
<1>2. connecting \in Seq(Signals) /\ u = Apply(view, StateChanged("Connecting"))
  <2>1. StateChanged("Connecting") \in Signals /\ <<>> \in Seq(Signals)
    BY SignalsAre DEF ConnectionStates
  <2> QED BY <2>1, ApplyOne
<1>3. /\ Base(u) /\ SameData(view, u) /\ u.dataStale = view.dataStale
      /\ u.agentAvailable = FALSE /\ u.refreshing = TRUE /\ u.text = "connecting"
  BY <1>1, <1>2, SeesConnecting
<1>4. CASE Pending(client') /\ client'.signals = connecting
  <2>1. view' = u
    BY <1>4
  <2>2. client'.socket = "Connecting"
    BY <1>4 DEF Pending
  <2>3. view.hasSnapshot = TRUE => view.dataStale = TRUE
    BY DEF ViewInv, ViewOK, Base, ViewRecords
  <2> HIDE DEF u
  <2>4. ViewOK(view', client')
    BY <1>3, <2>1, <2>2, <2>3 DEF ViewOK, SameData
  <2> QED BY <1>1, <1>3, <2>1, <2>4, LostStepFrom DEF ViewStepOK
<1>5. CASE Tried(client', attempt, connecting)
  <2> HIDE DEF connecting
  <2> QED BY <1>2, <1>3, <1>5, TriedView
<1> QED BY <1>4, <1>5

\* A step that emits nothing and keeps or replaces the cause of the spinner.
LEMMA SilentView ==
  ASSUME ViewInv, client'.socket = client.socket, view' = view,
         Cause(client) => Cause(client')
  PROVE  ViewStepOK
<1>1. Base(view) /\ ViewOK(view', client')
  BY DEF ViewInv, ViewOK
<1> QED BY <1>1, LostStepFrom DEF ViewStepOK

\* refresh() before its request.
Asking(v) == Status([v EXCEPT !.refreshing = TRUE], "asking", FALSE)

\* A request of the timer, which the view does not see, or of the user.
LEMMA AsksView ==
  ASSUME ClientInv, ViewInv, client.socket = "Connected",
         client.asked + Len(client.inbox) \div 2 < MaxAsked,
         NEW accepted \in Accepted, client' = request_snapshot(Turn, accepted),
         NEW v, v = view \/ v = Asking(view),
         view' = ApplyAll(v, client'.signals)
  PROVE  ViewStepOK
<1>1. Joined(client) /\ client' \in Records
  BY RequestTurn
<1>2. Base(view) /\ view.agentAvailable = TRUE
  BY DEF ViewInv, ViewOK
<1>3. /\ Asking(view) \in ViewRecords
      /\ Asking(view).text = "asking" /\ Asking(view).agentAvailable = TRUE
      /\ SameData(view, Asking(view)) /\ Asking(view).dataStale = view.dataStale
  <2>1. Asking(view) \in ViewRecords
    BY <1>2 DEF Base, ViewRecords, Asking, Status, Texts
  <2> QED BY <1>2, <2>1 DEF Base, ViewRecords, Asking, Status, SameData
<1>4. Base(v) /\ v.dataStale = view.dataStale
  BY <1>2, <1>3 DEF Base, SameData
<1>5. CASE Joined(client') /\ client'.asked = client.asked + 1 /\ client'.signals = <<>>
  <2>1. view' = v
    BY <1>5, ApplyNone
  <2>2. client'.socket = "Connected" /\ Cause(client')
    <3>1. client.asked \in Nat
      BY DEF ClientInv, ClientOK, Records
    <3> QED BY <1>5, <3>1 DEF Joined, On, Cause
  <2>3. ViewOK(v, client')
    <3>1. CASE v = view
      BY <2>2, <3>1 DEF ViewInv, ViewOK
    <3>2. CASE v = Asking(view)
      BY <1>3, <1>4, <2>2, <3>2 DEF ViewOK
    <3> QED BY <3>1, <3>2
  <2> QED BY <1>2, <1>4, <2>1, <2>3, LostStepFrom DEF ViewStepOK
<1>6. CASE Dropped(client', client.attempt, Append(<<>>, ProtocolError))
  <2> DEFINE failed == Append(<<>>, ProtocolError)
  <2>1. failed \in Seq(Signals) /\ ApplyAll(v, failed) = Apply(v, ProtocolError)
    BY SignalsAre, ApplyOne
  <2>2. Base(ApplyAll(v, failed))
    BY <1>4, <2>1, SeesError
  <2> HIDE DEF failed
  <2> QED BY <1>2, <1>6, <2>1, <2>2, DroppedView DEF failed
<1> QED BY <1>5, <1>6, RequestTurn

\* Frames were read: the view shows the last of them, or that all is over.
LEMMA ReadView ==
  ASSUME ClientInv, ViewInv, ReadyRead, view' = ApplyAll(view, client'.signals)
  PROVE  ViewStepOK
<1>1. Joined(client) /\ client' \in Records
  BY ReadTurn
<1>2. Base(view) /\ view.agentAvailable = TRUE
  BY <1>1 DEF ViewInv, ViewOK, Joined, On
<1>3. PICK bytes \in Seq(Pieces), frames \in Nat :
        LET announced == Announced(bytes, frames) IN
        /\ 2 * frames <= Len(bytes)
        /\ \/ /\ Joined(client') /\ client'.link = client.link
              /\ client'.asked = client.asked
              /\ frames = 0 => client'.buffer # <<>>
              /\ client'.signals = announced
           \/ /\ \E i \in DOMAIN (client.buffer \o client.inbox) :
                   (client.buffer \o client.inbox)[i].fault # "none"
              /\ Dropped(client', client.attempt, Append(announced, ProtocolError))
  BY ReadTurn
<1> DEFINE announced == Announced(bytes, frames)
           w == ApplyAll(view, announced)
<1>4. /\ announced \in Seq(Signals) /\ Len(announced) = frames
      /\ \A i \in 1 .. frames :
           /\ announced[i] = SnapshotReceived(bytes[2 * i].snapshot)
           /\ bytes[2 * i].snapshot \in Snapshots
  BY <1>3, AnnouncedType
<1>5. /\ Base(w) /\ w.agentAvailable = TRUE
      /\ frames = 0 => w = view
      /\ frames # 0 => Truthful(w) /\ w.refreshing = FALSE
      /\ view.dataStale = TRUE /\ w.dataStale = FALSE /\ w.hasSnapshot = TRUE =>
           \E i \in 1 .. frames : bytes[2 * i].snapshot.has = TRUE
  BY <1>2, <1>3, WatchesFrames DEF Watched
<1> HIDE DEF announced, w
<1>6. CASE /\ Joined(client') /\ client'.signals = announced
           /\ frames = 0 => client'.buffer # <<>>
  <2>1. view' = w /\ client'.socket = "Connected"
    BY <1>6 DEF w, Joined, On
  <2>2. ViewOK(w, client')
    <3>1. CASE frames # 0
      BY <1>5, <2>1, <3>1 DEF ViewOK, Truthful
    <3>2. CASE frames = 0
      <4>1. w = view
        BY <1>5, <3>2
      <4>2. Cause(client')
        <5>1. client'.buffer \in Seq(Pieces) /\ client'.buffer # <<>>
          BY <1>1, <1>6, <3>2 DEF Records
        <5>2. ASSUME client'.link = "live", client'.inbox = <<>> PROVE FALSE
          <6>1. client'.buffer \o client'.inbox = client'.buffer
            BY <5>1, <5>2
          <6> DEFINE size == Len(client'.buffer)
          <6>2. size % 2 = 0 /\ size <= 1
            BY <1>6, <5>2, <6>1 DEF Joined, Aligned
          <6>3. size \in Nat /\ size # 0
            BY <5>1
          <6> HIDE DEF size
          <6>4. size = 1
            BY <6>2, <6>3
          <6> QED BY <6>2, <6>4
        <5> QED BY <1>6, <5>2 DEF Cause, Joined, On
      <4> QED BY <1>2, <2>1, <4>1, <4>2 DEF ViewInv, ViewOK
    <3> QED BY <3>1, <3>2
  <2>3. ASSUME view.dataStale = TRUE, view'.dataStale = FALSE, view'.hasSnapshot = TRUE
        PROVE  \E s \in Snapshots : s.has = TRUE /\ SnapshotReceived(s) \in Emitted(client')
    <3>1. PICK i \in 1 .. frames : bytes[2 * i].snapshot.has = TRUE
      BY <1>5, <2>1, <2>3
    <3>2. announced[i] \in Emitted(client')
      <4>1. i \in DOMAIN announced
        BY <1>4
      <4>2. Emitted(client') = {announced[j] : j \in DOMAIN announced}
        BY <1>6, EmittedIs DEF ElementsOf
      <4> QED BY <4>1, <4>2
    <3> QED BY <1>4, <3>1, <3>2
  <2> QED BY <1>2, <2>1, <2>2, <2>3, LostStepFrom DEF ViewStepOK
<1>7. CASE Dropped(client', client.attempt, Append(announced, ProtocolError))
  <2> DEFINE failed == Append(announced, ProtocolError)
  <2>1. failed \in Seq(Signals) /\ ApplyAll(view, failed) = Apply(w, ProtocolError)
    BY <1>4, SignalsAre, ApplyMore, AppendElements DEF w
  <2>2. Base(ApplyAll(view, failed))
    BY <1>5, <2>1, SeesError
  <2> HIDE DEF failed
  <2> QED BY <1>2, <1>7, <2>1, <2>2, DroppedView DEF failed
<1> QED BY <1>3, <1>6, <1>7 DEF announced

LEMMA ViewStep ==
  ASSUME ClientInv, ViewInv, agentUp \in BOOLEAN, ViewNext
  PROVE  Turns /\ ViewStepOK
<1>1. Base(view)
  BY DEF ViewInv, ViewOK
<1>2. CASE Seen(Start)
  <2>1. Start /\ view' = ApplyAll(view, client'.signals)
    BY <1>2, Zenon DEF Seen
  <2>2. client.socket # "Connected"
    BY <2>1, StartTurn DEF Idle, Off, Unlinked
  <2>3. ViewStepOK
    BY <2>1, <2>2, StartTurn, BeginsView
  <2> QED BY <2>1, <2>3 DEF Turns, Next
<1>3. CASE Seen(ClientTurn)
  <2>1. ClientTurn /\ view' = ApplyAll(view, client'.signals)
    BY <1>3, Zenon DEF Seen
  <2>2. Turns
    BY <2>1 DEF Turns, Next
  <2> SUFFICES ViewStepOK
    BY <2>2
  <2>3. CASE ConnectEnds
    <3>1. /\ client' \in Records /\ Tried(client', client.attempt, <<>>)
      BY <2>3, ConnectEndsTurn
    <3>2. /\ <<>> \in Seq(Signals) /\ ApplyAll(view, <<>>) = view
          /\ SameData(view, view)
      BY ApplyNone DEF SameData
    <3> QED BY <1>1, <2>1, <3>1, <3>2, TriedView
  <2>4. CASE ReconnectTimeout
    <3>1. client.socket # "Connected"
      BY <2>4, ReconnectTurn DEF Idle, Off, Unlinked
    <3> QED BY <2>1, <2>4, <3>1, ReconnectTurn, BeginsView
  <2>5. CASE PollTimeout
    <3>1. client.socket = "Connected"
      BY <2>5 DEF PollTimeout, ClientInv, ClientOK, Idle, Off, Pending, Joined, On
    <3>2. /\ client.asked + Len(client.inbox) \div 2 < MaxAsked
          /\ \E accepted \in Accepted : client' = request_snapshot(Turn, accepted)
      BY <2>5 DEF PollTimeout
    <3> QED BY <2>1, <3>1, <3>2, AsksView
  <2>6. CASE ReadyRead
    BY <2>1, <2>6, ReadView
  <2>7. CASE ConnectionLost
    <3>1. Dropped(client', client.attempt, <<>>)
      BY <2>7, LostTurn
    <3>2. <<>> \in Seq(Signals) /\ ApplyAll(view, <<>>) = view
      BY ApplyNone
    <3> QED BY <1>1, <2>1, <3>1, <3>2, DroppedView
  <2> QED BY <2>1, <2>3, <2>4, <2>5, <2>6, <2>7 DEF ClientTurn
<1>4. CASE Close
  <2>1. Stop /\ view' = Opened
    BY <1>4 DEF Close
  <2>2. client'.socket # "Connected"
    BY <2>1, StopTurn DEF Idle, Off, Unlinked
  <2>3. ViewOK(view', client')
    BY <2>1, <2>2 DEF Opened, ViewOK, Base, ViewRecords, Texts, Origins
  <2>4. view'.hasSnapshot = FALSE
    BY <2>1 DEF Opened
  <2>5. ViewStepOK
    BY <1>1, <2>3, <2>4, LostStepFrom DEF ViewStepOK
  <2> QED BY <2>1, <2>5 DEF Turns, Next
<1>5. CASE Unseen(Answer \/ AgentDown \/ AgentReturns)
  <2>1. (Answer \/ AgentDown \/ AgentReturns) /\ view' = view
    BY <1>5, Zenon DEF Unseen
  <2>2. client'.socket = client.socket /\ (Cause(client) => Cause(client'))
    <3>1. CASE Answer
      BY <3>1, AnswerTurn DEF Unmoved, Cause
    <3>2. CASE AgentDown
      BY <3>2, AgentDownTurn DEF Unmoved, Cause
    <3>3. CASE AgentReturns
      BY <3>3, EmptyTurn DEF AgentReturns, Unmoved, Cause
    <3> QED BY <2>1, <3>1, <3>2, <3>3
  <2>3. ViewStepOK
    BY <2>1, <2>2, SilentView
  <2> QED BY <2>1, <2>3 DEF Turns, Next
<1>6. CASE Refresh
  <2>1. client.socket = "Connected"
    BY <1>6 DEF Refresh, ViewInv, ViewOK, Base, ViewRecords
  <2>2. /\ client.asked + Len(client.inbox) \div 2 < MaxAsked
        /\ view' = ApplyAll(Asking(view), client'.signals)
    BY <1>6 DEF Refresh, Asking
  <2>3. PICK accepted \in Accepted : client' = request_snapshot(Turn, accepted)
    BY <1>6 DEF Refresh
  <2>4. ViewStepOK
    BY <2>1, <2>2, <2>3, AsksView
  <2>5. Asks
    BY <1>6, <2>1 DEF Refresh, Asks
  <2> QED BY <2>4, <2>5 DEF Turns
<1>7. CASE Age
  <2>1. client' = Turn /\ UNCHANGED agentUp /\ view' = [view EXCEPT !.aged = TRUE]
    BY <1>7 DEF Age
  <2>2. /\ client'.socket = client.socket
        /\ client'.link = client.link /\ client'.asked = client.asked
        /\ client'.inbox = client.inbox
    BY <2>1, EmptyTurn DEF Unmoved
  <2>3. /\ view' \in ViewRecords
        /\ view'.agentAvailable = view.agentAvailable /\ view'.text = view.text
        /\ view'.refreshing = view.refreshing /\ view'.hasSnapshot = view.hasSnapshot
        /\ view'.cpu = view.cpu /\ view'.memory = view.memory
        /\ view'.staleText = view.staleText /\ view'.dataStale = view.dataStale
    BY <1>1, <2>1 DEF Base, ViewRecords
  <2>4. ViewOK(view', client')
    BY <2>2, <2>3 DEF ViewInv, ViewOK, Base, Cause
  <2>5. ViewStepOK
    BY <1>1, <2>3, <2>4, LostStepFrom DEF ViewStepOK
  <2> QED BY <2>1, <2>5 DEF Turns, Looks
<1> QED BY <1>2, <1>3, <1>4, <1>5, <1>6, <1>7 DEF ViewNext

-----------------------------------------------------------------------------
(* The theorems *)

Inv == ClientInv /\ agentUp \in BOOLEAN /\ ViewInv

LEMMA InitInv == ViewInit => Inv
<1> SUFFICES ASSUME ViewInit PROVE Inv
  OBVIOUS
<1>1. ClientInv /\ agentUp \in BOOLEAN
  BY InitClient DEF ViewInit, Init
<1>2. view = Opened /\ client.socket = "Unconnected"
  BY DEF ViewInit, Init
<1>3. ViewInv
  BY <1>2 DEF Opened, ViewInv, ViewOK, Base, ViewRecords, Texts, Origins
<1> QED BY <1>1, <1>3 DEF Inv

LEMMA NextInv ==
  ASSUME Inv, [ViewNext]_viewVars
  PROVE  Inv' /\ [BackoffStep]_vars /\ [ErrorStep]_vars /\ [LostStep]_viewVars
<1>1. CASE ViewNext
  <2>1. Turns /\ ViewStepOK
    BY <1>1, ViewStep DEF Inv
  <2>2. TurnOK /\ agentUp' \in BOOLEAN
    BY <2>1, TurnsOK DEF Inv
  <2>3. ClientInv' /\ ViewInv'
    BY <2>1, <2>2 DEF TurnOK, ViewStepOK, ClientInv, ViewInv
  <2> QED BY <2>1, <2>2, <2>3 DEF TurnOK, ViewStepOK, Inv
<1>2. CASE UNCHANGED viewVars
  <2>1. client' = client /\ agentUp' = agentUp /\ view' = view
    BY <1>2 DEF viewVars
  <2>2. UNCHANGED vars
    BY <2>1 DEF vars
  <2>3. Inv'
    BY <2>1 DEF Inv, ClientInv, ViewInv
  <2> QED BY <1>2, <2>2, <2>3
<1> QED BY <1>1, <1>2

\* The inductive invariant of LocalAgentClient and SystemMetricsViewModel:
\* between turns of the event loop the client is idle, connecting or connected,
\* each with its timers and buffer, and the view fits it.
THEOREM InvariantHolds == ViewSpec => []Inv
<1>1. ViewInit => Inv
  BY InitInv
<1>2. Inv /\ [ViewNext]_viewVars => Inv'
  BY NextInv
<1> QED BY <1>1, <1>2, PTL DEF ViewSpec

\* After every turn reconnect_timer_, poll_timer_ and connection_state_ agree
\* with the socket: a stopped client has no timer, a running one has one.
THEOREM TimersAlwaysFollow == ViewSpec => []TimersFollowSocket
<1>1. Inv => TimersFollowSocket
  BY InvGivesTimers DEF Inv
<1> QED BY <1>1, InvariantHolds, PTL

\* handle_ready_read leaves less than a frame in receive_buffer_, and it is the
\* beginning of the next: the client never reads a frame from its middle.
THEOREM FramesStayAligned == ViewSpec => []FramesAligned
<1>1. Inv => FramesAligned
  BY InvGivesAligned DEF Inv
<1> QED BY <1>1, InvariantHolds, PTL

\* schedule_reconnect takes one step of the backoff table at most in a turn,
\* although errorOccurred and disconnected both reach it.
THEOREM BackoffStepsOnce == ViewSpec => OneBackoffStep
<1>1. Inv /\ [ViewNext]_viewVars => [BackoffStep]_vars
  BY NextInv
<1> QED BY <1>1, InvariantHolds, PTL DEF ViewSpec, OneBackoffStep

\* handle_ready_read and request_snapshot emit protocol_error only for a bad
\* frame or a connection already lost, however the reads cut the stream.
THEOREM ErrorsHaveCause == ViewSpec => ProtocolErrorHasCause
<1>1. Inv /\ [ViewNext]_viewVars => [ErrorStep]_vars
  BY NextInv
<1> QED BY <1>1, InvariantHolds, PTL DEF ViewSpec, ProtocolErrorHasCause

\* What apply_snapshot, set_connection_state and set_protocol_error leave in the
\* view about the connection and the data is so.
THEOREM StatusIsHonest == ViewSpec => []HonestStatus
<1>1. Inv => HonestStatus
  BY InvGivesView DEF Inv
<1> QED BY <1>1, InvariantHolds, PTL

\* While the view of a connected client says it is refreshing, an answer is due
\* or the loss of the connection is about to be reported.
THEOREM SpinnerIsHonest == ViewSpec => []SpinnerHasCause
<1>1. Inv => SpinnerHasCause
  BY InvGivesView DEF Inv
<1> QED BY <1>1, InvariantHolds, PTL

\* apply_snapshot keeps a metric that a degraded answer lacks; the status says
\* so, and never vouches for a metric older than the last update.
THEOREM OldMetricsAreFlagged == ViewSpec => []OldMetricFlagged
<1>1. Inv => OldMetricFlagged
  BY InvGivesView DEF Inv
<1> QED BY <1>1, InvariantHolds, PTL

\* Data marked stale when the connection was lost stays so until a snapshot
\* with data replaces it.
THEOREM LostDataIsMarked == ViewSpec => LostDataStaysMarked
<1>1. Inv /\ [ViewNext]_viewVars => [LostStep]_viewVars
  BY NextInv
<1> QED BY <1>1, InvariantHolds, PTL DEF ViewSpec, LostDataStaysMarked
=============================================================================
