------------------------ MODULE SystemMetricsViewModel ------------------------
(***************************************************************************)
(* What the Desktop shows, desktop/src/system_metrics_view_model.cpp, on   *)
(* top of its client.  The view model's slots run inside the client's      *)
(* turns, once per signal and in the order of the signals; refresh() is a  *)
(* turn of its own, begun by the user.                                     *)
(*                                                                         *)
(* A snapshot is reduced to what the view tells apart: whether there is    *)
(* one, which metrics it has, the Agent's state, and whether it is older   *)
(* than stale_after_ms when it arrives.  The metrics shown are reduced to  *)
(* where they come from.                                                   *)
(***************************************************************************)
EXTENDS LocalAgentClient

VARIABLE view

viewVars == <<client, agentUp, view>>

AgentStates == {"Running", "Degraded", "Starting"}
SnapshotRecords ==
  [has : BOOLEAN, cpu : BOOLEAN, memory : BOOLEAN, state : AgentStates, old : BOOLEAN]

ASSUME SnapshotsAssumption == Snapshots \subseteq SnapshotRecords

\* status_text_ without its suffix " - data stale", which is staleText.
Texts == {"awaitingFirst", "observing", "partial", "limited", "connecting",
          "awaitingAnswer", "asking", "unavailable", "protocolError"}
Origins == {"none", "latest", "earlier"}

ViewRecords ==
  [text : Texts, staleText : BOOLEAN, refreshing : BOOLEAN,
   agentAvailable : BOOLEAN, dataStale : BOOLEAN, hasSnapshot : BOOLEAN,
   cpu : Origins, memory : Origins,   \* the snapshot the metric shown is from
   aged : BOOLEAN]   \* the snapshot shown is now older than stale_after_ms

Opened ==
  [text |-> "awaitingFirst", staleText |-> FALSE, refreshing |-> FALSE,
   agentAvailable |-> FALSE, dataStale |-> FALSE, hasSnapshot |-> FALSE,
   cpu |-> "none", memory |-> "none", aged |-> FALSE]
ViewInit == Init /\ view = Opened

-----------------------------------------------------------------------------
(* The slots *)

Status(v, text, stale) == [v EXCEPT !.text = text, !.staleText = stale]

\* A snapshot without a metric leaves the one shown before it in place.
Shown(origin, present) ==
  CASE present -> "latest"
    [] ~present /\ origin = "none" -> "none"
    [] OTHER -> "earlier"

DegradedFirst(s) ==
  CASE s.state = "Running" /\ s.cpu /\ s.memory -> "observing"
    [] s.state = "Degraded" -> "limited"
    [] OTHER -> "partial"

SnapshotText(s) ==
  CASE s.state = "Running" /\ s.cpu /\ s.memory -> "observing"
    [] ~(s.cpu /\ s.memory) -> "partial"
    [] OTHER -> "limited"

ApplyWithoutReset(v, s) ==
  IF ~s.has
  THEN Status([v EXCEPT !.dataStale = v.hasSnapshot], "awaitingFirst", v.hasSnapshot)
  ELSE Status([v EXCEPT !.hasSnapshot = TRUE, !.dataStale = s.old,
                        !.cpu = Shown(@, s.cpu), !.memory = Shown(@, s.memory),
                        !.aged = s.old],
              SnapshotText(s), s.old)

apply_snapshot(v, s) ==
  IF ~s.has
  THEN Status([v EXCEPT !.refreshing = FALSE, !.dataStale = v.hasSnapshot],
              "awaitingFirst", v.hasSnapshot)
  ELSE Status([v EXCEPT !.refreshing = FALSE, !.hasSnapshot = TRUE, !.dataStale = s.old,
                        !.cpu = Shown(@, s.cpu), !.memory = Shown(@, s.memory),
                        !.aged = s.old],
              SnapshotText(s), s.old)

KeepAvailable(v, state) ==
  CASE state = "Connecting" -> Status([v EXCEPT !.refreshing = TRUE], "connecting", FALSE)
    [] state = "Connected" ->
         Status([v EXCEPT !.agentAvailable = TRUE, !.refreshing = TRUE],
                "awaitingAnswer", FALSE)
    [] state = "Disconnected" ->
         Status([v EXCEPT !.refreshing = FALSE, !.dataStale = v.hasSnapshot],
                "unavailable", v.hasSnapshot)
FreshOnReconnect(v, state) ==
  CASE state = "Connecting" ->
         Status([v EXCEPT !.agentAvailable = FALSE, !.refreshing = TRUE],
                "connecting", FALSE)
    [] state = "Connected" ->
         Status([v EXCEPT !.agentAvailable = TRUE, !.refreshing = TRUE,
                          !.dataStale = FALSE], "awaitingAnswer", FALSE)
    [] state = "Disconnected" ->
         Status([v EXCEPT !.agentAvailable = FALSE, !.refreshing = FALSE,
                          !.dataStale = v.hasSnapshot],
                "unavailable", v.hasSnapshot)

apply_connection_state(v, state) ==
  CASE state = "Connecting" ->
         Status([v EXCEPT !.agentAvailable = FALSE, !.refreshing = TRUE],
                "connecting", FALSE)
    [] state = "Connected" ->
         Status([v EXCEPT !.agentAvailable = TRUE, !.refreshing = TRUE],
                "awaitingAnswer", FALSE)
    [] state = "Disconnected" ->
         Status([v EXCEPT !.agentAvailable = FALSE, !.refreshing = FALSE,
                          !.dataStale = v.hasSnapshot],
                "unavailable", v.hasSnapshot)

apply_protocol_error(v) ==
  Status([v EXCEPT !.refreshing = FALSE], "protocolError", FALSE)

Apply(v, signal) ==
  CASE signal.signal = "snapshot_received" -> apply_snapshot(v, signal.snapshot)
    [] signal.signal = "connection_state_changed" -> apply_connection_state(v, signal.state)
    [] signal.signal = "protocol_error" -> apply_protocol_error(v)

\* One slot after the other.
ApplyAll(v, signals) ==
  LET applied[n \in 0 .. Len(signals)] ==
        IF n = 0 THEN v ELSE Apply(applied[n - 1], signals[n])
  IN  applied[Len(signals)]

-----------------------------------------------------------------------------
(* The turns *)

\* refresh(): the user asks; the write may fail and abort the connection.
Refresh ==
  /\ view.agentAvailable /\ ~view.refreshing
  /\ client.asked + Len(client.inbox) \div 2 < MaxAsked
  /\ \E accepted \in Accepted : client' = request_snapshot(Turn, accepted)
  /\ view' = ApplyAll(Status([view EXCEPT !.refreshing = TRUE], "asking", FALSE),
                      client'.signals)
  /\ UNCHANGED agentUp

\* Time passes; no timer of the Desktop looks at the snapshot's age.
Age ==
  /\ view.hasSnapshot /\ ~view.aged
  /\ view' = [view EXCEPT !.aged = TRUE]
  /\ client' = Turn
  /\ UNCHANGED agentUp

\* A step of the client, and in the same turn the view's slots.
Seen(turn) == turn /\ view' = ApplyAll(view, client'.signals)
Unseen(step) == step /\ UNCHANGED view

\* The user closes the Desktop: the destructor calls stop(), and nobody sees
\* its signals.  What is opened next is a new view.
Close == Stop /\ view' = Opened

ViewNext ==
  \/ Seen(Start) \/ Seen(ClientTurn) \/ Close
  \/ Unseen(Answer \/ AgentDown \/ AgentReturns)
  \/ Refresh \/ Age

ViewSpec == ViewInit /\ [][ViewNext]_viewVars

\* The event loop as in LocalAgentClient; the singleShot of the constructor
\* fires.  The user need not press the button.
ViewFairSpec ==
  /\ ViewSpec
  /\ WF_viewVars(Seen(Start))
  /\ WF_viewVars(Seen(ConnectEnds)) /\ WF_viewVars(Seen(ReconnectTimeout))
  /\ WF_viewVars(Seen(PollTimeout)) /\ WF_viewVars(Seen(ReadyRead))
  /\ WF_viewVars(Seen(ConnectionLost)) /\ WF_viewVars(Unseen(Answer))

-----------------------------------------------------------------------------
(* Properties *)

\* The button is offered exactly while the client is connected: no order of
\* signals within a turn leaves the view on a connection that ended in it
\* (lines 167-191 with the client's abort inside handle_ready_read).
AvailableMeansConnected == view.agentAvailable <=> client.socket = "Connected"

\* The spinner of a connected Desktop stands for something that will end it:
\* an unanswered request, an answer on its way, or a connection about to be
\* reported lost (refresh, lines 92-101; apply_snapshot clears it).
SpinnerHasCause ==
  view.refreshing /\ client.socket = "Connected" =>
    client.asked > 0 \/ client.inbox # <<>> \/ client.link = "dead"

\* A metric that is older than the time shown as last update is never shown
\* under a status that vouches for it (lines 124-140, 142-152; the values of
\* a failed metric are kept).
OldMetricFlagged ==
  "earlier" \in {view.cpu, view.memory} =>
    view.text \in {"partial", "asking", "connecting", "awaitingAnswer"} \/ view.dataStale

\* "System under observation" is shown only by a connected Desktop for a
\* complete snapshot, with the suffix when that snapshot arrived stale.
HonestObserving ==
  view.text = "observing" =>
    /\ view.agentAvailable /\ ~view.refreshing
    /\ view.cpu = "latest" /\ view.memory = "latest"
    /\ view.staleText = view.dataStale

\* What the view claims is so, whatever signals a turn emitted and in whatever
\* order they changed it.
HonestStatus == view \in ViewRecords /\ AvailableMeansConnected /\ HonestObserving

\* Data kept over a lost connection stays marked until a snapshot arrives on
\* a new one (docs/tasks/IPC-001.md:215-216; lines 180-187).
LostStep ==
  /\ ~view'.agentAvailable /\ view'.hasSnapshot => view'.dataStale
  /\ view.dataStale /\ ~view'.dataStale /\ view'.hasSnapshot =>
       \E s \in Snapshots : s.has /\ SnapshotReceived(s) \in Emitted(client')
LostDataStaysMarked == [][LostStep]_viewVars

\* refreshing never lasts: the Agent answers or its loss is noticed.
SpinnerEnds == view.refreshing ~> ~view.refreshing

\* docs/tasks/IPC-001.md:318: "a snapshot older than 15 seconds counts as
\* stale".
OldDataMarked == view.aged => view.dataStale
=============================================================================
