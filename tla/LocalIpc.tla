------------------------------- MODULE LocalIpc -------------------------------
(***************************************************************************)
(* The Agent's pipe server and one Desktop, joined: IpcServer and          *)
(* LocalAgentClient over the same pipe, with an Agent process that can die *)
(* and be started again.  Each end's environment, free in its own module,  *)
(* is here the other end.                                                  *)
(*                                                                         *)
(* QLocalSocket fetches bytes from the pipe and passes requests on to it   *)
(* on its own, between the turns of the event loop: its read buffer is     *)
(* desktop.inbox and its write buffer desktop.asked.  A connection attempt *)
(* ends within the turn that begins it, as it does on Windows.             *)
(***************************************************************************)
EXTENDS IpcServer

CONSTANTS
  Desktop,   \* the client that is a LocalAgentClient
  MaxEpoch   \* bound: how often the Agent process is restarted

ASSUME DesktopAssumption == Desktop \in Clients /\ MaxEpoch \in Nat

VARIABLES
  desktop,   \* LocalAgentClient's record
  epoch,     \* which Agent process this is
  seen       \* the last snapshot the Desktop received

ipcVars == <<vars, desktop, epoch, seen>>

Stamp(version) == <<epoch, version>>

-----------------------------------------------------------------------------
(* The two ends as their own modules see them *)

Linked == desktop.link = "live"

\* The rest of a frame that write_all has begun.
Rest == IF written = 1 THEN <<Reply("body", response)>> ELSE <<>>
UnderWay == tx \o Rest

\* LocalAgentClient knows no pipe: all that was asked and not answered is
\* with the Agent, all that was answered and not read is in the inbox.
ClientSide ==
  IF ~Linked THEN desktop
  ELSE [desktop EXCEPT
          !.asked = @ + Len(asked) - NumberOf(UnderWay, Answers),
          !.inbox = @ \o [i \in DOMAIN UnderWay |->
                            [part |-> UnderWay[i].part, fault |-> "none",
                             snapshot |-> Stamp(UnderWay[i].version)]]]

\* The Agent lets the Desktop in.
Admits == pipe = "listening" \/ (pipe = "open" /\ peer = Desktop)

\* The snapshots a turn of the event loop emitted, in their order.
Received(d) ==
  LET shows == {i \in DOMAIN d.signals : d.signals[i].signal = "snapshot_received"}
      nth(k) == CHOOSE i \in shows : Cardinality({j \in shows : j <= i}) = k
  IN  [k \in 1 .. Cardinality(shows) |-> d.signals[nth(k)].snapshot]

Channel == INSTANCE SnapshotChannel WITH
  published <- Stamp(store), shown <- seen, batch <- Received(desktop)

Client == INSTANCE LocalAgentClient WITH
  client <- ClientSide, agentUp <- Admits, Faults <- {}, Snapshots <- Channel!Snapshots

IpcInit ==
  /\ Init
  /\ desktop = [running |-> FALSE, state |-> "Disconnected", socket |-> "Unconnected",
                reconnect |-> 0, attempt |-> 0, poll |-> FALSE, buffer |-> <<>>,
                signals |-> <<>>, link |-> "none", asked |-> 0, inbox |-> <<>>]
  /\ epoch = 0
  /\ seen = <<0, 0>>

-----------------------------------------------------------------------------
(* Turns of the Desktop's event loop *)

Quiet == [desktop EXCEPT !.signals = <<>>]

\* An attempt finds a listening instance or none.
Attempt(connected, refused) ==
  /\ \/ Connect(Desktop) /\ desktop' = connected
     \/ pipe # "listening" /\ UNCHANGED vars /\ desktop' = refused
  /\ UNCHANGED <<epoch, seen>>

\* A socket that is let go closes its end of the pipe.
Turn(after) ==
  /\ desktop' = after
  /\ IF Linked /\ after.link = "none" THEN Hangup(Desktop) ELSE UNCHANGED vars
  /\ seen' = IF Received(after) = <<>> THEN seen
             ELSE Received(after)[Len(Received(after))]
  /\ UNCHANGED epoch

DesktopStarts ==
  /\ ~desktop.running
  /\ Attempt(Client!start(Quiet, "connected"), Client!start(Quiet, "refused"))

DesktopStops == desktop.running /\ Turn(Client!stop(Quiet))

ReconnectTimeout ==
  /\ desktop.reconnect # 0
  /\ LET fired == [Quiet EXCEPT !.reconnect = 0] IN
       Attempt(Client!connect_to_agent(fired, "connected"),
               Client!connect_to_agent(fired, "refused"))

PollTimeout ==
  /\ desktop.poll
  /\ ClientSide.asked + Len(ClientSide.inbox) \div 2 < MaxAsked
  /\ \E accepted \in IF desktop.link = "dead" THEN BOOLEAN ELSE {TRUE} :
       Turn(Client!request_snapshot(Quiet, accepted))

ReadyRead ==
  /\ desktop.socket = "Connected"
  /\ \E n \in 1 .. Len(desktop.inbox) :
       Turn(Client!handle_ready_read([Quiet EXCEPT !.inbox = SubSeq(@, n + 1, Len(@))],
                                     SubSeq(desktop.inbox, 1, n)))

ConnectionLost ==
  /\ desktop.link = "dead"
  /\ Turn(Client!handle_disconnected(Client!Unlink(Quiet)))

-----------------------------------------------------------------------------
(* QLocalSocket at work between the turns *)

Transmit ==
  /\ Linked /\ desktop.asked > 0
  /\ Send(Desktop, "valid")
  /\ desktop' = [desktop EXCEPT !.asked = @ - 1]
  /\ UNCHANGED <<epoch, seen>>

Fetch ==
  /\ Linked
  /\ Receive(Desktop)
  /\ desktop' = [desktop EXCEPT !.inbox =
       Append(@, Client!Piece(Head(tx).part, "none", Stamp(Head(tx).version)))]
  /\ UNCHANGED <<epoch, seen>>

-----------------------------------------------------------------------------
(* The Agent *)

\* DisconnectNamedPipe, or the end of the process, cuts the connection.  An
\* answer, or a change in whether the Agent can be reached, begins a turn.
DesktopNotices ==
  desktop' =
    CASE Linked /\ pipe' = "absent" -> [Quiet EXCEPT !.link = "dead", !.asked = 0]
      [] Linked /\ pipe' # "absent" /\ written = 0 /\ written' > 0 -> Quiet
      [] ~Linked /\ Admits' # Admits -> Quiet
      [] OTHER -> desktop

OtherClient == \E c \in Clients \ {Desktop} : ClientStep(c)

AgentSide(step) == step /\ DesktopNotices /\ UNCHANGED <<epoch, seen>>
AgentStarts == AgentSide(Start)
AgentIsStopped == AgentSide(StopCall)
AgentStops == AgentSide(OwnerStep)
AgentWorks == AgentSide(WorkerStep)
AgentMeasures == AgentSide(StoreUpdate)
OthersCome == AgentSide(OtherClient)

\* The process is killed, or exits; bytes left in the pipe can still be read
\* by a client that is quick enough.
AgentDies ==
  /\ epoch < MaxEpoch /\ worker # "none"
  /\ stopRequested' = FALSE /\ owner' = "idle"
  /\ worker' = "none" /\ cancelled' = FALSE
  /\ pipe' = "absent" /\ peer' = Nobody
  /\ rx' = <<>> /\ tx' = <<>> /\ asked' = <<>>
  /\ receiveBuffer' = <<>> /\ response' = 0 /\ written' = 0
  /\ store' = 0
  /\ epoch' = epoch + 1
  /\ IF Linked
     THEN \E n \in 0 .. Len(tx) :
            desktop' = [Quiet EXCEPT !.link = "dead", !.asked = 0,
                          !.inbox = @ \o SubSeq(ClientSide.inbox, Len(@) + 1, Len(@) + n)]
     ELSE desktop' = IF Admits THEN Quiet ELSE desktop
  /\ UNCHANGED seen

IpcNext ==
  \/ DesktopStarts \/ DesktopStops
  \/ ReconnectTimeout \/ PollTimeout \/ ReadyRead \/ ConnectionLost
  \/ Transmit \/ Fetch
  \/ AgentStarts \/ AgentIsStopped \/ AgentStops \/ AgentWorks \/ AgentMeasures
  \/ OthersCome \/ AgentDies

IpcSpec == IpcInit /\ [][IpcNext]_ipcVars

\* Both programs are scheduled, Qt's timers fire, the pipe's name is not taken
\* for ever, and the Agent's main() calls start().
IpcFairness ==
  /\ WF_ipcVars(ReconnectTimeout) /\ WF_ipcVars(PollTimeout)
  /\ WF_ipcVars(ReadyRead) /\ WF_ipcVars(ConnectionLost)
  /\ WF_ipcVars(Transmit) /\ WF_ipcVars(Fetch)
  /\ WF_ipcVars(AgentStarts) /\ WF_ipcVars(AgentStops) /\ WF_ipcVars(AgentWorks)
  /\ SF_ipcVars(AgentSide(CreateNamedPipe))
FairIpcSpec == IpcSpec /\ IpcFairness

-----------------------------------------------------------------------------
(* Properties *)

\* The pipe, the two threads of the Agent, reconnects and restarts together
\* keep the channel's promise: nothing invented, nothing older than before.
KeepsChannelPromise == Channel!ChannelSpec

\* The Agent is an environment LocalAgentClient was checked against: it
\* answers one request with one whole frame, never sends a bad one, and what
\* it drops it drops together with the connection.
IsClientEnvironment == Client!Spec

\* The Desktop's live link is the server's open pipe and no other: no answer
\* can reach a Desktop that did not ask on this connection.
LinkAgrees == Linked <=> (pipe = "open" /\ peer = Desktop)

\* Both programs stay: then the Desktop ends up with the newest snapshot.
BothStay ==
  /\ desktop.running /\ owner = "idle" /\ ~stopRequested
  /\ worker \notin {"none", "starting", "failed", "done"}
CatchesUp == <>[]BothStay => <>[](seen = Stamp(store))
=============================================================================
