------------------------------ MODULE TelemetryRpc -----------------------------
(***************************************************************************)
(* The way of an event to the remote server: TelemetryClient::submit       *)
(* (agent/src/telemetry_client.cpp), TelemetryServiceImpl::SubmitTelemetry *)
(* (server/src/telemetry_service.cpp) and the server's main()              *)
(* (server/src/main.cpp) with its signals and its shutdown.                *)
(*                                                                         *)
(* gRPC is external: it delivers a call at most once, runs handlers in     *)
(* threads of its own, goes on with a handler whose caller has given up,   *)
(* and Shutdown() without a deadline refuses new calls and waits for the   *)
(* handlers that have begun.                                               *)
(***************************************************************************)
EXTENDS Telemetry, Sequences

CONSTANTS
  Callers,   \* calls of submit(), one each
  Payloads,  \* what the submitted events carry
  Foreign,   \* messages that programs other than the Agent send
  MaxArgs    \* bound: arguments of the server

VARIABLES
  phase,      \* how far the server's main() is
  argv,       \* what of the server's arguments it has not read
  exitCode,
  stop,       \* stop_requested
  handlerSet, \* std::signal was called
  call,       \* for each caller: what it submits and what submit() returned
  requests,   \* [from, message] under way to the server
  handling,   \* those a handler of the server has been given
  replies,    \* [from, ok, event_id] under way to the caller
  journal     \* [from, event] the service has accepted
server == <<phase, argv, exitCode, stop, handlerSet>>
wire == <<requests, handling, replies, journal>>
vars == <<server, call, wire>>

Strangers == "stranger"
ASSUME CallersAssumption == Strangers \notin Callers
ASSUME PayloadsAssumption == Payloads \subseteq MetricPayload
Pending == [state |-> "new", event |-> {}, result |-> {}]

\* "--help" stands for "--version" too.
Arguments == {"--help", "--address", "text"}

Init ==
  /\ phase = "args" /\ exitCode = 0 /\ stop = FALSE /\ handlerSet = FALSE
  /\ argv \in UNION {[1 .. n -> Arguments] : n \in 0 .. MaxArgs}
  /\ call = [c \in Callers |-> Pending]
  /\ requests = {} /\ handling = {} /\ replies = {} /\ journal = {}

-----------------------------------------------------------------------------
(* TelemetryClient::submit *)

SubmitResult(accepted, id) == {[accepted |-> accepted, event_id |-> id]}

Returns(c, result) ==
  call' = [call EXCEPT ![c].state = "returned", ![c].result = result]

\* The conversion, and the RPC up to its waiting for the reply.
Submit(c) ==
  /\ call[c].state = "new"
  /\ \E event \in TelemetryEvent(Payloads) :
       LET message == to_proto(event) IN
         /\ call' = [call EXCEPT ![c].event = IF message = {} THEN {} ELSE {event},
                       ![c].state = IF message = {} THEN "returned" ELSE "waiting",
                       ![c].result = IF message = {} THEN SubmitResult(FALSE, "") ELSE {}]
         /\ requests' = requests \cup {[from |-> c, message |-> m] : m \in message}
  /\ UNCHANGED <<server, handling, replies, journal>>

ResultOf(reply) ==
  IF reply.ok /\ reply.event_id # "" THEN SubmitResult(TRUE, reply.event_id)
  ELSE SubmitResult(FALSE, "")

ReplyArrives(c) ==
  /\ call[c].state = "waiting"
  /\ \E reply \in replies :
       reply.from = c /\ Returns(c, ResultOf(reply)) /\ replies' = replies \ {reply}
  /\ UNCHANGED <<server, requests, handling, journal>>

\* The deadline, or UNAVAILABLE, whatever the server has done or will do.
CallFails(c) ==
  /\ call[c].state = "waiting"
  /\ Returns(c, SubmitResult(FALSE, ""))
  /\ UNCHANGED <<server, wire>>

StrangerSends ==
  /\ \E message \in Foreign :
       requests' = requests \cup {[from |-> Strangers, message |-> message]}
  /\ UNCHANGED <<server, call, handling, replies, journal>>

-----------------------------------------------------------------------------
(* TelemetryServiceImpl::SubmitTelemetry *)

Listening == phase \in {"bound", "serving"}

\* gRPC gives a call to a handler.
CallBegins ==
  /\ Listening
  /\ \E request \in requests :
       requests' = requests \ {request} /\ handling' = handling \cup {request}
  /\ UNCHANGED <<server, call, replies, journal>>

AnswerOf(request) ==
  LET event == from_proto(request.message) IN
    [from |-> request.from, ok |-> event # {},
     event_id |-> IF event = {} THEN "" ELSE request.message.event_id]

SubmitTelemetry ==
  /\ phase \notin {"exited", "killed"}
  /\ \E request \in handling :
       /\ handling' = handling \ {request}
       /\ replies' = IF request.from = Strangers THEN replies
                     ELSE replies \cup {AnswerOf(request)}
       /\ journal' = journal \cup {[from |-> request.from, event |-> event] :
                                     event \in from_proto(request.message)}
  /\ UNCHANGED <<server, call, requests>>

-----------------------------------------------------------------------------
(* The server's main() *)

Exit(code) ==
  /\ phase' = "exited" /\ exitCode' = code
  /\ UNCHANGED <<argv, stop, handlerSet, call, wire>>

HelpOrVersion ==
  /\ phase = "args" /\ argv # <<>> /\ Head(argv) = "--help"
  /\ Exit(0)

TakesAddress ==
  /\ phase = "args" /\ Len(argv) >= 2 /\ Head(argv) = "--address"
  /\ argv' = Tail(Tail(argv))
  /\ UNCHANGED <<phase, exitCode, stop, handlerSet, call, wire>>

WrongArgument ==
  /\ phase = "args" /\ argv # <<>>
  /\ Head(argv) = "text" \/ (Head(argv) = "--address" /\ Len(argv) = 1)
  /\ Exit(2)

\* BuildAndStart: from here on gRPC accepts calls.
BuildAndStart ==
  /\ phase = "args" /\ argv = <<>>
  /\ phase' = "bound"
  /\ UNCHANGED <<argv, exitCode, stop, handlerSet, call, wire>>

BindFails == phase = "args" /\ argv = <<>> /\ Exit(1)

InstallHandlers ==
  /\ phase = "bound"
  /\ phase' = "serving" /\ handlerSet' = TRUE
  /\ UNCHANGED <<argv, exitCode, stop, call, wire>>

WaitOnly ==
  /\ phase = "serving" /\ stop
  /\ phase' = "waiting"
  /\ UNCHANGED <<argv, exitCode, stop, handlerSet, call, wire>>

\* The loop sees the flag and Shutdown() refuses what has not begun.
Shutdown ==
  /\ phase = "serving" /\ stop
  /\ phase' = "shutdown"
  /\ UNCHANGED <<argv, exitCode, stop, handlerSet, call, wire>>

\* Shutdown() and Wait() return when the last handler has; main() returns.
WaitReturns ==
  /\ phase = "shutdown" /\ handling = {}
  /\ Exit(0)

\* Ctrl+C.  Without a handler it kills; a second time it may, as the C runtime
\* may uninstall the handler when it calls it.
Signal ==
  /\ phase \notin {"exited", "killed"}
  /\ \/ handlerSet /\ stop' = TRUE /\ UNCHANGED phase
     \/ (~handlerSet \/ stop) /\ phase' = "killed" /\ UNCHANGED stop
  /\ UNCHANGED <<argv, exitCode, handlerSet, call, wire>>

MainStep ==
  \/ HelpOrVersion \/ TakesAddress \/ WrongArgument \/ BuildAndStart \/ BindFails
  \/ InstallHandlers \/ Shutdown \/ WaitReturns
Next ==
  \/ MainStep \/ Signal
  \/ \E c \in Callers : Submit(c) \/ ReplyArrives(c) \/ CallFails(c)
  \/ StrangerSends
  \/ CallBegins \/ SubmitTelemetry

Spec == Init /\ [][Next]_vars
\* The server's threads are scheduled.
FairSpec == Spec /\ WF_vars(MainStep) /\ WF_vars(SubmitTelemetry)

-----------------------------------------------------------------------------
(* Properties *)

\* The assumption TelemetryRunner makes of an RPC that returns OK: the server
\* has accepted this very event, with every field as it was submitted, for this
\* call, and the id that came back is its id (telemetry_client.cpp:14-37,
\* telemetry_service.cpp:19-33).
AcceptedIsTrue ==
  \A c \in Callers : \A result \in call[c].result :
    result.accepted =>
      \E event \in call[c].event :
        /\ [from |-> c, event |-> event] \in journal
        /\ result.event_id = event.id

\* Nothing enters the journal that is not a valid event or that nobody sent,
\* whatever other programs send (telemetry_service.cpp:19-24).
JournalIsClean ==
  \A entry \in journal :
    /\ is_valid(entry.event)
    /\ entry.from \in Callers => entry.event \in call[entry.from].event

\* A signal ends the server, however many calls are under way or keep coming.
SignalEndsServer == stop ~> phase \in {"exited", "killed"}

=============================================================================
