-------------------------- MODULE TelemetryRpcProofs --------------------------
(***************************************************************************)
(* What an accepted submission means, for any number of callers, any       *)
(* events, and whatever other programs send to the server.                 *)
(***************************************************************************)
EXTENDS TelemetryRpc, TLAPS

-----------------------------------------------------------------------------
(* The conversion loses nothing *)

\* What a valid event becomes on the way to the server, the server reads back
\* as that event (telemetry_conversion.cpp, to_proto and from_proto).
LEMMA PayloadRoundTrip ==
  ASSUME NEW metric \in MetricPayload
  PROVE  /\ Payload(PayloadMessage(metric)) = metric
         /\ PayloadMessage(metric).payload_case # "not_set"
<1>1. CASE metric \in [type : {"cpu"}, usage_percent : Double]
  BY <1>1 DEF Payload, PayloadMessage, CpuMetric, MemoryMetric
<1>2. CASE metric \in [type : {"memory"}, total_bytes : UInt64, available_bytes : UInt64]
  BY <1>2 DEF Payload, PayloadMessage, CpuMetric, MemoryMetric
<1> QED
  BY <1>1, <1>2 DEF MetricPayload

LEMMA RoundTrip ==
  ASSUME NEW event \in TelemetryEvent(MetricPayload), is_valid(event)
  PROVE  from_proto(Message(event)) = {event}
<1>1. event.payload \in MetricPayload
  BY DEF TelemetryEvent
<1>2. HasPayload(Message(event))
  BY <1>1, PayloadRoundTrip DEF HasPayload, Message
<1>3. Event(Message(event)) = event
  <2>1. Payload(Message(event).payload) = event.payload
    BY <1>1, PayloadRoundTrip DEF Message
  <2> QED
    BY <2>1 DEF Event, Message, TelemetryEvent
<1> QED
  BY <1>2, <1>3 DEF from_proto

\* Nothing but valid events comes out of from_proto.
LEMMA ReadIsValid ==
  ASSUME NEW message, NEW event \in from_proto(message)
  PROVE  is_valid(event) /\ event = Event(message)
BY DEF from_proto

-----------------------------------------------------------------------------
(* The inductive invariant *)

Results == [accepted : BOOLEAN, event_id : Text]
CallsTyped ==
  call \in [Callers -> [state : {"new", "waiting", "returned"},
                        event : SUBSET TelemetryEvent(Payloads),
                        result : SUBSET Results]]

\* Before submit() is called there is no event, and so nothing of it anywhere.
NewIsUntouched == \A c \in Callers : call[c].state = "new" => call[c].event = {}

\* A request of the Agent is the message of its event.
RequestsTrue ==
  \A request \in requests \cup handling :
    /\ request.from \in Callers \cup {Strangers}
    /\ request.from \in Callers => \E event \in call[request.from].event :
         is_valid(event) /\ request.message = Message(event)

\* A reply OK is about the event of its caller, and that event is in the journal.
RepliesTrue ==
  \A reply \in replies :
    /\ reply.from \in Callers
    /\ reply.event_id \in Text /\ reply.ok \in BOOLEAN
    /\ reply.ok => \E event \in call[reply.from].event :
                     /\ [from |-> reply.from, event |-> event] \in journal
                     /\ reply.event_id = event.id

Inv ==
  /\ CallsTyped /\ NewIsUntouched /\ RequestsTrue /\ RepliesTrue
  /\ JournalIsClean /\ AcceptedIsTrue

\* submit() returns a result; a refusal does not look accepted, an acceptance
\* has the id it was made with.
LEMMA ResultType ==
  ASSUME NEW id \in Text
  PROVE  /\ SubmitResult(TRUE, id) \in SUBSET Results
         /\ SubmitResult(FALSE, id) \in SUBSET Results
         /\ \A result \in SubmitResult(TRUE, id) : result.event_id = id
         /\ \A result \in SubmitResult(FALSE, id) : ~result.accepted
<1>1. [accepted |-> TRUE, event_id |-> id] \in Results
  BY DEF Results
<1>2. [accepted |-> FALSE, event_id |-> id] \in Results
  BY DEF Results
<1>3. [accepted |-> TRUE, event_id |-> id].event_id = id
  OBVIOUS
<1>4. ~[accepted |-> FALSE, event_id |-> id].accepted
  OBVIOUS
<1> QED
  BY <1>1, <1>2, <1>3, <1>4, Zenon DEF SubmitResult

\* What every failure returns.
Refusal == SubmitResult(FALSE, "")

LEMMA RefusalType == Refusal \in SUBSET Results /\ \A result \in Refusal : ~result.accepted
<1>1. "" \in Text
  BY DEF Text
<1> QED
  BY <1>1, ResultType, Zenon DEF Refusal

\* Init establishes the invariant: nothing is under way.
LEMMA InitInv == Init => Inv
<1> SUFFICES ASSUME Init PROVE Inv
  OBVIOUS
<1>1. CallsTyped /\ NewIsUntouched
  BY DEF Init, CallsTyped, NewIsUntouched, Pending
<1>2. RequestsTrue /\ RepliesTrue /\ JournalIsClean
  BY DEF Init, RequestsTrue, RepliesTrue, JournalIsClean
<1>3. AcceptedIsTrue
  BY DEF Init, AcceptedIsTrue, Pending
<1> QED
  BY <1>1, <1>2, <1>3 DEF Inv

\* A caller's step gives back no event that was there before: only a call that
\* is new gets one.  Then what was true of requests and journal still is.
LEMMA EventsStay ==
  ASSUME Inv, NEW c \in Callers, Submit(c)
  PROVE  /\ CallsTyped' /\ NewIsUntouched'
         /\ \A d \in Callers : call[d].event \subseteq call'[d].event
         /\ \A d \in Callers : call'[d].result = call[d].result
                                 \/ \A result \in call'[d].result : ~result.accepted
         /\ \A request \in requests' \ requests :
              request.from = c /\ \E event \in call'[c].event :
                is_valid(event) /\ request.message = Message(event)
<1> USE DEF Inv, CallsTyped, NewIsUntouched
<1>1. PICK event \in TelemetryEvent(Payloads) : LET message == to_proto(event) IN
         /\ call' = [call EXCEPT ![c].event = IF message = {} THEN {} ELSE {event},
                       ![c].state = IF message = {} THEN "returned" ELSE "waiting",
                       ![c].result = IF message = {} THEN Refusal ELSE {}]
         /\ requests' = requests \cup {[from |-> c, message |-> m] : m \in message}
  BY Zenon DEF Submit, Refusal
<1>2. call[c].event = {} /\ call[c].state = "new"
  BY DEF Submit
<1>3. \A d \in Callers : d # c => call'[d] = call[d]
  BY <1>1
<1>5. CASE is_valid(event)
  <2>1. to_proto(event) = {Message(event)} /\ to_proto(event) # {}
    BY <1>5 DEF to_proto
  <2>2. call' = [call EXCEPT ![c].event = {event}, ![c].state = "waiting", ![c].result = {}]
        /\ requests' = requests \cup {[from |-> c, message |-> Message(event)]}
    BY <1>1, <2>1
  <2>3. call'[c] = [state |-> "waiting", event |-> {event}, result |-> {}]
    BY <2>2
  <2> QED
    BY <1>2, <1>3, <1>5, <2>2, <2>3
<1>6. CASE ~is_valid(event)
  <2>1. to_proto(event) = {}
    BY <1>6 DEF to_proto
  <2>2. call' = [call EXCEPT ![c].event = {}, ![c].state = "returned",
                             ![c].result = Refusal]
        /\ requests' = requests
    BY <1>1, <2>1
  <2>3. call'[c] = [state |-> "returned", event |-> {}, result |-> Refusal]
    BY <2>2
  <2>4. CallsTyped' /\ NewIsUntouched'
    BY <1>2, <2>2, RefusalType
  <2>5. \A d \in Callers : call'[d].result = call[d].result
                           \/ \A result \in call'[d].result : ~result.accepted
    BY <1>3, <2>3, RefusalType
  <2> QED
    BY <1>2, <1>3, <2>2, <2>3, <2>4, <2>5
<1> QED
  BY <1>5, <1>6

\* A return leaves the events alone.
LEMMA ReturnsType ==
  ASSUME Inv, NEW c \in Callers, NEW result \in SUBSET Results, Returns(c, result)
  PROVE  /\ CallsTyped' /\ NewIsUntouched'
         /\ \A d \in Callers : call'[d].event = call[d].event
         /\ \A d \in Callers : d # c => call'[d].result = call[d].result
         /\ call'[c].result = result
BY DEF Inv, CallsTyped, NewIsUntouched, Returns

\* Every step keeps the invariant.
LEMMA NextInv == Inv /\ [Next]_vars => Inv'
<1> SUFFICES ASSUME Inv, [Next]_vars PROVE Inv'
  OBVIOUS
<1> USE DEF Inv
<1>1. CASE UNCHANGED <<call, wire>>
  <2>1. UNCHANGED <<call, requests, handling, replies, journal>>
    BY <1>1 DEF wire
  <2>2. CallsTyped' /\ NewIsUntouched' /\ RequestsTrue'
    BY <2>1 DEF CallsTyped, NewIsUntouched, RequestsTrue
  <2>3. RepliesTrue' /\ JournalIsClean' /\ AcceptedIsTrue'
    BY <2>1 DEF RepliesTrue, JournalIsClean, AcceptedIsTrue
  <2> QED
    BY <2>2, <2>3
<1>2. ASSUME NEW c \in Callers, Submit(c) PROVE Inv'
  <2>1. UNCHANGED <<handling, replies, journal>>
    BY <1>2 DEF Submit
  <2>2. CallsTyped' /\ NewIsUntouched'
    BY <1>2, EventsStay
  <2>3. \A d \in Callers : call[d].event \subseteq call'[d].event
    BY <1>2, EventsStay
  <2>4. RequestsTrue'
    <3> SUFFICES ASSUME NEW request \in requests' \cup handling'
                 PROVE  /\ request.from \in Callers \cup {Strangers}
                        /\ request.from \in Callers => \E event \in call'[request.from].event :
                             is_valid(event) /\ request.message = Message(event)
      BY DEF RequestsTrue
    <3>1. CASE request \in requests \cup handling
      BY <3>1, <2>3 DEF RequestsTrue
    <3>2. CASE request \in requests' \ requests
      <4>1. request.from = c /\ \E event \in call'[c].event :
              is_valid(event) /\ request.message = Message(event)
        BY <3>2, <1>2, EventsStay
      <4> QED
        BY <4>1
    <3> QED
      BY <3>1, <3>2, <2>1
  <2>5. RepliesTrue'
    BY <2>1, <2>3 DEF RepliesTrue
  <2>6. JournalIsClean'
    BY <2>1, <2>3 DEF JournalIsClean
  <2>7. AcceptedIsTrue'
    <3> SUFFICES ASSUME NEW d \in Callers, NEW result \in call'[d].result, result.accepted
                 PROVE  \E event \in call'[d].event :
                          /\ [from |-> d, event |-> event] \in journal'
                          /\ result.event_id = event.id
      BY DEF AcceptedIsTrue
    <3>1. result \in call[d].result
      BY <1>2, EventsStay
    <3> QED
      BY <3>1, <2>1, <2>3 DEF AcceptedIsTrue
  <2> QED
    BY <2>2, <2>4, <2>5, <2>6, <2>7
<1>3. ASSUME NEW c \in Callers, ReplyArrives(c) PROVE Inv'
  <2>1. PICK reply \in replies :
          reply.from = c /\ Returns(c, ResultOf(reply)) /\ replies' = replies \ {reply}
    BY <1>3 DEF ReplyArrives
  <2>2. UNCHANGED <<requests, handling, journal>>
    BY <1>3 DEF ReplyArrives
  <2>3. /\ ResultOf(reply) \in SUBSET Results
        /\ \A result \in ResultOf(reply) :
             result.accepted => reply.ok /\ result.event_id = reply.event_id
    <3>1. reply.event_id \in Text /\ "" \in Text
      BY <2>1 DEF RepliesTrue, Text
    <3>2. CASE reply.ok /\ reply.event_id # ""
      <4>1. ResultOf(reply) = SubmitResult(TRUE, reply.event_id)
        BY <3>2 DEF ResultOf
      <4> QED
        BY <3>1, <3>2, <4>1, ResultType
    <3>3. CASE ~(reply.ok /\ reply.event_id # "")
      <4>1. ResultOf(reply) = Refusal
        BY <3>3, Zenon DEF ResultOf, Refusal
      <4> QED
        BY <4>1, RefusalType
    <3> QED
      BY <3>2, <3>3
  <2>4. /\ CallsTyped' /\ NewIsUntouched'
        /\ \A d \in Callers : call'[d].event = call[d].event
        /\ \A d \in Callers : d # c => call'[d].result = call[d].result
        /\ call'[c].result = ResultOf(reply)
    BY <2>1, <2>3, ReturnsType
  <2>5. RequestsTrue'
    BY <2>2, <2>4 DEF RequestsTrue
  <2>6. RepliesTrue'
    BY <2>1, <2>2, <2>4 DEF RepliesTrue
  <2>7. JournalIsClean'
    BY <2>2, <2>4 DEF JournalIsClean
  <2>8. AcceptedIsTrue'
    <3> SUFFICES ASSUME NEW d \in Callers, NEW result \in call'[d].result, result.accepted
                 PROVE  \E event \in call'[d].event :
                          /\ [from |-> d, event |-> event] \in journal'
                          /\ result.event_id = event.id
      BY DEF AcceptedIsTrue
    <3>1. CASE d # c
      BY <3>1, <2>2, <2>4 DEF AcceptedIsTrue
    <3>2. CASE d = c
      <4>1. reply.ok /\ result.event_id = reply.event_id
        BY <3>2, <2>3, <2>4
      <4> QED
        BY <4>1, <3>2, <2>1, <2>2, <2>4 DEF RepliesTrue
    <3> QED
      BY <3>1, <3>2
  <2> QED
    BY <2>4, <2>5, <2>6, <2>7, <2>8
<1>4. ASSUME NEW c \in Callers, CallFails(c) PROVE Inv'
  <2>1. UNCHANGED wire /\ Returns(c, Refusal)
    BY <1>4, Zenon DEF CallFails, Refusal
  <2>2. Refusal \in SUBSET Results
        /\ \A result \in Refusal : ~result.accepted
    BY RefusalType
  <2>3. /\ CallsTyped' /\ NewIsUntouched'
        /\ \A d \in Callers : call'[d].event = call[d].event
        /\ \A d \in Callers : d # c => call'[d].result = call[d].result
        /\ call'[c].result = Refusal
    BY <2>1, <2>2, ReturnsType
  <2>4. RequestsTrue' /\ RepliesTrue' /\ JournalIsClean'
    BY <2>1, <2>3 DEF wire, RequestsTrue, RepliesTrue, JournalIsClean
  <2>5. AcceptedIsTrue'
    BY <2>1, <2>2, <2>3 DEF wire, AcceptedIsTrue
  <2> QED
    BY <2>3, <2>4, <2>5
<1>5. CASE StrangerSends
  <2>1. PICK message \in Foreign :
          requests' = requests \cup {[from |-> Strangers, message |-> message]}
    BY <1>5 DEF StrangerSends
  <2>2. UNCHANGED <<call, handling, replies, journal>>
    BY <1>5 DEF StrangerSends
  <2>3. RequestsTrue'
    BY <2>1, <2>2, CallersAssumption DEF RequestsTrue
  <2>4. CallsTyped' /\ NewIsUntouched'
    BY <2>2 DEF CallsTyped, NewIsUntouched
  <2>5. RepliesTrue' /\ JournalIsClean' /\ AcceptedIsTrue'
    BY <2>2 DEF RepliesTrue, JournalIsClean, AcceptedIsTrue
  <2> QED
    BY <2>3, <2>4, <2>5
<1>6. CASE CallBegins
  <2>1. UNCHANGED <<call, replies, journal>>
        /\ requests' \cup handling' = requests \cup handling
    BY <1>6 DEF CallBegins
  <2> QED
    BY SMTT(30), <2>1 DEF CallsTyped, NewIsUntouched, RequestsTrue, RepliesTrue, JournalIsClean,
                AcceptedIsTrue
<1>7. CASE SubmitTelemetry
  <2>1. PICK request \in handling :
       /\ handling' = handling \ {request}
       /\ replies' = IF request.from = Strangers THEN replies
                     ELSE replies \cup {AnswerOf(request)}
       /\ journal' = journal \cup {[from |-> request.from, event |-> event] :
                                     event \in from_proto(request.message)}
    BY <1>7 DEF SubmitTelemetry
  <2>2. UNCHANGED <<call, requests>>
    BY <1>7 DEF SubmitTelemetry
  <2>3. ASSUME request.from \in Callers
        PROVE  \E event \in call[request.from].event :
                 /\ event.id \in Text /\ is_valid(event)
                 /\ request.message.event_id = event.id
                 /\ from_proto(request.message) = {event}
    <3>1. PICK event \in call[request.from].event :
            is_valid(event) /\ request.message = Message(event)
      BY <2>3 DEF RequestsTrue
    <3>2. event \in TelemetryEvent(MetricPayload) /\ event.id \in Text
      BY <3>1, <2>3, PayloadsAssumption DEF CallsTyped, TelemetryEvent
    <3> QED
      BY <3>1, <3>2, RoundTrip DEF Message
  <2>4. RequestsTrue'
    BY <2>1, <2>2 DEF RequestsTrue
  <2>5. RepliesTrue'
    <3> SUFFICES ASSUME NEW reply \in replies'
                 PROVE  /\ reply.from \in Callers
                        /\ reply.event_id \in Text /\ reply.ok \in BOOLEAN
                        /\ reply.ok => \E event \in call[reply.from].event :
                             /\ [from |-> reply.from, event |-> event] \in journal'
                             /\ reply.event_id = event.id
      BY <2>2 DEF RepliesTrue
    <3>1. CASE reply \in replies
      BY <3>1, <2>1, <2>2 DEF RepliesTrue
    <3>2. CASE request.from \in Callers /\ reply = AnswerOf(request)
      <4>1. PICK event \in call[request.from].event :
                 /\ event.id \in Text /\ is_valid(event)
                 /\ request.message.event_id = event.id
                 /\ from_proto(request.message) = {event}
        BY <3>2, <2>3
      <4>2. reply.from = request.from /\ reply.ok = TRUE /\ reply.event_id = event.id
        BY <3>2, <4>1 DEF AnswerOf
      <4>3. [from |-> request.from, event |-> event] \in journal'
        BY <4>1, <2>1
      <4> QED
        BY <4>1, <4>2, <4>3, <3>2
    <3> QED
      BY <3>1, <3>2, <2>1 DEF RequestsTrue
  <2>6. JournalIsClean'
    <3> SUFFICES ASSUME NEW entry \in journal'
                 PROVE  /\ is_valid(entry.event)
                        /\ entry.from \in Callers => entry.event \in call[entry.from].event
      BY <2>2 DEF JournalIsClean
    <3>1. CASE entry \in journal
      BY <3>1 DEF JournalIsClean
    <3>2. CASE entry \notin journal
      <4>1. PICK event \in from_proto(request.message) :
              entry = [from |-> request.from, event |-> event]
        BY <3>2, <2>1
      <4>2. is_valid(event)
        BY <4>1, ReadIsValid
      <4> QED
        BY <4>1, <4>2, <2>3
    <3> QED
      BY <3>1, <3>2
  <2>7. CallsTyped' /\ NewIsUntouched' /\ AcceptedIsTrue'
    BY <2>1, <2>2 DEF CallsTyped, NewIsUntouched, AcceptedIsTrue
  <2> QED
    BY <2>4, <2>5, <2>6, <2>7
<1>8. CASE MainStep \/ Signal
  BY <1>8, <1>1 DEF MainStep, Signal, HelpOrVersion, TakesAddress, WrongArgument, BuildAndStart,
     BindFails, InstallHandlers, Shutdown, WaitReturns, Exit
<1> QED
  BY <1>1, <1>2, <1>3, <1>4, <1>5, <1>6, <1>7, <1>8 DEF Next, vars

-----------------------------------------------------------------------------
(* The theorems *)

\* Every reachable state satisfies the inductive invariant.
THEOREM InvariantHolds == Spec => []Inv
BY InitInv, NextInv, PTL DEF Spec

\* A submission that returned "accepted" is one the server put into its journal,
\* with the very event and id, whatever was lost, late or sent by others.
THEOREM AcceptedIsInJournal == Spec => []AcceptedIsTrue
<1>1. Inv => AcceptedIsTrue
  BY DEF Inv
<1> QED
  BY <1>1, InvariantHolds, PTL

\* The journal holds valid events only, and of the Agent's callers only what
\* they submitted.
THEOREM OnlyValidEvents == Spec => []JournalIsClean
<1>1. Inv => JournalIsClean
  BY DEF Inv
<1> QED
  BY <1>1, InvariantHolds, PTL
=============================================================================
