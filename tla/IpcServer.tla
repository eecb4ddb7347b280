------------------------------ MODULE IpcServer ------------------------------
(***************************************************************************)
(* The local IPC server of the Agent, agent/src/local_ipc_server.cpp.      *)
(*                                                                         *)
(* Three kinds of process meet on one Named Pipe:                          *)
(*   - the owner, the Agent's main thread, in start() and stop();          *)
(*   - the worker, the thread that executes run(), one client at a time;   *)
(*   - the clients: any local process that opens the pipe.                 *)
(*                                                                         *)
(* The pipe itself is external (the Windows kernel).  It carries bytes; a  *)
(* frame is here two pieces, its length prefix and its payload, so that    *)
(* reads and writes may stop between the two.                              *)
(***************************************************************************)
EXTENDS Naturals, Sequences, FiniteSets

CONSTANTS
  Clients,      \* local processes that may open the pipe
  Nobody,       \* the pipe has no client
  Waker,        \* the handle that wake_pipe_listener opens
  PipeSize,     \* pieces one direction of the pipe holds (pipe_buffer_size)
  MaxVersion,   \* bound: how often the snapshot store is written
  MaxAsked      \* bound: requests one client leaves unanswered

ASSUME ClientsAssumption == Nobody \notin Clients /\ Waker \notin Clients /\ Nobody # Waker
ASSUME PipeSizeAssumption == PipeSize \in Nat \ {0, 1}
ASSUME BoundsAssumption == MaxVersion \in Nat /\ MaxAsked \in Nat \ {0}

VARIABLES
  stopRequested,  \* m_stop_requested
  owner,          \* where the owner is inside stop(), or "idle"
  worker,         \* where the worker is inside run(); "none": not joinable
  cancelled,      \* CancelSynchronousIo hit the call the worker is blocked in
  pipe,           \* the pipe instance: absent, listening, open, broken
  peer,           \* the process at the other end
  rx, tx,         \* pieces on their way to the worker, to the client
  receiveBuffer,  \* receive_buffer: read and not yet decoded
  response,       \* the store's version inside the frame being written
  written,        \* total_written
  store,          \* the version LatestSnapshotStore holds; 0: empty
  asked           \* for each unanswered request, the version when it was sent

ownerVars  == <<stopRequested, owner>>
pipeVars   == <<pipe, peer, rx, tx, asked>>
answerVars == <<response, written>>
\* What no client can touch.
serverVars == <<ownerVars, worker, cancelled, receiveBuffer, answerVars, store>>
vars == <<stopRequested, owner, worker, cancelled, pipe, peer, rx, tx,
          receiveBuffer, response, written, store, asked>>

-----------------------------------------------------------------------------
(* Data *)

\* What a client can send: a request the server answers, a whole frame it
\* rejects (protobuf parse or protocol version), a length prefix it refuses.
Kinds == {"valid", "rejected", "badLength"}
Piece(part, kind) == [part |-> part, kind |-> kind]
Pieces == [part : {"header", "body"}, kind : Kinds]
\* The bad length prefix is a piece of its own.
RequestBytes(kind) ==
  IF kind = "badLength" THEN <<Piece("header", kind)>>
  ELSE <<Piece("header", kind), Piece("body", kind)>>

Reply(part, version) == [part |-> part, version |-> version]
Replies == [part : {"header", "body"}, version : 0 .. MaxVersion]
ResponseFrame(version) == <<Reply("header", version), Reply("body", version)>>
FrameSize == 2

OwnerStates == {"idle", "wake", "closeWake", "cancel", "join"}
\* The worker owns a pipe instance exactly in ServingStates.
WaitingStates == {"connect", "connecting"}
ReadStates    == {"readTest", "read", "reading", "decode"}
WriteStates   == {"writeTest", "write", "writing"}
ServingStates == WaitingStates \cup ReadStates \cup WriteStates \cup {"close", "closeLast"}
WorkerStates  == ServingStates \cup {"none", "starting", "failed", "loop", "create", "done"}

TypeOK ==
  /\ stopRequested \in BOOLEAN
  /\ owner \in OwnerStates
  /\ worker \in WorkerStates
  /\ cancelled \in BOOLEAN
  /\ pipe \in {"absent", "listening", "open", "broken"}
  /\ peer \in Clients \cup {Nobody, Waker}
  /\ rx \in Seq(Pieces) /\ Len(rx) <= PipeSize
  /\ tx \in Seq(Replies) /\ Len(tx) <= PipeSize
  /\ receiveBuffer \in Seq(Pieces)
  /\ response \in 0 .. MaxVersion
  /\ written \in 0 .. FrameSize
  /\ store \in 0 .. MaxVersion
  /\ asked \in Seq(0 .. MaxVersion)

Init ==
  /\ stopRequested = FALSE
  /\ owner = "idle"
  /\ worker = "none"
  /\ cancelled = FALSE
  /\ pipe = "absent"
  /\ peer = Nobody
  /\ rx = <<>> /\ tx = <<>>
  /\ receiveBuffer = <<>>
  /\ response = 0
  /\ written = 0
  /\ store = 0
  /\ asked = <<>>

-----------------------------------------------------------------------------
(* The owner: start() and stop() *)

\* A second start() finds the thread joinable and changes nothing.
Start ==
  /\ owner = "idle" /\ worker = "none"
  /\ stopRequested' = FALSE
  /\ worker' = "starting"
  /\ UNCHANGED <<owner, cancelled, pipeVars, receiveBuffer, answerVars, store>>

StopCall ==
  /\ owner = "idle"
  /\ stopRequested' = TRUE
  /\ owner' = IF worker = "none" THEN "idle" ELSE "wake"
  /\ UNCHANGED <<worker, cancelled, pipeVars, receiveBuffer, answerVars, store>>

\* CreateFileW succeeds only while an instance waits for a client: it finds
\* no pipe before CreateNamedPipeW and a busy one afterwards.
Wake ==
  /\ owner = "wake"
  /\ \/ /\ pipe = "listening"
        /\ pipe' = "open" /\ peer' = Waker /\ owner' = "closeWake"
     \/ /\ pipe # "listening"
        /\ owner' = "cancel" /\ UNCHANGED <<pipe, peer>>
  /\ UNCHANGED <<stopRequested, worker, cancelled, rx, tx, asked, receiveBuffer,
                 answerVars, store>>

CloseWake ==
  /\ owner = "closeWake"
  /\ owner' = "cancel"
  /\ pipe' = IF peer = Waker THEN "broken" ELSE pipe
  /\ UNCHANGED <<stopRequested, worker, cancelled, peer, rx, tx, asked,
                 receiveBuffer, answerVars, store>>

\* The blocking call the worker is inside of has something to return.
IoDone ==
  /\ worker = "connecting" => pipe # "listening"
  /\ worker = "reading" => rx # <<>> \/ pipe = "broken"
  /\ worker = "writing" => Len(tx) < PipeSize \/ pipe = "broken"

JoinWithoutCancel ==
  /\ owner = "cancel"
  /\ owner' = "join"
  /\ UNCHANGED <<stopRequested, worker, cancelled, pipeVars, receiveBuffer, answerVars, store>>

\* CancelSynchronousIo cancels the call in progress; with none in progress
\* it fails, the result is discarded and a later call is not affected.
Cancel ==
  /\ owner = "cancel"
  /\ owner' = "join"
  /\ cancelled' = ~IoDone
  /\ UNCHANGED <<stopRequested, worker, pipeVars, receiveBuffer, answerVars, store>>

Join ==
  /\ owner = "join"
  /\ worker \in {"done", "failed"}
  /\ owner' = "idle"
  /\ worker' = "none"
  /\ UNCHANGED <<stopRequested, cancelled, pipeVars, receiveBuffer, answerVars, store>>

-----------------------------------------------------------------------------
(* The worker: run() *)

\* A step that moves the worker and changes nothing else.
Goes(from, places) ==
  /\ worker = from
  /\ worker' \in places
  /\ UNCHANGED <<ownerVars, cancelled, pipeVars, receiveBuffer, answerVars, store>>

\* Without a security descriptor run() returns; the thread stays joinable.
SecurityDescriptor == Goes("starting", {"loop", "failed"})

LoopTest == Goes("loop", {IF stopRequested THEN "done" ELSE "create"})

CreateNamedPipe ==
  /\ worker = "create"
  /\ pipe' = "listening"
  /\ worker' = "connect"
  /\ UNCHANGED <<ownerVars, cancelled, peer, rx, tx, asked, receiveBuffer,
                 answerVars, store>>

\* Another process holds the name: sleep 250 ms, unless stopped, and retry.
CreateNamedPipeFails == Goes("create", {"loop"})

ConnectNamedPipe == Goes("connect", {"connecting"})

\* A client that has already gone again may or may not count as connected.
ConnectReturns ==
  /\ worker = "connecting"
  /\ IoDone \/ cancelled
  /\ \E connected \in BOOLEAN :
       /\ pipe = "open" /\ ~cancelled => connected
       /\ cancelled => ~connected
       /\ worker' = CASE stopRequested -> "closeLast"
                      [] ~stopRequested /\ connected -> "readTest"
                      [] OTHER -> "close"
  /\ cancelled' = FALSE
  /\ UNCHANGED <<ownerVars, pipeVars, receiveBuffer, answerVars, store>>

ReadTest == Goes("readTest", {IF stopRequested THEN "close" ELSE "read"})

ReadFile == Goes("read", {"reading"})

\* A failed or empty read ends the connection.
RetryRead == "readTest"
AfterFailedRead == "close"

\* Whatever is readable is delivered before the end of the stream is.
ReadReturns ==
  /\ worker = "reading"
  /\ \/ \E n \in 1 .. Len(rx) :
          /\ ~cancelled
          /\ receiveBuffer' = receiveBuffer \o SubSeq(rx, 1, n)
          /\ rx' = SubSeq(rx, n + 1, Len(rx))
          /\ worker' = "decode"
     \/ /\ cancelled \/ (rx = <<>> /\ pipe = "broken")
        /\ worker' = AfterFailedRead
        /\ UNCHANGED <<receiveBuffer, rx>>
  /\ cancelled' = FALSE
  /\ UNCHANGED <<ownerVars, pipe, peer, tx, asked, answerVars, store>>

\* try_decode_frame on the received bytes: a length prefix is judged on its
\* own, a payload only when it is complete.
FrameStatus(buffer) ==
  CASE buffer = <<>>                  -> "incomplete"
    [] buffer # <<>> /\ buffer[1].kind = "badLength" -> "invalidLength"
    [] Len(buffer) = 1 /\ buffer[1].kind # "badLength" -> "incomplete"
    [] OTHER -> IF buffer[1] = Piece("header", "valid")
                   /\ buffer[2] = Piece("body", "valid")
                THEN "request" ELSE "rejected"

EraseAll(buffer) == <<>>
Erase(buffer) == SubSeq(buffer, FrameSize + 1, Len(buffer))

\* make_response takes the store's snapshot once per request.
CachedSnapshot == IF written = FrameSize THEN response ELSE store
Snapshot == store

\* The decode loop: one frame, then process_request up to make_response.
Decode ==
  /\ worker = "decode"
  /\ LET status == FrameStatus(receiveBuffer) IN
       /\ worker' = CASE status = "incomplete" -> "readTest"
                      [] status = "request" -> "writeTest"
                      [] OTHER -> "close"
       /\ receiveBuffer' = IF status \in {"request", "rejected"}
                           THEN Erase(receiveBuffer) ELSE receiveBuffer
       /\ response' = IF status = "request" THEN Snapshot ELSE response
       /\ written' = IF status = "request" THEN 0 ELSE written
  /\ UNCHANGED <<ownerVars, cancelled, pipeVars, store>>

\* write_all has sent the frame; the decode loop goes on with the rest of the
\* buffer before the next read.
AnySent(total) == total > 0
FrameSent(total) == total = FrameSize
ReadBeforeNextFrame == "readTest"
AfterResponse == "decode"

\* The test of write_all's loop, and what its result makes of the connection.
WriteTest ==
  /\ worker = "writeTest"
  /\ worker' = CASE FrameSent(written) -> AfterResponse
                 [] ~FrameSent(written) /\ stopRequested -> "close"
                 [] OTHER -> "write"
  /\ UNCHANGED <<ownerVars, cancelled, pipeVars, receiveBuffer, answerVars, store>>

WriteFile == Goes("write", {"writing"})

\* total_written += bytes_written
AddWritten(total, n) == total + n

\* WriteFile may accept part of what is left.
WriteReturns ==
  /\ worker = "writing"
  /\ \/ /\ pipe = "open" /\ ~cancelled
        /\ \E n \in 1 .. FrameSize - written :
             /\ Len(tx) + n <= PipeSize
             /\ tx' = tx \o SubSeq(ResponseFrame(response), written + 1, written + n)
             /\ written' = AddWritten(written, n)
        /\ worker' = "writeTest"
     \/ /\ pipe = "broken" \/ cancelled
        /\ worker' = "close"
        /\ UNCHANGED <<tx, written>>
  /\ cancelled' = FALSE
  /\ UNCHANGED <<ownerVars, pipe, peer, rx, asked, receiveBuffer, response, store>>

\* DisconnectNamedPipe and CloseHandle discard what was not read; the
\* iteration's receive_buffer goes out of scope.
ClosePipe(next) ==
  /\ pipe' = "absent" /\ peer' = Nobody
  /\ rx' = <<>> /\ tx' = <<>> /\ asked' = <<>>
  /\ receiveBuffer' = <<>>
  /\ response' = 0 /\ written' = 0
  /\ worker' = next

ReturnAfterClient ==
  /\ worker = "close"
  /\ ClosePipe("done")
  /\ UNCHANGED <<ownerVars, cancelled, store>>

Close ==
  /\ worker = "close"
  /\ ClosePipe("loop")
  /\ UNCHANGED <<ownerVars, cancelled, store>>

\* The break taken after ConnectNamedPipe returns to a stopped server.
BreakWithoutClosing ==
  /\ worker = "closeLast"
  /\ worker' = "done"
  /\ UNCHANGED <<ownerVars, cancelled, pipeVars, receiveBuffer, answerVars, store>>

CloseLast ==
  /\ worker = "closeLast"
  /\ ClosePipe("done")
  /\ UNCHANGED <<ownerVars, cancelled, store>>

-----------------------------------------------------------------------------
(* The clients, and the thread that writes the store *)

Connect(c) ==
  /\ pipe = "listening"
  /\ pipe' = "open" /\ peer' = c
  /\ UNCHANGED <<serverVars, rx, tx, asked>>

Send(c, kind) ==
  /\ pipe = "open" /\ peer = c
  /\ Len(rx) + FrameSize <= PipeSize
  /\ Len(asked) < MaxAsked
  /\ rx' = rx \o RequestBytes(kind)
  /\ asked' = IF kind = "valid" THEN Append(asked, store) ELSE asked
  /\ UNCHANGED <<serverVars, pipe, peer, tx>>

\* Closing the client's handle loses what it has not read; what it wrote can
\* still be read by the server.
Hangup(c) ==
  /\ pipe = "open" /\ peer = c
  /\ pipe' = "broken"
  /\ tx' = <<>> /\ asked' = <<>>
  /\ UNCHANGED <<serverVars, peer, rx>>

\* The client dies between the two pieces of a frame.
CrashMidFrame(c) ==
  /\ pipe = "open" /\ peer = c
  /\ Len(rx) < PipeSize
  /\ rx' = Append(rx, Piece("header", "valid"))
  /\ pipe' = "broken"
  /\ tx' = <<>> /\ asked' = <<>>
  /\ UNCHANGED <<serverVars, peer>>

Receive(c) ==
  /\ pipe = "open" /\ peer = c
  /\ tx # <<>>
  /\ tx' = Tail(tx)
  /\ asked' = IF Head(tx).part = "body" /\ asked # <<>> THEN Tail(asked) ELSE asked
  /\ UNCHANGED <<serverVars, pipe, peer, rx>>

\* LatestSnapshotStore::update, from the telemetry thread.
StoreUpdate ==
  /\ store < MaxVersion
  /\ store' = store + 1
  /\ UNCHANGED <<ownerVars, worker, cancelled, pipeVars, receiveBuffer, answerVars>>

-----------------------------------------------------------------------------
OwnerStep == Wake \/ CloseWake \/ Cancel \/ Join

WorkerStep ==
  \/ SecurityDescriptor \/ LoopTest \/ CreateNamedPipe \/ CreateNamedPipeFails
  \/ ConnectNamedPipe \/ ConnectReturns
  \/ ReadTest \/ ReadFile \/ ReadReturns \/ Decode
  \/ WriteTest \/ WriteFile \/ WriteReturns \/ Close \/ CloseLast

ClientStep(c) ==
  \/ Connect(c) \/ Hangup(c) \/ CrashMidFrame(c) \/ Receive(c)
  \/ \E kind \in Kinds : Send(c, kind)

Next ==
  \/ Start \/ StopCall \/ OwnerStep
  \/ WorkerStep
  \/ \E c \in Clients : ClientStep(c)
  \/ StoreUpdate

Spec == Init /\ [][Next]_vars

\* The operating system runs both threads of the Agent, and the pipe's name
\* is not taken for ever.  Nothing is asked of any client.
ServerFairness ==
  /\ WF_vars(OwnerStep)
  /\ WF_vars(WorkerStep)
  /\ SF_vars(CreateNamedPipe)
ServerSpec == Spec /\ ServerFairness

-----------------------------------------------------------------------------
(* Properties *)

\* A request and an answer count when their payload does.
Requests == {Piece("body", "valid")}
Answers == {reply \in Replies : reply.part = "body"}
NumberOf(pieces, wanted) == Cardinality({i \in DOMAIN pieces : pieces[i] \in wanted})
Answering == worker \in WriteStates /\ written < FrameSize

\* The worker holds a pipe instance exactly while it serves: no path out of an
\* iteration of run() (lines 357-372, 443-444) leaks the handle, with which
\* FILE_FLAG_FIRST_PIPE_INSTANCE would make every later CreateNamedPipeW fail,
\* and once stop() has returned no client can be connected.
OneInstance == (pipe # "absent") <=> (worker \in ServingStates)

\* Whatever clients send and however they disconnect, they do not end the
\* worker: run() leaves its loop only for stop() (lines 320, 357-363).
WorkerOutlivesClients == worker = "done" => stopRequested

\* Until the connection is being closed, every request of the connected
\* client is exactly one of: unread or undecoded, being answered, or answered
\* in the pipe - over any split of frames into reads and writes, and with
\* bytes of an earlier client, whole or cut, never counted in (lines 376-441).
RequestsConserved ==
  pipe = "open" /\ worker \notin {"close", "closeLast"} =>
    Len(asked) = NumberOf(receiveBuffer \o rx, Requests) + NumberOf(tx, Answers)
                   + (IF Answering THEN 1 ELSE 0)

\* The worker waits for bytes only when what it has read holds no complete
\* frame: a client whose request came in together with another one is never
\* left waiting for a worker that waits for the client (lines 379-441).
ReadsWhenDecoded ==
  worker \in {"readTest", "read", "reading"} => FrameStatus(receiveBuffer) = "incomplete"

\* No answer holds a snapshot older than the store's was when its request was
\* sent: make_response reads the store per request (lines 80-85, 242).
AnswersAreFresh ==
  pipe = "open" /\ worker \notin {"close", "closeLast"} =>
    /\ \A i \in DOMAIN tx :
         tx[i] \in Answers =>
           tx[i].version >= asked[NumberOf(SubSeq(tx, 1, i), Answers)]
    /\ Answering => response >= asked[NumberOf(tx, Answers) + 1]

\* The client's stream is made of whole responses: a length prefix is
\* followed by its own payload, and it may stand last only while write_all is
\* between two writes, or was abandoned and the connection is closing.
WholeFrames ==
  \A i \in 1 .. Len(tx) :
    IF i < Len(tx)
    THEN tx[i + 1].part # tx[i].part
           /\ (tx[i].part = "header" => tx[i + 1].version = tx[i].version)
    ELSE tx[i].part = "header" =>
           written = 1 /\ response = tx[i].version /\ worker \in WriteStates \cup {"close"}

\* A client that vanishes is followed by a new listening instance, unless the
\* server is being stopped (lines 393-413, 443-448, then 320-355).
ServesNextClient == pipe = "broken" ~> pipe = "listening" \/ stopRequested

\* A worker that is already blocked when stop() begins, whatever by - no
\* client, one that sends nothing, one that never reads - is freed and joined:
\* what is left of the lost wake-up is the gap before the call (lines 293-304).
StopEndsBlockedCall ==
  owner = "wake" /\ worker \in {"connecting", "reading", "writing"} ~> owner = "idle"

\* stop() returns (docs/tasks/IPC-001.md:174: the server "stops waiting and
\* joins the thread when the Agent stops").
StopReturns == owner = "wake" ~> owner = "idle"
=============================================================================
