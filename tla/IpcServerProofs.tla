--------------------------- MODULE IpcServerProofs ---------------------------
(***************************************************************************)
(* What holds of the local IPC server for every set of clients and every   *)
(* size of the pipe: who owns the instance, what the decode loop leaves,   *)
(* that responses reach the pipe whole, and that requests and answers stay *)
(* in balance.                                                             *)
(*                                                                         *)
(* The balance counts positions in sequences.  CountConcat carries it: all *)
(* that a step does to a sequence is a concatenation, a cut or both.       *)
(***************************************************************************)
EXTENDS IpcServer, FiniteSetTheorems, SequenceTheorems, TLAPS

\* Pieces handed over a pipe keep their type: the prefix that a call
\* transfers and the rest that it leaves.
LEMMA PrefixAndRest ==
  ASSUME NEW S, NEW s \in Seq(S), NEW n \in 1 .. Len(s)
  PROVE  /\ SubSeq(s, 1, n) \in Seq(S)
         /\ SubSeq(s, n + 1, Len(s)) \in Seq(S)
         /\ Len(SubSeq(s, n + 1, Len(s))) <= Len(s)
<1>1. Len(s) \in Nat
  BY LenProperties
<1>2. SubSeq(s, 1, n) \in Seq(S)
  <2>1. \A i \in 1 .. n : s[i] \in S
    BY <1>1, ElementOfSeq
  <2> QED
    BY <2>1, <1>1, SubSeqProperties
<1>3. SubSeq(s, n + 1, Len(s)) \in Seq(S) /\ Len(SubSeq(s, n + 1, Len(s))) <= Len(s)
  <2>1. \A i \in n + 1 .. Len(s) : s[i] \in S
    BY <1>1, ElementOfSeq
  <2> QED
    BY <2>1, <1>1, SubSeqProperties
<1> QED
  BY <1>2, <1>3

\* Whatever a client sends is at most one frame of typed pieces.
LEMMA RequestBytesFit ==
  ASSUME NEW kind \in Kinds
  PROVE  RequestBytes(kind) \in Seq(Pieces) /\ Len(RequestBytes(kind)) <= 2
<1>1. Piece("header", kind) \in Pieces /\ Piece("body", kind) \in Pieces
  BY DEF Piece, Pieces
<1>2. CASE kind = "badLength"
  BY <1>1, <1>2 DEF RequestBytes
<1>3. CASE kind # "badLength"
  BY <1>1, <1>3 DEF RequestBytes
<1> QED
  BY <1>2, <1>3

-----------------------------------------------------------------------------
(* The inductive invariant *)

\* An absent pipe has no client: wake_pipe_listener's handle never outlives
\* the instance it opened.
PeerNeedsPipe == pipe = "absent" => peer = Nobody

\* The worker is past its loop, or bound to leave it, only in a stopped server.
LeavesOnlyWhenStopped == worker \in {"closeLast", "done"} => stopRequested

IInv == TypeOK /\ OneInstance /\ PeerNeedsPipe /\ LeavesOnlyWhenStopped

USE DEF ServingStates, WaitingStates, ReadStates, WriteStates, FrameSize

\* Init establishes the invariant.
LEMMA InitIInv == Init => IInv
<1> SUFFICES ASSUME Init PROVE IInv
  OBVIOUS
<1>1. rx \in Seq(Pieces) /\ Len(rx) <= PipeSize /\ tx \in Seq(Replies) /\ Len(tx) <= PipeSize
  <2>1. <<>> \in Seq(Pieces) /\ <<>> \in Seq(Replies) /\ Len(<<>>) = 0
    BY EmptySeq
  <2> QED
    BY <2>1, PipeSizeAssumption DEF Init
<1>2. receiveBuffer \in Seq(Pieces) /\ asked \in Seq(0 .. MaxVersion)
  BY EmptySeq DEF Init
<1>3. response \in 0 .. MaxVersion /\ written \in 0 .. FrameSize /\ store \in 0 .. MaxVersion
  BY BoundsAssumption DEF Init
<1>4. TypeOK
  BY <1>1, <1>2, <1>3 DEF Init, TypeOK, OwnerStates, WorkerStates
<1>5. OneInstance /\ PeerNeedsPipe /\ LeavesOnlyWhenStopped
  BY DEF Init, OneInstance, PeerNeedsPipe, LeavesOnlyWhenStopped
<1> QED
  BY <1>4, <1>5 DEF IInv

\* Steps that hand nothing over the pipe: only the two control states, the
\* flags and the state of the instance change.
LEMMA ControlSteps ==
  ASSUME IInv,
         \/ Start \/ StopCall \/ OwnerStep
         \/ SecurityDescriptor \/ LoopTest \/ CreateNamedPipe \/ CreateNamedPipeFails
         \/ ConnectNamedPipe \/ ConnectReturns \/ ReadTest \/ ReadFile
         \/ WriteTest \/ WriteFile
  PROVE  IInv'
<1> USE DEF IInv, TypeOK, OneInstance, PeerNeedsPipe, LeavesOnlyWhenStopped,
            OwnerStates, WorkerStates, ownerVars, pipeVars, answerVars
<1>1. CASE Start
  BY <1>1 DEF Start
<1>2. CASE StopCall
  BY <1>2 DEF StopCall
<1>3. CASE Wake
  BY <1>3 DEF Wake
<1>4. CASE CloseWake
  BY <1>4, ClientsAssumption DEF CloseWake
<1>5. CASE Cancel
  BY <1>5 DEF Cancel, IoDone
<1>6. CASE Join
  BY <1>6 DEF Join
<1>7. CASE SecurityDescriptor
  BY <1>7 DEF SecurityDescriptor, Goes
<1>8. CASE LoopTest
  BY <1>8 DEF LoopTest, Goes
<1>9. CASE CreateNamedPipe
  BY <1>9 DEF CreateNamedPipe
<1>10. CASE CreateNamedPipeFails
  BY <1>10 DEF CreateNamedPipeFails, Goes
<1>11. CASE ConnectNamedPipe
  BY <1>11 DEF ConnectNamedPipe, Goes
<1>12. CASE ConnectReturns
  BY <1>12 DEF ConnectReturns
<1>13. CASE ReadTest
  BY <1>13 DEF ReadTest, Goes
<1>14. CASE ReadFile
  BY <1>14 DEF ReadFile, Goes
<1>15. CASE WriteTest
  BY <1>15 DEF WriteTest, FrameSent, AfterResponse
<1>16. CASE WriteFile
  BY <1>16 DEF WriteFile, Goes
<1> QED
  BY <1>1, <1>2, <1>3, <1>4, <1>5, <1>6, <1>7, <1>8, <1>9, <1>10, <1>11, <1>12,
     <1>13, <1>14, <1>15, <1>16 DEF OwnerStep

\* A read moves a prefix of the pipe's pieces into receive_buffer.
LEMMA ReadStep == ASSUME IInv, ReadReturns PROVE IInv'
<1> USE DEF IInv, TypeOK, OneInstance, PeerNeedsPipe, LeavesOnlyWhenStopped,
            OwnerStates, WorkerStates, ownerVars, answerVars
<1>1. CASE \E n \in 1 .. Len(rx) :
             /\ receiveBuffer' = receiveBuffer \o SubSeq(rx, 1, n)
             /\ rx' = SubSeq(rx, n + 1, Len(rx))
             /\ worker' = "decode"
  <2> PICK n \in 1 .. Len(rx) :
        /\ receiveBuffer' = receiveBuffer \o SubSeq(rx, 1, n)
        /\ rx' = SubSeq(rx, n + 1, Len(rx))
        /\ worker' = "decode"
    BY <1>1
  <2>1. receiveBuffer' \in Seq(Pieces)
    BY PrefixAndRest, ConcatProperties
  <2>2. rx' \in Seq(Pieces) /\ Len(rx') <= PipeSize
    <3>1. rx' \in Seq(Pieces) /\ Len(rx') <= Len(rx)
      BY PrefixAndRest
    <3>2. Len(rx') \in Nat /\ Len(rx) \in Nat
      BY <3>1, LenProperties
    <3> QED
      BY <3>1, <3>2, PipeSizeAssumption
  <2> QED
    BY <2>1, <2>2 DEF ReadReturns
<1>2. CASE worker' = "close" /\ UNCHANGED <<receiveBuffer, rx>>
  BY <1>2 DEF ReadReturns
<1> QED
  BY <1>1, <1>2 DEF ReadReturns, AfterFailedRead

\* The decode loop takes at most one frame off the buffer.
LEMMA DecodeStep == ASSUME IInv, Decode PROVE IInv'
<1> USE DEF IInv, TypeOK, OneInstance, PeerNeedsPipe, LeavesOnlyWhenStopped,
            OwnerStates, WorkerStates, ownerVars, pipeVars
<1>1. receiveBuffer' \in Seq(Pieces)
  <2>1. \A i \in FrameSize + 1 .. Len(receiveBuffer) : receiveBuffer[i] \in Pieces
    BY ElementOfSeq, LenProperties
  <2>2. Erase(receiveBuffer) \in Seq(Pieces)
    BY <2>1, SubSeqProperties, LenProperties DEF Erase
  <2> QED
    BY <2>2 DEF Decode
<1>2. worker' \in {"readTest", "writeTest", "close"}
  BY DEF Decode
<1>3. response' \in 0 .. MaxVersion /\ written' \in 0 .. FrameSize
  BY DEF Decode, Snapshot
<1> QED
  BY <1>1, <1>2, <1>3 DEF Decode

\* A write appends no more of the response than the pipe has room for, and
\* total_written never passes the end of the frame.
LEMMA WriteStep == ASSUME IInv, WriteReturns PROVE IInv'
<1> USE DEF IInv, TypeOK, OneInstance, PeerNeedsPipe, LeavesOnlyWhenStopped,
            OwnerStates, WorkerStates, ownerVars
<1>1. CASE worker' = "close" /\ UNCHANGED <<tx, written>>
  BY <1>1 DEF WriteReturns
<1>2. CASE \E n \in 1 .. FrameSize - written :
             /\ Len(tx) + n <= PipeSize
             /\ tx' = tx \o SubSeq(ResponseFrame(response), written + 1, written + n)
             /\ written' = AddWritten(written, n)
             /\ worker' = "writeTest"
  <2> PICK n \in 1 .. FrameSize - written :
        /\ Len(tx) + n <= PipeSize
        /\ tx' = tx \o SubSeq(ResponseFrame(response), written + 1, written + n)
        /\ written' = AddWritten(written, n)
        /\ worker' = "writeTest"
    BY <1>2
  <2> DEFINE part == SubSeq(ResponseFrame(response), written + 1, written + n)
  <2>1. written' \in 0 .. FrameSize
    BY DEF AddWritten
  <2>2. part \in Seq(Replies) /\ Len(part) = n
    <3>1. \A i \in written + 1 .. written + n : ResponseFrame(response)[i] \in Replies
      <4>1. Reply("header", response) \in Replies /\ Reply("body", response) \in Replies
        BY DEF Reply, Replies
      <4>2. \A i \in written + 1 .. written + n : i = 1 \/ i = 2
        OBVIOUS
      <4>3. /\ ResponseFrame(response)[1] = Reply("header", response)
            /\ ResponseFrame(response)[2] = Reply("body", response)
        BY DEF ResponseFrame
      <4> QED
        BY <4>1, <4>2, <4>3, Zenon
    <3> QED
      BY <3>1, SubSeqProperties
  <2>3. tx' \in Seq(Replies) /\ Len(tx') <= PipeSize
    <3>1. tx' \in Seq(Replies) /\ Len(tx') = Len(tx) + Len(part)
      BY <2>2, ConcatProperties
    <3> QED
      BY <3>1, <2>2
  <2>4. worker = "writing" /\ pipe = "open"
    BY <1>2 DEF WriteReturns
  <2> QED
    BY <2>1, <2>3, <2>4 DEF WriteReturns
<1> QED
  BY <1>1, <1>2 DEF WriteReturns

\* Closing leaves an absent pipe, empty buffers and no client.
LEMMA CloseSteps == ASSUME IInv, Close \/ CloseLast PROVE IInv'
<1> USE DEF IInv, OneInstance, PeerNeedsPipe, LeavesOnlyWhenStopped, ownerVars
<1>1. /\ rx' \in Seq(Pieces) /\ Len(rx') <= PipeSize
      /\ tx' \in Seq(Replies) /\ Len(tx') <= PipeSize
      /\ receiveBuffer' \in Seq(Pieces) /\ asked' \in Seq(0 .. MaxVersion)
  <2>1. /\ <<>> \in Seq(Pieces) /\ <<>> \in Seq(Replies) /\ Len(<<>>) = 0
        /\ <<>> \in Seq(0 .. MaxVersion)
    BY EmptySeq
  <2>2. rx' = <<>> /\ tx' = <<>> /\ receiveBuffer' = <<>> /\ asked' = <<>>
    BY DEF Close, CloseLast, ClosePipe
  <2> QED
    BY <2>1, <2>2, PipeSizeAssumption
<1>2. response' \in 0 .. MaxVersion /\ written' \in 0 .. FrameSize /\ store' \in 0 .. MaxVersion
  BY BoundsAssumption DEF Close, CloseLast, ClosePipe, TypeOK
<1>3. worker' \in {"loop", "done"} /\ (worker' = "done" => worker = "closeLast")
  BY DEF Close, CloseLast, ClosePipe
<1>4. pipe' = "absent" /\ peer' = Nobody /\ UNCHANGED <<stopRequested, owner, cancelled>>
  BY DEF Close, CloseLast, ClosePipe
<1>5. TypeOK'
  BY <1>1, <1>2, <1>3, <1>4 DEF TypeOK, OwnerStates, WorkerStates
<1> QED
  BY <1>3, <1>4, <1>5

\* The clients and the store change only what is under way in the pipe.
LEMMA ClientSteps ==
  ASSUME IInv, StoreUpdate \/ \E c \in Clients : ClientStep(c)
  PROVE  IInv'
<1>1. CASE StoreUpdate
  BY <1>1, BoundsAssumption
     DEF StoreUpdate, IInv, TypeOK, OneInstance, PeerNeedsPipe,
         LeavesOnlyWhenStopped, ownerVars, pipeVars, answerVars
<1>2. ASSUME NEW c \in Clients, ClientStep(c) PROVE IInv'
  <2> USE DEF IInv, ownerVars, answerVars, serverVars
  <2>1. UNCHANGED <<stopRequested, owner, worker, cancelled, receiveBuffer, response,
                    written, store>>
    BY <1>2 DEF ClientStep, Connect, Hangup, CrashMidFrame, Receive, Send
  <2>2. /\ pipe \in {"listening", "open"}
        /\ pipe' \in {"open", "broken"}
        /\ peer' \in Clients \cup {Nobody, Waker}
    BY <1>2 DEF TypeOK, ClientStep, Connect, Hangup, CrashMidFrame, Receive, Send
  <2>3. rx' \in Seq(Pieces) /\ Len(rx') <= PipeSize
    <3>1. CASE UNCHANGED rx
      BY <3>1 DEF TypeOK
    <3>2. CASE CrashMidFrame(c)
      <4>1. Piece("header", "valid") \in Pieces
        BY DEF Piece, Pieces, Kinds
      <4> QED
        BY <3>2, <4>1, AppendProperties, LenProperties, PipeSizeAssumption
           DEF CrashMidFrame, TypeOK
    <3>3. ASSUME NEW kind \in Kinds, Send(c, kind)
          PROVE  rx' \in Seq(Pieces) /\ Len(rx') <= PipeSize
      <4>1. rx' = rx \o RequestBytes(kind)
        BY <3>3 DEF Send
      <4>2. rx' \in Seq(Pieces)
        BY <4>1, RequestBytesFit, ConcatProperties DEF TypeOK
      <4>3. Len(rx') = Len(rx) + Len(RequestBytes(kind))
        BY <4>1, RequestBytesFit, ConcatProperties DEF TypeOK
      <4>4. Len(rx) \in Nat /\ Len(RequestBytes(kind)) \in Nat /\ Len(rx') \in Nat
        BY <4>2, RequestBytesFit, LenProperties DEF TypeOK
      <4>5. Len(rx) + 2 <= PipeSize
        BY <3>3 DEF Send
      <4>6. Len(rx') <= PipeSize
        BY <4>3, <4>4, <4>5, RequestBytesFit, PipeSizeAssumption
      <4> QED
        BY <4>2, <4>6
    <3> QED
      BY <1>2, <3>1, <3>2, <3>3 DEF ClientStep, Connect, Hangup, Receive
  <2>4. tx' \in Seq(Replies) /\ Len(tx') <= PipeSize
    <3>1. CASE UNCHANGED tx
      BY <3>1 DEF TypeOK
    <3>2. CASE tx' = <<>>
      <4>1. <<>> \in Seq(Replies) /\ Len(<<>>) = 0
        BY EmptySeq
      <4> QED
        BY <3>2, <4>1, PipeSizeAssumption
    <3>3. CASE Receive(c)
      BY <3>3, HeadTailProperties, LenProperties, PipeSizeAssumption DEF Receive, TypeOK
    <3> QED
      BY <1>2, <3>1, <3>2, <3>3 DEF ClientStep, Connect, Hangup, CrashMidFrame, Send
  <2>5. asked' \in Seq(0 .. MaxVersion)
    <3>1. CASE UNCHANGED asked
      BY <3>1 DEF TypeOK
    <3>2. CASE asked' = <<>>
      BY <3>2, EmptySeq
    <3>3. CASE asked # <<>> /\ asked' = Tail(asked)
      BY <3>3, HeadTailProperties DEF TypeOK
    <3>4. CASE asked' = Append(asked, store)
      BY <3>4, AppendProperties DEF TypeOK
    <3> QED
      BY <1>2, <3>1, <3>2, <3>3, <3>4
         DEF ClientStep, Connect, Hangup, CrashMidFrame, Receive, Send
  <2>6. TypeOK'
    BY <2>1, <2>2, <2>3, <2>4, <2>5 DEF TypeOK
  <2>7. (OneInstance /\ PeerNeedsPipe /\ LeavesOnlyWhenStopped)'
    BY <2>1, <2>2 DEF OneInstance, PeerNeedsPipe, LeavesOnlyWhenStopped
  <2> QED
    BY <2>6, <2>7
<1> QED
  BY <1>1, <1>2

\* Every step of the owner, the worker, the clients and the store keeps it.
LEMMA NextIInv == IInv /\ [Next]_vars => IInv'
<1> SUFFICES ASSUME IInv, [Next]_vars PROVE IInv'
  OBVIOUS
<1>1. CASE UNCHANGED vars
  BY <1>1 DEF vars, IInv, TypeOK, OneInstance, PeerNeedsPipe, LeavesOnlyWhenStopped
<1>2. CASE Next
  BY <1>2, ControlSteps, ReadStep, DecodeStep, WriteStep, CloseSteps, ClientSteps
     DEF Next, WorkerStep
<1> QED
  BY <1>1, <1>2

-----------------------------------------------------------------------------
(* Theorems *)

\* Every reachable state satisfies the inductive invariant.
THEOREM InvariantHolds == Spec => []IInv
BY InitIInv, NextIInv, PTL DEF Spec

\* For all clients and bounds, every variable keeps its type; in particular
\* no direction of the pipe is overrun and total_written stays in the frame.
THEOREM TypeCorrect == Spec => []TypeOK
<1>1. IInv => TypeOK
  BY DEF IInv
<1> QED
  BY <1>1, InvariantHolds, PTL

\* For all clients and bounds, the worker holds a pipe instance exactly while
\* it serves: no handle leaks, and after stop() no client is connected.
THEOREM InstanceOwnership == Spec => []OneInstance
<1>1. IInv => OneInstance
  BY DEF IInv
<1> QED
  BY <1>1, InvariantHolds, PTL

\* No behaviour of any number of clients ends the worker: it leaves run()'s
\* loop only after stop() has been called.
THEOREM ClientsCannotEndWorker == Spec => []WorkerOutlivesClients
<1>1. IInv => WorkerOutlivesClients
  BY DEF IInv, LeavesOnlyWhenStopped, WorkerOutlivesClients
<1> QED
  BY <1>1, InvariantHolds, PTL

-----------------------------------------------------------------------------
(* The decode loop *)

\* Before it has read from a client the worker's buffer is empty; when it is
\* about to read again the decode loop has found no complete frame in it.
Decoded ==
  /\ worker \notin ReadStates \cup WriteStates \cup {"close"} => receiveBuffer = <<>>
  /\ ReadsWhenDecoded

\* Nothing received is nothing to decode.
LEMMA NothingReceived == FrameStatus(<<>>) = "incomplete"
BY Zenon DEF FrameStatus

\* A buffer that is not touched stays decoded unless reading begins.
LEMMA NextDecoded == Decoded /\ [Next]_vars => Decoded'
<1> SUFFICES ASSUME Decoded, [Next]_vars PROVE Decoded'
  OBVIOUS
<1> USE DEF Decoded, ReadsWhenDecoded, ownerVars, pipeVars, answerVars, serverVars
<1>1. CASE UNCHANGED vars
  BY <1>1 DEF vars
<1>2. CASE Start \/ StopCall \/ OwnerStep \/ StoreUpdate
  BY <1>2 DEF Start, StopCall, OwnerStep, Wake, CloseWake, Cancel, Join, StoreUpdate
<1>3. ASSUME NEW c \in Clients, ClientStep(c) PROVE Decoded'
  BY <1>3 DEF ClientStep, Connect, Hangup, CrashMidFrame, Receive, Send
<1>4. CASE \/ SecurityDescriptor \/ LoopTest \/ CreateNamedPipe \/ CreateNamedPipeFails
           \/ ConnectNamedPipe \/ ReadTest \/ ReadFile \/ WriteTest \/ WriteFile
  BY <1>4 DEF SecurityDescriptor, LoopTest, CreateNamedPipe, CreateNamedPipeFails,
     ConnectNamedPipe, ReadTest, ReadFile, WriteTest, WriteFile, FrameSent, AfterResponse, Goes
<1>5. CASE ConnectReturns
  BY <1>5, NothingReceived DEF ConnectReturns
<1>6. CASE ReadReturns
  BY <1>6 DEF ReadReturns, AfterFailedRead
<1>7. CASE Decode
  <2>1. worker' \in {"readTest", "writeTest", "close"}
    BY <1>7 DEF Decode
  <2>2. CASE FrameStatus(receiveBuffer) = "incomplete"
    BY <1>7, <2>1, <2>2 DEF Decode
  <2>3. CASE FrameStatus(receiveBuffer) # "incomplete"
    BY <1>7, <2>1, <2>3 DEF Decode
  <2> QED
    BY <2>2, <2>3
<1>8. CASE WriteReturns
  BY <1>8 DEF WriteReturns
<1>9. CASE Close \/ CloseLast
  BY <1>9 DEF Close, CloseLast, ClosePipe
<1> QED
  BY <1>1, <1>2, <1>3, <1>4, <1>5, <1>6, <1>7, <1>8, <1>9 DEF Next, WorkerStep

\* For all clients and bounds, the worker never waits for bytes while it holds
\* a complete frame.
THEOREM NoFrameLeftWaiting == Spec => []ReadsWhenDecoded
<1>1. Init => Decoded
  BY DEF Init, Decoded, ReadsWhenDecoded
<1>2. Decoded => ReadsWhenDecoded
  BY DEF Decoded
<1> QED
  BY <1>1, <1>2, NextDecoded, PTL DEF Spec

-----------------------------------------------------------------------------
(* Counting what is under way *)

Positions(pieces, wanted) == {i \in DOMAIN pieces : pieces[i] \in wanted}
One(piece, wanted) == IF piece \in wanted THEN 1 ELSE 0

LEMMA CountType ==
  ASSUME NEW S, NEW s \in Seq(S), NEW wanted
  PROVE  /\ IsFiniteSet(Positions(s, wanted))
         /\ NumberOf(s, wanted) = Cardinality(Positions(s, wanted))
         /\ NumberOf(s, wanted) \in Nat
<1>1. NumberOf(s, wanted) = Cardinality(Positions(s, wanted))
  BY DEF NumberOf, Positions
<1>2. Len(s) \in Nat /\ DOMAIN s = 1 .. Len(s)
  BY LenProperties
<1>3. Positions(s, wanted) \in SUBSET (1 .. Len(s))
  BY <1>2 DEF Positions
<1>4. IsFiniteSet(Positions(s, wanted))
  <2>1. IsFiniteSet(1 .. Len(s))
    BY <1>2, FS_Interval
  <2> QED BY <1>3, <2>1, FS_Subset
<1> QED BY <1>1, <1>4, FS_CardinalityType

\* What is counted in two parts is counted once in each.
LEMMA CountConcat ==
  ASSUME NEW S, NEW s \in Seq(S), NEW t \in Seq(S), NEW wanted
  PROVE  NumberOf(s \o t, wanted) = NumberOf(s, wanted) + NumberOf(t, wanted)
<1> DEFINE A == Positions(s, wanted)
           B == Positions(t, wanted)
           shift == [j \in B |-> Len(s) + j]
           C == {Len(s) + j : j \in B}
<1>1. /\ Len(s) \in Nat /\ Len(t) \in Nat /\ s \o t \in Seq(S)
      /\ DOMAIN s = 1 .. Len(s) /\ DOMAIN t = 1 .. Len(t)
      /\ DOMAIN (s \o t) = 1 .. Len(s) + Len(t)
      /\ \A i \in 1 .. Len(s) + Len(t) :
           (s \o t)[i] = IF i <= Len(s) THEN s[i] ELSE t[i - Len(s)]
  BY LenProperties, ConcatProperties
<1>2. /\ IsFiniteSet(A) /\ IsFiniteSet(B)
      /\ NumberOf(s, wanted) = Cardinality(A) /\ NumberOf(t, wanted) = Cardinality(B)
      /\ NumberOf(s \o t, wanted) = Cardinality(Positions(s \o t, wanted))
      /\ Cardinality(A) \in Nat /\ Cardinality(B) \in Nat
  BY <1>1, CountType
<1>3. A \subseteq 1 .. Len(s) /\ B \subseteq 1 .. Len(t)
  BY <1>1 DEF Positions
<1>4. IsFiniteSet(C) /\ Cardinality(C) = Cardinality(B)
  <2>1. shift \in Bijection(B, C)
    BY <1>1, <1>3 DEF Bijection, Injection, Surjection, IsInjective
  <2>2. ExistsBijection(B, C)
    BY <2>1 DEF ExistsBijection
  <2> QED BY <1>2, <2>2, FS_Bijection
<1>5. Positions(s \o t, wanted) = A \cup C
  <2>1. ASSUME NEW i \in Positions(s \o t, wanted) PROVE i \in A \cup C
    <3>1. i \in 1 .. Len(s) + Len(t) /\ (s \o t)[i] \in wanted
      BY <1>1 DEF Positions
    <3>2. CASE i <= Len(s)
      BY <1>1, <3>1, <3>2 DEF Positions
    <3>3. CASE ~(i <= Len(s))
      <4>1. i - Len(s) \in 1 .. Len(t) /\ i = Len(s) + (i - Len(s))
        BY <1>1, <3>1, <3>3
      <4>2. i - Len(s) \in B
        BY <1>1, <3>1, <3>3, <4>1 DEF Positions
      <4> QED BY <4>1, <4>2
    <3> QED BY <3>2, <3>3
  <2>2. A \subseteq Positions(s \o t, wanted)
    BY <1>1 DEF Positions
  <2>3. ASSUME NEW j \in B PROVE Len(s) + j \in Positions(s \o t, wanted)
    <3>1. j \in 1 .. Len(t) /\ t[j] \in wanted
      BY <1>1 DEF Positions
    <3>2. Len(s) + j \in 1 .. Len(s) + Len(t) /\ ~(Len(s) + j <= Len(s))
          /\ (Len(s) + j) - Len(s) = j
      BY <1>1, <3>1
    <3>3. (s \o t)[Len(s) + j] = t[j]
      BY <1>1, <3>2
    <3> QED BY <1>1, <3>1, <3>2, <3>3 DEF Positions
  <2> QED BY <2>1, <2>2, <2>3
<1>6. A \cap C = {}
  BY <1>1, <1>3
<1> HIDE DEF A, B, C
<1>7. Cardinality(A \cup C) = Cardinality(A) + Cardinality(C) - Cardinality({})
  BY <1>2, <1>4, <1>6, FS_Union
<1> QED BY <1>2, <1>4, <1>5, <1>7, FS_EmptySet

\* A single piece counts when it is wanted, no piece counts nothing.
LEMMA CountFew ==
  ASSUME NEW wanted
  PROVE  /\ NumberOf(<<>>, wanted) = 0
         /\ \A x : NumberOf(<<x>>, wanted) = One(x, wanted)
<1>1. NumberOf(<<>>, wanted) = 0
  <2>1. {i \in DOMAIN <<>> : <<>>[i] \in wanted} = {}
    OBVIOUS
  <2> QED BY <2>1, FS_EmptySet DEF NumberOf
<1>2. ASSUME NEW x PROVE NumberOf(<<x>>, wanted) = One(x, wanted)
  <2>1. DOMAIN <<x>> = {1} /\ <<x>>[1] = x
    OBVIOUS
  <2>2. CASE x \in wanted
    <3>1. {i \in DOMAIN <<x>> : <<x>>[i] \in wanted} = {1}
      BY <2>1, <2>2
    <3> QED BY <2>2, <3>1, FS_Singleton DEF NumberOf, One
  <2>3. CASE x \notin wanted
    <3>1. {i \in DOMAIN <<x>> : <<x>>[i] \in wanted} = {}
      BY <2>1, <2>3
    <3> QED BY <2>3, <3>1, FS_EmptySet DEF NumberOf, One
  <2> QED BY <2>2, <2>3
<1> QED BY <1>1, <1>2

LEMMA CountAppend ==
  ASSUME NEW S, NEW s \in Seq(S), NEW x \in S, NEW wanted
  PROVE  NumberOf(Append(s, x), wanted) = NumberOf(s, wanted) + One(x, wanted)
<1>1. <<x>> \in Seq(S) /\ Append(s, x) = s \o <<x>>
  BY AppendIsConcat
<1>2. NumberOf(s \o <<x>>, wanted) = NumberOf(s, wanted) + NumberOf(<<x>>, wanted)
  BY <1>1, CountConcat
<1>3. NumberOf(<<x>>, wanted) = One(x, wanted)
  BY CountFew
<1> QED BY <1>1, <1>2, <1>3

LEMMA CountPair ==
  ASSUME NEW S, NEW x \in S, NEW y \in S, NEW wanted
  PROVE  NumberOf(<<x, y>>, wanted) = One(x, wanted) + One(y, wanted)
<1>1. <<x>> \in Seq(S) /\ <<x, y>> = Append(<<x>>, y)
  OBVIOUS
<1>2. NumberOf(Append(<<x>>, y), wanted) = NumberOf(<<x>>, wanted) + One(y, wanted)
  BY <1>1, CountAppend
<1>3. NumberOf(<<x>>, wanted) = One(x, wanted)
  BY CountFew
<1> QED BY <1>1, <1>2, <1>3

\* A sequence is the part before a cut and the part after it.
LEMMA CutAt ==
  ASSUME NEW S, NEW s \in Seq(S), NEW n \in 0 .. Len(s)
  PROVE  /\ SubSeq(s, 1, n) \in Seq(S) /\ SubSeq(s, n + 1, Len(s)) \in Seq(S)
         /\ s = SubSeq(s, 1, n) \o SubSeq(s, n + 1, Len(s))
<1>1. Len(s) \in Nat /\ \A i \in 1 .. Len(s) : s[i] \in S
  BY LenProperties, ElementOfSeq
<1>2. SubSeq(s, 1, n) \in Seq(S)
  <2>1. n \in Int /\ \A i \in 1 .. n : s[i] \in S
    BY <1>1
  <2> QED BY <2>1, SubSeqProperties
<1>3. SubSeq(s, n + 1, Len(s)) \in Seq(S)
  <2>1. n + 1 \in Int /\ Len(s) \in Int /\ \A i \in n + 1 .. Len(s) : s[i] \in S
    BY <1>1
  <2> QED BY <2>1, SubSeqProperties
<1>4. SubSeq(s, 1, n) \o SubSeq(s, n + 1, Len(s)) = SubSeq(s, 1, Len(s))
  <2>1. /\ 1 \in 1 .. Len(s) + 1 /\ n \in 1 - 1 .. Len(s)
        /\ Len(s) \in n .. Len(s)
    BY <1>1
  <2> QED BY <2>1, ConcatAdjacentSubSeq
<1> QED BY <1>2, <1>3, <1>4, SubSeqFull
-----------------------------------------------------------------------------
(* Whole responses *)

\* A response that is half written is the last thing in the pipe.
FramesInv ==
  /\ WholeFrames
  /\ worker \in WriteStates /\ written = 1 /\ tx # <<>> =>
       tx[Len(tx)] = Reply("header", response)

\* What lies in the pipe untouched stays whole while write_all keeps its place.
LEMMA FramesStay ==
  ASSUME FramesInv, tx' = tx,
         worker \in WriteStates \cup {"close"} /\ written = 1 =>
           /\ worker' \in WriteStates \cup {"close"}
           /\ written' = written /\ response' = response,
         worker' \in WriteStates /\ written' = 1 =>
           worker \in WriteStates /\ written = 1 /\ response' = response
  PROVE  FramesInv'
<1>1. WholeFrames'
  BY DEF FramesInv, WholeFrames
<1>2. (worker \in WriteStates /\ written = 1 /\ tx # <<>> =>
         tx[Len(tx)] = Reply("header", response))'
  BY DEF FramesInv, Reply
<1> QED BY <1>1, <1>2 DEF FramesInv

\* An empty pipe holds no part of a frame.
LEMMA FramesNone ==
  ASSUME tx' = <<>> PROVE FramesInv'
<1>1. 1 .. Len(tx') = {}
  OBVIOUS
<1> QED BY <1>1 DEF FramesInv, WholeFrames

\* The client takes a piece from the front.
LEMMA FramesTaken ==
  ASSUME IInv, FramesInv, tx # <<>>, tx' = Tail(tx),
         UNCHANGED <<worker, written, response>>
  PROVE  FramesInv'
<1>1. tx \in Seq(Replies)
  BY DEF IInv, TypeOK
<1>2. /\ Len(tx) \in Nat /\ Len(tx') \in Nat /\ Len(tx) = Len(tx') + 1
      /\ \A i \in 1 .. Len(tx') : tx'[i] = tx[i + 1]
  BY <1>1, HeadTailProperties, LenProperties
<1>3. worker' = worker /\ written' = written /\ response' = response
  OBVIOUS
<1>4. ASSUME NEW i \in 1 .. Len(tx')
      PROVE  IF i < Len(tx')
             THEN tx'[i + 1].part # tx'[i].part
                    /\ (tx'[i].part = "header" => tx'[i + 1].version = tx'[i].version)
             ELSE tx'[i].part = "header" =>
                    /\ written = 1 /\ response = tx'[i].version
                    /\ worker \in WriteStates \cup {"close"}
  <2>1. i + 1 \in 1 .. Len(tx) /\ (i < Len(tx') <=> i + 1 < Len(tx))
    BY <1>2
  <2>2. tx'[i] = tx[i + 1]
    BY <1>2
  <2>3. CASE i < Len(tx')
    <3>1. i + 1 \in 1 .. Len(tx') /\ tx'[i + 1] = tx[(i + 1) + 1]
      BY <1>2, <2>3
    <3> QED BY <2>1, <2>2, <2>3, <3>1 DEF FramesInv, WholeFrames
  <2>4. CASE ~(i < Len(tx'))
    BY <2>1, <2>2, <2>4 DEF FramesInv, WholeFrames
  <2> QED BY <2>3, <2>4
<1>5. WholeFrames'
  BY <1>3, <1>4 DEF WholeFrames
<1>6. ASSUME worker' \in WriteStates, written' = 1, tx' # <<>>
      PROVE  tx'[Len(tx')] = Reply("header", response')
  <2>1. Len(tx') \in 1 .. Len(tx')
    <3>1. Len(tx') # 0
      BY <1>1, <1>6, HeadTailProperties, EmptySeq
    <3> QED BY <1>2, <3>1
  <2>2. tx'[Len(tx')] = tx[Len(tx)]
    BY <1>2, <2>1
  <2> QED BY <1>3, <1>6, <2>2 DEF FramesInv
<1> QED BY <1>5, <1>6 DEF FramesInv

\* In a client's stream y may come after x.
Succeeds(x, y) ==
  y.part # x.part /\ (x.part = "header" => y.version = x.version)
Whole(s) == \A i \in 1 .. Len(s) - 1 : Succeeds(s[i], s[i + 1])

\* A piece that may come after the last one is appended.
LEMMA WholeAppend ==
  ASSUME NEW s \in Seq(Replies), NEW y \in Replies, Whole(s),
         s # <<>> => Succeeds(s[Len(s)], y)
  PROVE  /\ Append(s, y) \in Seq(Replies) /\ Append(s, y) # <<>>
         /\ Whole(Append(s, y))
         /\ Append(s, y)[Len(Append(s, y))] = y
<1> DEFINE size == Len(s)
           longer == Append(s, y)
<1>1. /\ size \in Nat /\ longer \in Seq(Replies) /\ Len(longer) = size + 1
      /\ longer[size + 1] = y
      /\ \A i \in 1 .. size : longer[i] = s[i]
      /\ size # 0 => s # <<>>
  BY AppendProperties, LenProperties, EmptySeq
<1>2. longer # <<>>
  BY <1>1, EmptySeq
<1>3. /\ size # 0 => Succeeds(s[size], y)
      /\ \A i \in 1 .. size - 1 : Succeeds(s[i], s[i + 1])
  BY <1>1 DEF Whole
<1> HIDE DEF size, longer
<1>4. ASSUME NEW i \in 1 .. size PROVE Succeeds(longer[i], longer[i + 1])
  <2>1. CASE i = size
    <3>1. size # 0
      BY <1>1, <2>1
    <3> QED BY <1>1, <1>3, <2>1, <3>1
  <2>2. CASE i # size
    <3>1. i \in 1 .. size - 1 /\ i + 1 \in 1 .. size
      BY <1>1, <2>2
    <3> QED BY <1>1, <1>3, <3>1
  <2> QED BY <2>1, <2>2
<1>5. Whole(longer)
  <2>1. Len(longer) - 1 = size
    BY <1>1
  <2> QED BY <1>4, <2>1 DEF Whole
<1> QED BY <1>1, <1>2, <1>5 DEF longer

\* The three parts of a response that one WriteFile may take.
LEMMA WrittenParts ==
  ASSUME NEW version \in 0 .. MaxVersion, NEW s \in Seq(Replies)
  PROVE  LET frame == ResponseFrame(version)
             H == Reply("header", version)
             B == Reply("body", version)
         IN  /\ H \in Replies /\ B \in Replies /\ H # B
             /\ H.part = "header" /\ B.part = "body"
             /\ H.version = version /\ B.version = version
             /\ s \o SubSeq(frame, 1, 1) = Append(s, H)
             /\ s \o SubSeq(frame, 2, 2) = Append(s, B)
             /\ s \o SubSeq(frame, 1, 2) = Append(Append(s, H), B)
<1> DEFINE frame == ResponseFrame(version)
           H == Reply("header", version)
           B == Reply("body", version)
<1>1. /\ H \in Replies /\ B \in Replies /\ H # B
      /\ H.part = "header" /\ B.part = "body"
      /\ H.version = version /\ B.version = version
  BY DEF Reply, Replies
<1>2. frame = <<H, B>>
  BY DEF ResponseFrame
<1> HIDE DEF H, B, frame
<1>3. /\ SubSeq(frame, 1, 1) = <<H>> /\ SubSeq(frame, 2, 2) = <<B>>
      /\ SubSeq(frame, 1, 2) = <<H, B>>
  <2>1. /\ frame[1] = H /\ frame[2] = B /\ Len(frame) = 2 /\ frame \in Seq(Replies)
        /\ 1 .. 1 = {1} /\ 2 .. 2 = {2} /\ 1 .. 2 = {1, 2}
    BY <1>1, <1>2
  <2>2. SubSeq(frame, 1, 2) = frame
    BY <2>1, SubSeqFull
  <2>3. SubSeq(frame, 1, 1) = <<H>>
    <3>1. /\ SubSeq(frame, 1, 1) \in Seq(Replies) /\ Len(SubSeq(frame, 1, 1)) = 1
          /\ SubSeq(frame, 1, 1)[1] = H
      BY <1>1, <2>1, SubSeqProperties
    <3>2. <<H>> \in Seq(Replies) /\ Len(<<H>>) = 1 /\ <<H>>[1] = H
      BY <1>1
    <3> QED BY <2>1, <3>1, <3>2, SeqEqual
  <2>4. SubSeq(frame, 2, 2) = <<B>>
    <3>1. /\ SubSeq(frame, 2, 2) \in Seq(Replies) /\ Len(SubSeq(frame, 2, 2)) = 1
          /\ SubSeq(frame, 2, 2)[1] = B
      BY <1>1, <2>1, SubSeqProperties
    <3>2. <<B>> \in Seq(Replies) /\ Len(<<B>>) = 1 /\ <<B>>[1] = B
      BY <1>1
    <3> QED BY <2>1, <3>1, <3>2, SeqEqual
  <2> QED BY <1>2, <2>2, <2>3, <2>4
<1>4. s \o <<H>> = Append(s, H) /\ s \o <<B>> = Append(s, B)
  BY <1>1, AppendIsConcat
<1>5. s \o <<H, B>> = Append(Append(s, H), B)
  <2>1. <<H, B>> = <<H>> \o <<B>> /\ <<H>> \in Seq(Replies) /\ <<B>> \in Seq(Replies)
    <3>1. /\ <<H>> \in Seq(Replies) /\ <<B>> \in Seq(Replies)
          /\ <<H, B>> = Append(<<H>>, B)
      BY <1>1
    <3>2. Append(<<H>>, B) = <<H>> \o <<B>>
      BY <1>1, <3>1, AppendIsConcat
    <3> QED BY <3>1, <3>2
  <2>2. s \o (<<H>> \o <<B>>) = (s \o <<H>>) \o <<B>>
    BY <2>1, ConcatAssociative
  <2>3. Append(s, H) \in Seq(Replies)
    BY <1>1, AppendProperties
  <2>4. Append(s, H) \o <<B>> = Append(Append(s, H), B)
    BY <1>1, <2>3, AppendIsConcat
  <2> QED BY <1>4, <2>1, <2>2, <2>4
<1> QED BY <1>1, <1>3, <1>4, <1>5 DEF H, B, frame

\* WholeFrames says what may follow what, and when the last may be a header.
LEMMA WholeFramesIs ==
  ASSUME tx \in Seq(Replies)
  PROVE  WholeFrames <=>
           /\ Whole(tx)
           /\ tx # <<>> /\ tx[Len(tx)].part = "header" =>
                /\ written = 1 /\ response = tx[Len(tx)].version
                /\ worker \in WriteStates \cup {"close"}
<1> DEFINE size == Len(tx)
<1>1. size \in Nat /\ (size # 0 <=> tx # <<>>)
  BY LenProperties, EmptySeq
<1>2. WholeFrames <=>
        \A i \in 1 .. size :
          IF i < size THEN Succeeds(tx[i], tx[i + 1])
          ELSE tx[i].part = "header" =>
                 written = 1 /\ response = tx[i].version /\ worker \in WriteStates \cup {"close"}
  BY DEF WholeFrames, Succeeds
<1>3. Whole(tx) <=> \A i \in 1 .. size - 1 : Succeeds(tx[i], tx[i + 1])
  BY DEF Whole
<1> HIDE DEF size
<1>4. \A i \in 1 .. size : i < size <=> i \in 1 .. size - 1
  BY <1>1
<1>5. \A i \in 1 .. size - 1 : i \in 1 .. size /\ i < size
  BY <1>1
<1>6. \A i \in 1 .. size : ~(i < size) <=> i = size
  BY <1>1
<1>7. size # 0 => size \in 1 .. size
  BY <1>1
<1> QED BY SMTT(30), <1>1, <1>2, <1>3, <1>4, <1>5, <1>6, <1>7 DEF size

\* write_all appends what follows the part of the frame it has sent.
LEMMA FramesWritten ==
  ASSUME IInv, FramesInv, worker = "writing", NEW n \in 1 .. FrameSize - written,
         tx' = tx \o SubSeq(ResponseFrame(response), written + 1, written + n),
         written' = AddWritten(written, n), worker' = "writeTest", response' = response
  PROVE  FramesInv'
<1>1. /\ tx \in Seq(Replies) /\ response \in 0 .. MaxVersion /\ written \in 0 .. 2
  BY DEF IInv, TypeOK
<1>2. /\ \/ written = 0 /\ n = 1
         \/ written = 0 /\ n = 2
         \/ written = 1 /\ n = 1
  BY <1>1
<1> DEFINE H == Reply("header", response)
           B == Reply("body", response)
<1>3. /\ H \in Replies /\ B \in Replies /\ H # B
      /\ H.part = "header" /\ B.part = "body"
      /\ H.version = response /\ B.version = response
  BY <1>1, WrittenParts
<1>4. /\ Whole(tx)
      /\ written = 0 /\ tx # <<>> => tx[Len(tx)].part = "body"
      /\ written = 1 /\ tx # <<>> => tx[Len(tx)] = H
  <2>1. tx # <<>> => tx[Len(tx)] \in Replies
    BY <1>1, ElementOfSeq, EmptySeq
  <2>2. tx # <<>> => tx[Len(tx)].part \in {"header", "body"}
    BY <2>1 DEF Replies
  <2> QED BY <1>1, <2>2, WholeFramesIs DEF FramesInv
\* What the client's stream is now.
<1>5. /\ tx' \in Seq(Replies) /\ tx' # <<>> /\ Whole(tx')
      /\ \/ written' = 1 /\ tx'[Len(tx')] = H
         \/ written' = 2 /\ tx'[Len(tx')] = B
  <2>1. CASE written = 0 /\ n = 1
    <3>1. tx' = Append(tx, H) /\ written' = 1
      BY <1>1, <2>1, WrittenParts DEF AddWritten
    <3>2. tx # <<>> => Succeeds(tx[Len(tx)], H)
      BY <1>3, <1>4, <2>1 DEF Succeeds
    <3> HIDE DEF H, B
    <3> QED BY <1>1, <1>3, <1>4, <3>1, <3>2, WholeAppend
  <2>2. CASE written = 0 /\ n = 2
    <3>1. tx' = Append(Append(tx, H), B) /\ written' = 2
      BY <1>1, <2>2, WrittenParts DEF AddWritten
    <3>2. tx # <<>> => Succeeds(tx[Len(tx)], H)
      BY <1>3, <1>4, <2>2 DEF Succeeds
    <3>3. Succeeds(H, B)
      BY <1>3 DEF Succeeds
    <3> HIDE DEF H, B
    <3> DEFINE first == Append(tx, H)
    <3>4. /\ first \in Seq(Replies) /\ Whole(first) /\ first[Len(first)] = H
      BY <1>1, <1>3, <1>4, <3>2, WholeAppend
    <3>5. tx' = Append(first, B)
      BY <3>1
    <3> HIDE DEF first
    <3> QED BY ZenonT(30), <1>3, <3>1, <3>3, <3>4, <3>5, WholeAppend
  <2>3. CASE written = 1 /\ n = 1
    <3>1. tx' = Append(tx, B) /\ written' = 2
      BY <1>1, <2>3, WrittenParts DEF AddWritten
    <3>2. tx # <<>> => Succeeds(tx[Len(tx)], B)
      BY <1>3, <1>4, <2>3 DEF Succeeds
    <3> HIDE DEF H, B
    <3> QED BY ZenonT(30), <1>1, <1>3, <1>4, <3>1, <3>2, WholeAppend
  <2> QED BY <1>2, <2>1, <2>2, <2>3
<1> HIDE DEF H, B
<1>6. /\ tx' # <<>> /\ (tx'[Len(tx')]).part = "header" =>
           /\ written' = 1 /\ response' = (tx'[Len(tx')]).version
           /\ worker' \in WriteStates \cup {"close"}
  BY <1>3, <1>5
<1>7. (tx \in Seq(Replies) =>
         (WholeFrames <=>
            /\ Whole(tx)
            /\ tx # <<>> /\ tx[Len(tx)].part = "header" =>
                 /\ written = 1 /\ response = tx[Len(tx)].version
                 /\ worker \in WriteStates \cup {"close"}))'
  BY WholeFramesIs, PTL
<1>8. WholeFrames'
  BY <1>5, <1>6, <1>7
<1>9. written' = 1 => tx'[Len(tx')] = Reply("header", response')
  BY <1>5 DEF H
<1> QED BY <1>8, <1>9 DEF FramesInv

LEMMA NextFrames == IInv /\ FramesInv /\ [Next]_vars => FramesInv'
<1> SUFFICES ASSUME IInv, FramesInv, [Next]_vars PROVE FramesInv'
  OBVIOUS
<1> USE DEF ownerVars, pipeVars, answerVars, serverVars
<1>1. CASE UNCHANGED vars
  BY <1>1, FramesStay DEF vars
<1>2. CASE Start \/ StopCall \/ OwnerStep \/ StoreUpdate
  BY <1>2, FramesStay
     DEF Start, StopCall, OwnerStep, Wake, CloseWake, Cancel, Join, StoreUpdate
<1>3. ASSUME NEW c \in Clients, ClientStep(c) PROVE FramesInv'
  <2>1. CASE Receive(c)
    BY <2>1, FramesTaken DEF Receive
  <2>2. CASE Hangup(c) \/ CrashMidFrame(c)
    BY <2>2, FramesNone DEF Hangup, CrashMidFrame
  <2>3. CASE Connect(c) \/ \E kind \in Kinds : Send(c, kind)
    BY <2>3, FramesStay DEF Connect, Send
  <2> QED BY <1>3, <2>1, <2>2, <2>3 DEF ClientStep
<1>4. CASE \/ SecurityDescriptor \/ LoopTest \/ CreateNamedPipe \/ CreateNamedPipeFails
           \/ ConnectNamedPipe \/ ReadTest \/ ReadFile \/ WriteFile
  BY <1>4, FramesStay DEF SecurityDescriptor, LoopTest, CreateNamedPipe,
     CreateNamedPipeFails, ConnectNamedPipe, ReadTest, ReadFile, WriteFile, Goes
<1>5. CASE ConnectReturns \/ ReadReturns \/ Decode
  BY <1>5, FramesStay DEF ConnectReturns, ReadReturns, Decode, AfterFailedRead
<1>6. CASE WriteTest
  <2>1. worker' \in WriteStates \cup {"close", "decode"}
        /\ (worker' = "decode" => written = 2)
    BY <1>6 DEF WriteTest, FrameSent, AfterResponse
  <2> QED BY <1>6, <2>1, FramesStay DEF WriteTest
<1>7. CASE WriteReturns
  <2>1. CASE worker' = "close" /\ UNCHANGED <<tx, written>>
    BY <1>7, <2>1, FramesStay DEF WriteReturns
  <2>2. CASE \E n \in 1 .. FrameSize - written :
               /\ tx' = tx \o SubSeq(ResponseFrame(response), written + 1, written + n)
               /\ written' = AddWritten(written, n)
               /\ worker' = "writeTest"
    BY <1>7, <2>2, FramesWritten DEF WriteReturns
  <2> QED BY <1>7, <2>1, <2>2 DEF WriteReturns
<1>8. CASE Close \/ CloseLast
  BY <1>8, FramesNone DEF Close, CloseLast, ClosePipe
<1> QED
  BY <1>1, <1>2, <1>3, <1>4, <1>5, <1>6, <1>7, <1>8 DEF Next, WorkerStep

\* The answers of write_all reach the client as whole frames: a length prefix
\* is followed by its own payload, whatever the pipe takes of one WriteFile.
THEOREM ResponsesAreWhole == Spec => []WholeFrames
<1>1. Init => FramesInv
  <2> SUFFICES ASSUME Init PROVE FramesInv
    OBVIOUS
  <2>1. tx = <<>> /\ 1 .. Len(tx) = {}
    BY DEF Init
  <2> QED BY <2>1 DEF FramesInv, WholeFrames
<1>2. FramesInv => WholeFrames
  BY DEF FramesInv
<1>3. IInv /\ FramesInv /\ [Next]_vars => FramesInv'
  BY NextFrames
<1> QED BY <1>1, <1>2, <1>3, InvariantHolds, PTL DEF Spec
-----------------------------------------------------------------------------
(* Requests and answers *)

\* Up to a wanted piece at least one is counted, and no more than in all.
LEMMA CountPrefix ==
  ASSUME NEW S, NEW s \in Seq(S), NEW wanted, NEW i \in 1 .. Len(s), s[i] \in wanted
  PROVE  /\ NumberOf(s, wanted) \in Nat
         /\ NumberOf(SubSeq(s, 1, i), wanted) \in 1 .. NumberOf(s, wanted)
<1>1. Len(s) \in Nat /\ s[i] \in S /\ i \in 0 .. Len(s) /\ i - 1 \in 0 .. Len(s)
  BY LenProperties, ElementOfSeq
<1> DEFINE prefix == SubSeq(s, 1, i)
           before == SubSeq(s, 1, i - 1)
           rest == SubSeq(s, i + 1, Len(s))
<1>2. prefix \in Seq(S) /\ rest \in Seq(S) /\ s = prefix \o rest
  BY <1>1, CutAt
<1>3. before \in Seq(S)
  BY <1>1, CutAt
<1>4. prefix = before \o <<s[i]>>
  <2>1. 1 \in 1 .. Len(s) /\ i \in 1 .. Len(s)
    BY <1>1
  <2> QED BY <2>1, SubSeqRecursiveSecond
<1> HIDE DEF prefix, before, rest
<1>5. <<s[i]>> \in Seq(S) /\ NumberOf(<<s[i]>>, wanted) = 1
  BY SMTT(30), <1>1, CountFew DEF One
<1>6. NumberOf(prefix, wanted) = NumberOf(before, wanted) + 1
  <2>1. NumberOf(before \o <<s[i]>>, wanted) =
          NumberOf(before, wanted) + NumberOf(<<s[i]>>, wanted)
    BY <1>3, <1>5, CountConcat
  <2> QED BY <1>4, <1>5, <2>1
<1>7. NumberOf(s, wanted) = NumberOf(prefix, wanted) + NumberOf(rest, wanted)
  BY <1>2, CountConcat
<1>8. /\ NumberOf(before, wanted) \in Nat /\ NumberOf(rest, wanted) \in Nat
      /\ NumberOf(s, wanted) \in Nat
  BY <1>2, <1>3, CountType
<1> QED BY <1>6, <1>7, <1>8 DEF prefix

\* The i-th piece of what is left after the first, and what is counted up to it.
LEMMA CountTail ==
  ASSUME NEW S, NEW s \in Seq(S), s # <<>>, NEW wanted
  PROVE  /\ NumberOf(s, wanted) = One(Head(s), wanted) + NumberOf(Tail(s), wanted)
         /\ \A i \in 1 .. Len(Tail(s)) :
              /\ i + 1 \in 1 .. Len(s) /\ Tail(s)[i] = s[i + 1]
              /\ NumberOf(SubSeq(s, 1, i + 1), wanted) =
                   One(Head(s), wanted) + NumberOf(SubSeq(Tail(s), 1, i), wanted)
<1> DEFINE rest == Tail(s)
<1>1. /\ Len(s) \in Nat /\ Len(rest) \in Nat /\ Len(rest) = Len(s) - 1
      /\ rest \in Seq(S) /\ Head(s) \in S
      /\ \A i \in 1 .. Len(rest) : rest[i] = s[i + 1]
  BY HeadTailProperties, LenProperties
<1>2. <<Head(s)>> \in Seq(S) /\ NumberOf(<<Head(s)>>, wanted) = One(Head(s), wanted)
  BY <1>1, CountFew
<1>3. s = <<Head(s)>> \o rest
  <2>1. Len(<<Head(s)>>) = 1 /\ <<Head(s)>>[1] = Head(s) /\ s[1] = Head(s)
    OBVIOUS
  <2> HIDE DEF rest
  <2>2. /\ <<Head(s)>> \o rest \in Seq(S) /\ Len(<<Head(s)>> \o rest) = 1 + Len(rest)
        /\ \A i \in 1 .. 1 + Len(rest) :
             (<<Head(s)>> \o rest)[i] = IF i <= 1 THEN <<Head(s)>>[i] ELSE rest[i - 1]
    BY <1>1, <1>2, <2>1, ConcatProperties
  <2>3. ASSUME NEW i \in 1 .. Len(s) PROVE s[i] = (<<Head(s)>> \o rest)[i]
    <3>1. CASE i = 1
      BY <1>1, <2>1, <2>2, <3>1
    <3>2. CASE i # 1
      <4>1. i - 1 \in 1 .. Len(rest) /\ (i - 1) + 1 = i /\ i \in 1 .. 1 + Len(rest) /\ ~(i <= 1)
        BY <1>1, <3>2
      <4>2. rest[i - 1] = s[i]
        BY <1>1, <4>1
      <4> QED BY <2>2, <4>1, <4>2
    <3> QED BY <3>1, <3>2
  <2> DEFINE joined == <<Head(s)>> \o rest
  <2>4. joined \in Seq(S) /\ Len(s) = Len(joined) /\ \A i \in 1 .. Len(s) : s[i] = joined[i]
    BY <1>1, <2>2, <2>3
  <2> HIDE DEF joined
  <2>5. s = joined
    BY <2>4, SeqEqual
  <2> QED BY <2>5 DEF joined
<1>4. NumberOf(s, wanted) = One(Head(s), wanted) + NumberOf(rest, wanted)
  <2>1. NumberOf(<<Head(s)>> \o rest, wanted) =
          NumberOf(<<Head(s)>>, wanted) + NumberOf(rest, wanted)
    BY <1>1, <1>2, CountConcat
  <2> QED BY <1>2, <1>3, <2>1
<1> HIDE DEF rest
<1>5. ASSUME NEW i \in 1 .. Len(rest)
      PROVE  /\ i + 1 \in 1 .. Len(s) /\ rest[i] = s[i + 1]
             /\ NumberOf(SubSeq(s, 1, i + 1), wanted) =
                  One(Head(s), wanted) + NumberOf(SubSeq(rest, 1, i), wanted)
  <2>1. i + 1 \in 1 .. Len(s) /\ i \in 0 .. Len(rest)
    BY <1>1
  <2> DEFINE first == SubSeq(rest, 1, i)
             left == SubSeq(rest, i + 1, Len(rest))
  <2>2. first \in Seq(S) /\ left \in Seq(S) /\ rest = first \o left /\ Len(first) = i
    <3>1. i \in Int /\ 1 <= i /\ i - 1 + 1 = i /\ \A j \in 1 .. i : rest[j] \in S
      BY <1>1, ElementOfSeq
    <3>2. Len(first) = i
      BY <3>1, SubSeqProperties
    <3> QED BY <1>1, <2>1, <3>2, CutAt
  <2>3. SubSeq(s, 1, i + 1) = <<Head(s)>> \o first
    <3>1. /\ <<Head(s)>> \o first \in Seq(S) /\ Len(<<Head(s)>> \o first) = i + 1
      <4> HIDE DEF first
      <4>1. Len(<<Head(s)>>) = 1
        OBVIOUS
      <4>2. Len(<<Head(s)>> \o first) = 1 + i
        BY <1>2, <2>2, <4>1, ConcatProperties
      <4> QED BY <1>2, <2>2, <4>2, ConcatProperties
    <3>2. s = (<<Head(s)>> \o first) \o left
      <4> HIDE DEF first, left
      <4>1. <<Head(s)>> \o (first \o left) = (<<Head(s)>> \o first) \o left
        BY SMTT(30), <1>2, <2>2, ConcatAssociative
      <4> QED BY <1>3, <2>2, <4>1
    <3> DEFINE start == <<Head(s)>> \o first
    <3> HIDE DEF first, left, start
    <3>3. s = start \o left /\ start \in Seq(S) /\ Len(start) = i + 1
      BY <3>1, <3>2 DEF start
    <3>4. SubSeq(start \o left, 1, Len(start)) = start
      BY <2>2, <3>3, SubSeqOfConcat1, SubSeqFull
    <3> QED BY <3>3, <3>4 DEF start
  <2> HIDE DEF first
  <2>4. NumberOf(SubSeq(s, 1, i + 1), wanted) =
          One(Head(s), wanted) + NumberOf(first, wanted)
    <3> DEFINE head == <<Head(s)>>
    <3>1. first \in Seq(S) /\ head \in Seq(S)
      BY <1>2, <2>2
    <3>2. /\ SubSeq(s, 1, i + 1) = head \o first
          /\ NumberOf(head, wanted) = One(Head(s), wanted)
      BY <1>2, <2>3
    <3> HIDE DEF head
    <3>3. NumberOf(head \o first, wanted) = NumberOf(head, wanted) + NumberOf(first, wanted)
      BY <3>1, CountConcat
    <3> QED BY <3>2, <3>3
  <2> QED BY <1>1, <2>1, <2>4 DEF first
<1> QED BY <1>4, <1>5 DEF rest

\* The answers in s are not older than the requests a that they answer.
FreshIn(s, a) ==
  \A i \in DOMAIN s :
    s[i] \in Answers => s[i].version >= a[NumberOf(SubSeq(s, 1, i), Answers)]
\* One more piece: nothing changes for those before it.
LEMMA FreshAppend ==
  ASSUME NEW s \in Seq(Replies), NEW y \in Replies, NEW a, FreshIn(s, a),
         y \in Answers => y.version >= a[NumberOf(s, Answers) + 1]
  PROVE  FreshIn(Append(s, y), a)
<1> DEFINE longer == Append(s, y)
           size == Len(s)
<1>1. /\ size \in Nat /\ longer \in Seq(Replies) /\ Len(longer) = size + 1
      /\ longer[size + 1] = y
      /\ \A i \in 1 .. size : longer[i] = s[i]
      /\ DOMAIN s = 1 .. size /\ DOMAIN longer = 1 .. size + 1
  BY AppendProperties, LenProperties
<1>2. NumberOf(longer, Answers) = NumberOf(s, Answers) + One(y, Answers)
  BY CountAppend
<1>3. \A i \in 1 .. size : SubSeq(longer, 1, i) = SubSeq(s, 1, i)
  <2>1. ASSUME NEW i \in 1 .. size PROVE SubSeq(longer, 1, i) = SubSeq(s, 1, i)
    <3>1. longer = s \o <<y>> /\ <<y>> \in Seq(Replies)
      BY AppendIsConcat
    <3> HIDE DEF longer
    <3>2. 1 \in 1 .. Len(s) /\ i \in 1 .. Len(s)
      BY <1>1
    <3>3. SubSeq(s \o <<y>>, 1, i) = SubSeq(s, 1, i)
      BY <3>1, <3>2, SubSeqOfConcat1
    <3> QED BY <3>1, <3>3
  <2> QED BY <2>1
<1>4. SubSeq(longer, 1, size + 1) = longer
  BY <1>1, SubSeqFull
<1> HIDE DEF longer, size
<1>5. ASSUME NEW i \in DOMAIN longer, longer[i] \in Answers
      PROVE  longer[i].version >= a[NumberOf(SubSeq(longer, 1, i), Answers)]
  <2>1. CASE i = size + 1
    <3>1. y \in Answers /\ One(y, Answers) = 1
      BY <1>1, <1>5, <2>1 DEF One
    <3>2. NumberOf(SubSeq(longer, 1, i), Answers) = NumberOf(s, Answers) + 1
      BY <1>2, <1>4, <2>1, <3>1
    <3>3. longer[i] = y
      BY <1>1, <2>1
    <3> QED BY <3>1, <3>2, <3>3
  <2>2. CASE i # size + 1
    <3>1. i \in 1 .. size
      BY <1>1, <2>2
    <3>2. i \in DOMAIN s /\ longer[i] = s[i] /\ SubSeq(longer, 1, i) = SubSeq(s, 1, i)
      BY <1>1, <1>3, <3>1
    <3> QED BY <1>5, <3>2 DEF FreshIn
  <2> QED BY <2>1, <2>2
<1> QED BY <1>5 DEF FreshIn, longer

\* A later request changes nothing for the answers to earlier ones.
LEMMA FreshAsked ==
  ASSUME NEW s \in Seq(Replies), NEW a \in Seq(0 .. MaxVersion), NEW v \in 0 .. MaxVersion,
         FreshIn(s, a), NumberOf(s, Answers) <= Len(a)
  PROVE  FreshIn(s, Append(a, v))
<1>1. /\ Len(a) \in Nat /\ NumberOf(s, Answers) \in Nat /\ DOMAIN s = 1 .. Len(s)
      /\ \A k \in 1 .. Len(a) : Append(a, v)[k] = a[k]
  BY AppendProperties, LenProperties, CountType
<1>2. ASSUME NEW i \in DOMAIN s, s[i] \in Answers
      PROVE  s[i].version >= Append(a, v)[NumberOf(SubSeq(s, 1, i), Answers)]
  <2> DEFINE k == NumberOf(SubSeq(s, 1, i), Answers)
  <2>1. k \in 1 .. NumberOf(s, Answers)
    BY <1>1, <1>2, CountPrefix
  <2>2. s[i].version >= a[k]
    BY <1>2 DEF FreshIn
  <2> HIDE DEF k
  <2>3. Append(a, v)[k] = a[k]
    BY <1>1, <2>1
  <2>4. s[i].version >= Append(a, v)[k]
    BY <2>2, <2>3
  <2> QED BY <2>4 DEF k
<1> QED BY <1>2 DEF FreshIn

\* An answer and its request leave together; a prefix leaves alone.
LEMMA FreshTail ==
  ASSUME NEW s \in Seq(Replies), s # <<>>, NEW a \in Seq(0 .. MaxVersion), FreshIn(s, a),
         NumberOf(s, Answers) <= Len(a), NEW b,
         b = IF Head(s) \in Answers THEN Tail(a) ELSE a
  PROVE  /\ FreshIn(Tail(s), b)
         /\ Len(b) = Len(a) - One(Head(s), Answers)
         /\ \A k \in 1 .. Len(b) : b[k] = a[k + One(Head(s), Answers)]
<1> DEFINE rest == Tail(s)
           gone == One(Head(s), Answers)
<1>1. /\ NumberOf(s, Answers) = gone + NumberOf(rest, Answers)
      /\ \A i \in 1 .. Len(rest) :
           /\ i + 1 \in 1 .. Len(s) /\ rest[i] = s[i + 1]
           /\ NumberOf(SubSeq(s, 1, i + 1), Answers) =
                gone + NumberOf(SubSeq(rest, 1, i), Answers)
  BY CountTail
<1>2. /\ rest \in Seq(Replies) /\ DOMAIN rest = 1 .. Len(rest) /\ DOMAIN s = 1 .. Len(s)
      /\ Len(a) \in Nat /\ gone \in {0, 1} /\ (gone = 1 <=> Head(s) \in Answers)
  BY HeadTailProperties, LenProperties DEF One
<1>3. NumberOf(s, Answers) \in Nat /\ NumberOf(rest, Answers) \in Nat
  BY <1>2, CountType
<1>4. Len(b) = Len(a) - gone /\ \A k \in 1 .. Len(b) : b[k] = a[k + gone]
  <2>1. CASE Head(s) \in Answers
    <3>1. gone = 1 /\ b = Tail(a)
      BY <1>2, <2>1
    <3>2. Len(a) # 0
      BY <1>1, <1>2, <1>3, <3>1
    <3>3. a # <<>>
      BY <3>2
    <3> HIDE DEF gone
    <3> QED BY <3>1, <3>3, HeadTailProperties
  <2>2. CASE Head(s) \notin Answers
    <3>1. gone = 0 /\ b = a
      BY <1>2, <2>2
    <3> HIDE DEF gone
    <3> QED BY <1>2, <3>1
  <2> QED BY <2>1, <2>2
<1> HIDE DEF rest, gone
<1>5. ASSUME NEW i \in DOMAIN rest, rest[i] \in Answers
      PROVE  rest[i].version >= b[NumberOf(SubSeq(rest, 1, i), Answers)]
  <2> DEFINE k == NumberOf(SubSeq(rest, 1, i), Answers)
  <2>1. k \in 1 .. NumberOf(rest, Answers)
    BY <1>2, <1>5, CountPrefix
  <2>2. /\ i + 1 \in DOMAIN s /\ rest[i] = s[i + 1]
        /\ NumberOf(SubSeq(s, 1, i + 1), Answers) = gone + k
    BY <1>1, <1>2
  <2>3. s[i + 1].version >= a[gone + k]
    BY <1>5, <2>2 DEF FreshIn
  <2> HIDE DEF k
  <2>4. k \in 1 .. Len(b) /\ gone + k = k + gone
    BY <1>1, <1>2, <1>3, <1>4, <2>1
  <2>5. rest[i].version >= b[k]
    BY <1>4, <2>2, <2>3, <2>4
  <2> QED BY <2>5 DEF k
<1> QED BY <1>4, <1>5 DEF FreshIn, rest, gone
\* The client's connection is one that the worker still serves.
Connected == pipe = "open" /\ worker \notin {"close", "closeLast"}

\* Requests are counted while the connection is served; a pipe that no client
\* has opened is empty; no request is from a time the store has not reached.
Counted ==
  /\ RequestsConserved
  /\ AnswersAreFresh
  /\ pipe \in {"absent", "listening"} => rx = <<>> /\ tx = <<>> /\ asked = <<>>
  /\ pipe = "listening" => worker \in WaitingStates \cup {"close", "closeLast"}
  /\ \A k \in 1 .. Len(asked) : asked[k] <= store

\* AnswersAreFresh, with its first part named.
LEMMA FreshnessIs ==
  AnswersAreFresh <=>
    (Connected =>
       /\ FreshIn(tx, asked)
       /\ Answering => response >= asked[NumberOf(tx, Answers) + 1])
BY DEF AnswersAreFresh, Connected, FreshIn

LEMMA ConservationIs ==
  RequestsConserved <=>
    (Connected =>
       Len(asked) = NumberOf(receiveBuffer \o rx, Requests) + NumberOf(tx, Answers)
                      + (IF Answering THEN 1 ELSE 0))
BY DEF RequestsConserved, Connected

\* The numbers the two are about.
LEMMA CountedNumbers ==
  ASSUME IInv
  PROVE  /\ receiveBuffer \o rx \in Seq(Pieces) /\ tx \in Seq(Replies)
         /\ receiveBuffer \in Seq(Pieces) /\ rx \in Seq(Pieces)
         /\ asked \in Seq(0 .. MaxVersion)
         /\ Len(asked) \in Nat
         /\ NumberOf(receiveBuffer \o rx, Requests) \in Nat
         /\ NumberOf(tx, Answers) \in Nat
<1>1. /\ receiveBuffer \in Seq(Pieces) /\ rx \in Seq(Pieces) /\ tx \in Seq(Replies)
      /\ asked \in Seq(0 .. MaxVersion)
  BY DEF IInv, TypeOK
<1>2. receiveBuffer \o rx \in Seq(Pieces)
  BY <1>1, ConcatProperties
<1> QED BY <1>1, <1>2, CountType, LenProperties

\* Steps that move no piece and answer nothing.
LEMMA CountedStays ==
  ASSUME Counted,
         UNCHANGED <<rx, tx, asked, receiveBuffer, response, store>>,
         Connected' => Connected /\ (Answering' <=> Answering),
         pipe' \in {"absent", "listening"} => pipe \in {"absent", "listening"},
         pipe' = "listening" => worker' \in WaitingStates \cup {"close", "closeLast"}
  PROVE  Counted'
<1>1. /\ rx' = rx /\ tx' = tx /\ asked' = asked /\ receiveBuffer' = receiveBuffer
      /\ response' = response /\ store' = store
  OBVIOUS
<1>2. RequestsConserved'
  <2>1. (RequestsConserved <=>
           (Connected =>
              Len(asked) = NumberOf(receiveBuffer \o rx, Requests) + NumberOf(tx, Answers)
                             + (IF Answering THEN 1 ELSE 0)))'
    BY ConservationIs, PTL
  <2>2. ASSUME Connected'
        PROVE  Len(asked') = NumberOf(receiveBuffer' \o rx', Requests)
                               + NumberOf(tx', Answers) + (IF Answering' THEN 1 ELSE 0)
    <3>1. Connected /\ (Answering' <=> Answering)
      BY <2>2
    <3>2. Len(asked) = NumberOf(receiveBuffer \o rx, Requests) + NumberOf(tx, Answers)
                         + (IF Answering THEN 1 ELSE 0)
      BY <3>1, ConservationIs DEF Counted
    <3>3. (IF Answering' THEN 1 ELSE 0) = (IF Answering THEN 1 ELSE 0)
      BY <3>1, Zenon
    <3> QED BY <1>1, <3>2, <3>3, Zenon
  <2> QED BY <2>1, <2>2, Zenon
<1>3. AnswersAreFresh'
  <2>1. (AnswersAreFresh <=>
           (Connected =>
              /\ FreshIn(tx, asked)
              /\ Answering => response >= asked[NumberOf(tx, Answers) + 1]))'
    BY FreshnessIs, PTL
  <2>2. ASSUME Connected'
        PROVE  /\ FreshIn(tx', asked')
               /\ Answering' => response' >= asked'[NumberOf(tx', Answers) + 1]
    <3>1. Connected /\ (Answering' <=> Answering)
      BY <2>2
    <3>2. /\ FreshIn(tx, asked)
          /\ Answering => response >= asked[NumberOf(tx, Answers) + 1]
      BY <3>1, FreshnessIs DEF Counted
    <3> QED BY <1>1, <3>1, <3>2, Zenon
  <2> QED BY <2>1, <2>2, Zenon
<1> QED BY <1>1, <1>2, <1>3 DEF Counted

\* What a step makes of a connection, counted anew.
LEMMA CountedAnew ==
  ASSUME Connected' =>
           /\ Len(asked') = NumberOf(receiveBuffer' \o rx', Requests)
                              + NumberOf(tx', Answers) + (IF Answering' THEN 1 ELSE 0)
           /\ FreshIn(tx', asked')
           /\ Answering' => response' >= asked'[NumberOf(tx', Answers) + 1],
         pipe' \in {"absent", "listening"} => rx' = <<>> /\ tx' = <<>> /\ asked' = <<>>,
         pipe' = "listening" => worker' \in WaitingStates \cup {"close", "closeLast"},
         \A k \in 1 .. Len(asked') : asked'[k] <= store'
  PROVE  Counted'
<1>1. (RequestsConserved <=>
         (Connected =>
            Len(asked) = NumberOf(receiveBuffer \o rx, Requests) + NumberOf(tx, Answers)
                           + (IF Answering THEN 1 ELSE 0)))'
  BY ConservationIs, PTL
<1>2. (AnswersAreFresh <=>
         (Connected =>
            /\ FreshIn(tx, asked)
            /\ Answering => response >= asked[NumberOf(tx, Answers) + 1]))'
  BY FreshnessIs, PTL
<1>3. RequestsConserved' /\ AnswersAreFresh'
  BY <1>1, <1>2, Zenon
<1> QED BY <1>3 DEF Counted

\* An empty pipe has no requests and no answers.
LEMMA CountedNone ==
  ASSUME rx' = <<>>, tx' = <<>>, asked' = <<>>,
         Connected' => receiveBuffer' = <<>> /\ ~Answering',
         pipe' = "listening" => worker' \in WaitingStates \cup {"close", "closeLast"}
  PROVE  Counted'
<1>1. \A k \in 1 .. Len(asked') : asked'[k] <= store'
  BY EmptySeq
<1>2. FreshIn(<<>>, asked')
  BY DEF FreshIn
<1>3. /\ NumberOf(<<>>, Answers) = 0 /\ NumberOf(<<>>, Requests) = 0 /\ Len(<<>>) = 0
      /\ <<>> \o <<>> = <<>>
  BY CountFew
<1>4. ASSUME Connected'
      PROVE  /\ Len(asked') = NumberOf(receiveBuffer' \o rx', Requests)
                                + NumberOf(tx', Answers) + (IF Answering' THEN 1 ELSE 0)
             /\ FreshIn(tx', asked')
             /\ Answering' => response' >= asked'[NumberOf(tx', Answers) + 1]
  <2>1. receiveBuffer' = <<>> /\ ~Answering'
    BY <1>4
  <2>2. (IF Answering' THEN 1 ELSE 0) = 0
    BY <2>1, Zenon
  <2>3. receiveBuffer' \o rx' = <<>>
    BY <1>3, <2>1
  <2>4. Len(asked') = 0 /\ NumberOf(receiveBuffer' \o rx', Requests) = 0
        /\ NumberOf(tx', Answers) = 0
    BY <1>3, <2>3
  <2>5. Len(asked') = NumberOf(receiveBuffer' \o rx', Requests)
                        + NumberOf(tx', Answers) + (IF Answering' THEN 1 ELSE 0)
    BY <2>2, <2>4
  <2> QED BY <1>2, <2>1, <2>5
<1> QED BY <1>1, <1>4, CountedAnew
\* The owner, and the worker's steps between its calls on the pipe.
LEMMA CountedControl ==
  ASSUME IInv, Decoded, Counted,
         \/ Start \/ StopCall \/ OwnerStep
         \/ SecurityDescriptor \/ LoopTest \/ CreateNamedPipe \/ CreateNamedPipeFails
         \/ ConnectNamedPipe \/ ConnectReturns \/ ReadTest \/ ReadFile
         \/ WriteTest \/ WriteFile
  PROVE  Counted'
<1> USE DEF ownerVars, pipeVars, answerVars, Connected, Answering
<1>1. pipe = "listening" => worker \in WaitingStates \cup {"close", "closeLast"}
  BY DEF Counted
<1>2. CASE Start \/ StopCall \/ CloseWake \/ Cancel \/ Join
  <2>1. pipe = "absent" => worker \notin ServingStates
    BY DEF IInv, OneInstance
  <2>2. worker = "none" \/ worker \in {"done", "failed"} => pipe = "absent"
    BY DEF IInv, OneInstance
  <2> QED BY <1>1, <1>2, <2>1, <2>2, CountedStays DEF Start, StopCall, CloseWake, Cancel, Join
<1>3. CASE Wake
  <2>1. CASE pipe = "listening" /\ pipe' = "open"
    <3>1. rx' = <<>> /\ tx' = <<>> /\ asked' = <<>>
      BY <1>3, <2>1 DEF Wake, Counted
    <3>2. worker' = worker /\ receiveBuffer' = receiveBuffer
      BY <1>3 DEF Wake
    <3>3. Connected' => receiveBuffer' = <<>> /\ ~Answering'
      BY <1>1, <2>1, <3>2 DEF Decoded
    <3> QED BY <2>1, <3>1, <3>3, CountedNone
  <2>2. CASE UNCHANGED <<pipe, peer>>
    BY <1>1, <1>3, <2>2, CountedStays DEF Wake
  <2> QED BY <1>3, <2>1, <2>2 DEF Wake
<1>4. CASE CreateNamedPipe
  <2>1. pipe = "absent"
    BY <1>4 DEF CreateNamedPipe, IInv, OneInstance
  <2> QED BY <1>4, <2>1, CountedStays DEF CreateNamedPipe
<1>5. CASE SecurityDescriptor \/ LoopTest \/ CreateNamedPipeFails \/ ConnectNamedPipe
  <2>1. /\ UNCHANGED <<pipe, rx, tx, asked, receiveBuffer, response, written, store>>
        /\ \/ worker \notin ServingStates
           \/ worker = "connect" /\ worker' = "connecting"
    BY <1>5 DEF SecurityDescriptor, LoopTest, CreateNamedPipeFails, ConnectNamedPipe, Goes
  <2>2. worker \notin ServingStates => pipe = "absent"
    BY DEF IInv, OneInstance
  <2> QED BY <1>1, <2>1, <2>2, CountedStays
<1>6. CASE ConnectReturns
  <2>1. worker' \in {"closeLast", "readTest", "close"}
    BY <1>6 DEF ConnectReturns
  <2>2. pipe = "listening" => worker' \in {"closeLast", "close"}
    BY <1>6 DEF ConnectReturns, IoDone
  <2> QED BY <1>6, <2>1, <2>2, CountedStays DEF ConnectReturns
<1>7. CASE ReadTest \/ ReadFile
  BY <1>1, <1>7, CountedStays DEF ReadTest, ReadFile, Goes
<1>8. CASE WriteTest \/ WriteFile
  <2>1. /\ worker \in WriteStates
        /\ \/ worker' \in WriteStates \cup {"close"}
           \/ written = 2 /\ worker' = "decode"
    BY <1>8 DEF WriteTest, WriteFile, FrameSent, AfterResponse, Goes
  <2> QED BY <1>1, <1>8, <2>1, CountedStays DEF WriteTest, WriteFile, Goes
<1> QED BY <1>2, <1>3, <1>4, <1>5, <1>6, <1>7, <1>8 DEF OwnerStep

\* A read moves pieces from the pipe to receive_buffer: together they are the same.
LEMMA CountedRead == ASSUME IInv, Counted, ReadReturns PROVE Counted'
<1> USE DEF ownerVars, answerVars, Connected, Answering
<1>1. /\ worker = "reading" /\ pipe' = pipe
      /\ tx' = tx /\ asked' = asked /\ response' = response /\ store' = store
      /\ worker' \in {"decode", "close"}
  BY DEF ReadReturns, AfterFailedRead
<1>2. pipe # "listening" /\ pipe # "absent"
  BY <1>1 DEF Counted, IInv, OneInstance
<1>3. CASE UNCHANGED <<receiveBuffer, rx>>
  BY <1>1, <1>2, <1>3, CountedStays
<1>4. CASE \E n \in 1 .. Len(rx) :
             /\ receiveBuffer' = receiveBuffer \o SubSeq(rx, 1, n)
             /\ rx' = SubSeq(rx, n + 1, Len(rx))
  <2>1. receiveBuffer' \o rx' = receiveBuffer \o rx
    <3>1. PICK n \in 1 .. Len(rx) :
             /\ receiveBuffer' = receiveBuffer \o SubSeq(rx, 1, n)
             /\ rx' = SubSeq(rx, n + 1, Len(rx))
      BY <1>4
    <3>2. rx \in Seq(Pieces) /\ receiveBuffer \in Seq(Pieces) /\ n \in 0 .. Len(rx)
      BY CountedNumbers
    <3> DEFINE taken == SubSeq(rx, 1, n)
               left == SubSeq(rx, n + 1, Len(rx))
    <3>3. taken \in Seq(Pieces) /\ left \in Seq(Pieces) /\ rx = taken \o left
      BY <3>2, CutAt
    <3> HIDE DEF taken, left
    <3>4. (receiveBuffer \o taken) \o left = receiveBuffer \o (taken \o left)
      BY <3>2, <3>3, ConcatAssociative
    <3> QED BY <3>1, <3>3, <3>4 DEF taken, left
  <2>2. ASSUME Connected'
        PROVE  /\ Len(asked') = NumberOf(receiveBuffer' \o rx', Requests)
                                  + NumberOf(tx', Answers) + (IF Answering' THEN 1 ELSE 0)
               /\ FreshIn(tx', asked')
               /\ Answering' => response' >= asked'[NumberOf(tx', Answers) + 1]
    <3>1. Connected /\ ~Answering /\ ~Answering'
      BY <1>1, <2>2
    <3>2. (IF Answering' THEN 1 ELSE 0) = (IF Answering THEN 1 ELSE 0)
      BY <3>1, Zenon
    <3>3. /\ Len(asked) = NumberOf(receiveBuffer \o rx, Requests) + NumberOf(tx, Answers)
                            + (IF Answering THEN 1 ELSE 0)
          /\ FreshIn(tx, asked)
      BY <3>1, ConservationIs, FreshnessIs DEF Counted
    <3> HIDE DEF Answering
    <3> QED BY <1>1, <2>1, <3>1, <3>2, <3>3, Zenon
  <2>3. \A k \in 1 .. Len(asked') : asked'[k] <= store'
    BY <1>1 DEF Counted
  <2> QED BY <1>1, <1>2, <2>2, <2>3, CountedAnew
<1> QED BY <1>3, <1>4 DEF ReadReturns

\* The decode loop finds a request where its two pieces come first.
LEMMA RequestAhead ==
  ASSUME NEW buffer \in Seq(Pieces), FrameStatus(buffer) = "request"
  PROVE  /\ 2 \in 1 .. Len(buffer)
         /\ buffer[1] = Piece("header", "valid") /\ buffer[2] = Piece("body", "valid")
<1>1. buffer # <<>>
  BY NothingReceived
<1>2. Len(buffer) \in Nat /\ Len(buffer) # 0
  BY <1>1, EmptySeq
<1>3. buffer[1].kind # "badLength"
  <2>1. buffer # <<>> /\ buffer[1].kind = "badLength" => FrameStatus(buffer) = "invalidLength"
    BY <1>1, Zenon DEF FrameStatus
  <2> QED BY <1>1, <2>1
<1>4. Len(buffer) # 1
  <2>1. Len(buffer) = 1 => FrameStatus(buffer) = "incomplete"
    BY <1>1, <1>3, Zenon DEF FrameStatus
  <2> QED BY <2>1
<1>5. FrameStatus(buffer) =
        IF buffer[1] = Piece("header", "valid") /\ buffer[2] = Piece("body", "valid")
        THEN "request" ELSE "rejected"
  BY <1>1, <1>3, <1>4, Zenon DEF FrameStatus
<1>6. buffer[1] = Piece("header", "valid") /\ buffer[2] = Piece("body", "valid")
  BY <1>5
<1>7. 2 \in 1 .. Len(buffer)
  <2> DEFINE size == Len(buffer)
  <2>1. size \in Nat /\ size # 0 /\ size # 1
    BY <1>2, <1>4
  <2> HIDE DEF size
  <2>2. 2 \in 1 .. size
    BY <2>1
  <2> QED BY <2>2 DEF size
<1> QED BY <1>6, <1>7

\* Taking a request off receive_buffer takes one off the requests.
LEMMA CountErased ==
  ASSUME NEW buffer \in Seq(Pieces), NEW bytes \in Seq(Pieces),
         FrameStatus(buffer) = "request"
  PROVE  /\ Erase(buffer) \in Seq(Pieces)
         /\ NumberOf(buffer \o bytes, Requests) = 1 + NumberOf(Erase(buffer) \o bytes, Requests)
<1>1. /\ 2 \in 0 .. Len(buffer)
      /\ 2 \in 1 .. Len(buffer)
      /\ buffer[1] = Piece("header", "valid") /\ buffer[2] = Piece("body", "valid")
  BY RequestAhead
<1> DEFINE frame == SubSeq(buffer, 1, 2)
           left == SubSeq(buffer, 2 + 1, Len(buffer))
           H == Piece("header", "valid")
           B == Piece("body", "valid")
<1>2. frame \in Seq(Pieces) /\ left \in Seq(Pieces) /\ buffer = frame \o left
  BY <1>1, CutAt
<1>3. Erase(buffer) = left
  BY DEF Erase
<1>4. H \in Pieces /\ B \in Pieces /\ One(H, Requests) = 0 /\ One(B, Requests) = 1
  BY DEF One, Requests, Piece, Pieces, Kinds
<1>5. frame = <<H, B>>
  <2>1. /\ Len(frame) = 2 /\ frame[1] = H /\ frame[2] = B
    <3>1. /\ 1 \in Int /\ 2 \in Int /\ 1 <= 2 /\ 2 - 1 + 1 = 2
          /\ \A i \in 1 .. 2 : buffer[i] \in Pieces
      BY <1>1, <1>4
    <3> QED BY <1>1, <3>1, SubSeqProperties
  <2>2. <<H, B>> \in Seq(Pieces) /\ Len(<<H, B>>) = 2 /\ <<H, B>>[1] = H /\ <<H, B>>[2] = B
    BY <1>4
  <2> HIDE DEF frame, H, B
  <2>3. \A i \in 1 .. Len(frame) : frame[i] = <<H, B>>[i]
    BY <2>1, <2>2
  <2> QED BY <1>2, <2>1, <2>2, <2>3, SeqEqual
<1> HIDE DEF H, B, frame, left
<1>6. NumberOf(frame, Requests) = 1
  BY <1>4, <1>5, CountPair
<1>7. NumberOf(buffer, Requests) = NumberOf(frame, Requests) + NumberOf(left, Requests)
  BY <1>2, CountConcat
<1>8. NumberOf(buffer \o bytes, Requests) = NumberOf(buffer, Requests) + NumberOf(bytes, Requests)
  BY CountConcat
<1>9. NumberOf(left \o bytes, Requests) = NumberOf(left, Requests) + NumberOf(bytes, Requests)
  BY <1>2, CountConcat
<1>10. NumberOf(left, Requests) \in Nat /\ NumberOf(bytes, Requests) \in Nat
  BY <1>2, CountType
<1> QED BY <1>2, <1>3, <1>6, <1>7, <1>8, <1>9, <1>10

\* make_response takes the store's snapshot, which no request is ahead of.
LEMMA CountedDecode == ASSUME IInv, Counted, Decode PROVE Counted'
<1> DEFINE status == FrameStatus(receiveBuffer)
<1>1. /\ worker = "decode" /\ pipe' = pipe /\ rx' = rx
      /\ tx' = tx /\ asked' = asked /\ store' = store
  BY DEF Decode, pipeVars
<1>2. pipe # "listening" /\ pipe # "absent"
  BY <1>1 DEF Counted, IInv, OneInstance
<1>3. \A k \in 1 .. Len(asked') : asked'[k] <= store'
  BY <1>1 DEF Counted
<1>4. CASE status = "request"
  <2>1. /\ worker' = "writeTest" /\ receiveBuffer' = Erase(receiveBuffer)
        /\ response' = store /\ written' = 0
    BY <1>4 DEF Decode, Snapshot
  <2>2. ASSUME Connected'
        PROVE  /\ Len(asked') = NumberOf(receiveBuffer' \o rx', Requests)
                                  + NumberOf(tx', Answers) + (IF Answering' THEN 1 ELSE 0)
               /\ FreshIn(tx', asked')
               /\ Answering' => response' >= asked'[NumberOf(tx', Answers) + 1]
    <3>1. Connected /\ ~Answering /\ Answering'
      BY <1>1, <2>1, <2>2 DEF Connected, Answering
    <3>2. (IF Answering' THEN 1 ELSE 0) = 1 /\ (IF Answering THEN 1 ELSE 0) = 0
      BY <3>1, Zenon
    <3>3. /\ Len(asked) = NumberOf(receiveBuffer \o rx, Requests) + NumberOf(tx, Answers)
                            + (IF Answering THEN 1 ELSE 0)
          /\ FreshIn(tx, asked)
      BY <3>1, ConservationIs, FreshnessIs DEF Counted
    <3> HIDE DEF status
    <3> DEFINE before == NumberOf(receiveBuffer \o rx, Requests)
               after == NumberOf(receiveBuffer' \o rx', Requests)
               sent == NumberOf(tx, Answers)
               one == IF Answering' THEN 1 ELSE 0
               none == IF Answering THEN 1 ELSE 0
               due == Len(asked)
    <3>4. before = 1 + after
      BY <1>1, <1>4, <2>1, CountedNumbers, CountErased DEF status
    <3>5. after \in Nat /\ sent \in Nat /\ due \in Nat
      <4>1. Erase(receiveBuffer) \in Seq(Pieces)
        BY <1>4, CountedNumbers, CountErased DEF status
      <4>2. receiveBuffer' \o rx' \in Seq(Pieces)
        BY <1>1, <2>1, <4>1, CountedNumbers, ConcatProperties
      <4> QED BY <4>2, CountType, CountedNumbers
    <3>6. due = before + sent + none /\ one = 1 /\ none = 0
      BY <3>2, <3>3
    <3> HIDE DEF before, after, sent, one, none, due
    <3>7. due = after + sent + one /\ sent + 1 \in 1 .. due
      BY <3>4, <3>5, <3>6
    <3>8. asked[sent + 1] <= store
      BY <3>7 DEF Counted, due
    <3>9. store >= asked[sent + 1]
      <4>1. asked[sent + 1] \in 0 .. MaxVersion
        BY <3>7, CountedNumbers, ElementOfSeq DEF due
      <4> QED BY <3>8, <4>1, BoundsAssumption DEF IInv, TypeOK
    <3>10. Len(asked') = after + NumberOf(tx', Answers) + one
      BY <1>1, <3>7 DEF sent, due
    <3>11. response' >= asked'[NumberOf(tx', Answers) + 1]
      BY <1>1, <2>1, <3>9 DEF sent
    <3> QED BY <1>1, <3>3, <3>10, <3>11 DEF after, one
  <2> QED BY <1>1, <1>2, <1>3, <2>2, CountedAnew
<1>5. CASE status # "request"
  <2>1. /\ worker' \in {"readTest", "close"} /\ response' = response
        /\ (worker' = "readTest" => status = "incomplete")
    BY <1>5 DEF Decode
  <2>2. worker' = "readTest" => receiveBuffer' = receiveBuffer
    BY <2>1 DEF Decode
  <2>3. CASE worker' = "readTest"
    <3>1. ~Answering /\ ~Answering' /\ (Connected' => Connected)
      BY <1>1, <2>3 DEF Answering, Connected
    <3> QED BY <1>1, <1>2, <2>1, <2>2, <2>3, <3>1, CountedStays
  <2>4. CASE worker' = "close"
    BY <1>1, <1>2, <1>3, <2>4, CountedAnew DEF Connected
  <2> QED BY <2>1, <2>3, <2>4
<1> QED BY <1>4, <1>5

\* A write that completes the answer counts it as sent instead of under way.
LEMMA CountedWrite == ASSUME IInv, Counted, WriteReturns PROVE Counted'
<1>1. /\ worker = "writing" /\ pipe' = pipe /\ rx' = rx /\ receiveBuffer' = receiveBuffer
      /\ asked' = asked /\ response' = response /\ store' = store
      /\ worker' \in {"writeTest", "close"}
  BY DEF WriteReturns, ownerVars
<1>2. pipe # "listening" /\ pipe # "absent"
  BY <1>1 DEF Counted, IInv, OneInstance
<1>3. \A k \in 1 .. Len(asked') : asked'[k] <= store'
  BY <1>1 DEF Counted
<1>4. CASE worker' = "close"
  BY <1>1, <1>2, <1>3, <1>4, CountedAnew DEF Connected
<1>5. CASE worker' = "writeTest"
  <2>1. PICK n \in 1 .. FrameSize - written :
          /\ tx' = tx \o SubSeq(ResponseFrame(response), written + 1, written + n)
          /\ written' = AddWritten(written, n)
    BY <1>5 DEF WriteReturns
  <2>2. /\ tx \in Seq(Replies) /\ response \in 0 .. MaxVersion /\ written \in 0 .. 2
    BY DEF IInv, TypeOK
  <2> DEFINE H == Reply("header", response)
             B == Reply("body", response)
  <2>3. /\ H \in Replies /\ B \in Replies /\ B.version = response
        /\ H \notin Answers /\ B \in Answers
    BY <2>2, WrittenParts DEF Answers
  <2>4. \/ written' = 1 /\ written = 0 /\ tx' = Append(tx, H)
        \/ written' = 2 /\ written < 2 /\ tx' = Append(Append(tx, H), B)
        \/ written' = 2 /\ written < 2 /\ tx' = Append(tx, B)
    <3>1. \/ written = 0 /\ n = 1
          \/ written = 0 /\ n = 2
          \/ written = 1 /\ n = 1
      BY <2>2
    <3>2. CASE written = 0 /\ n = 1
      BY <2>1, <2>2, <3>2, WrittenParts DEF AddWritten
    <3>3. CASE written = 0 /\ n = 2
      BY <2>1, <2>2, <3>3, WrittenParts DEF AddWritten
    <3>4. CASE written = 1 /\ n = 1
      BY <2>1, <2>2, <3>4, WrittenParts DEF AddWritten
    <3> QED BY <3>1, <3>2, <3>3, <3>4
  <2> HIDE DEF H, B
  <2>5. ASSUME Connected'
        PROVE  /\ Len(asked') = NumberOf(receiveBuffer' \o rx', Requests)
                                  + NumberOf(tx', Answers) + (IF Answering' THEN 1 ELSE 0)
               /\ FreshIn(tx', asked')
               /\ Answering' => response' >= asked'[NumberOf(tx', Answers) + 1]
    <3> DEFINE unread == NumberOf(receiveBuffer \o rx, Requests)
               sent == NumberOf(tx, Answers)
               due == Len(asked)
    <3>1. Connected /\ Answering
      BY <1>1, <2>2, <2>4, <2>5 DEF Connected, Answering
    <3>2. (IF Answering THEN 1 ELSE 0) = 1
      BY <3>1, Zenon
    <3>3. /\ due = unread + sent + (IF Answering THEN 1 ELSE 0)
          /\ FreshIn(tx, asked) /\ response >= asked[sent + 1]
      BY <3>1, ConservationIs, FreshnessIs DEF Counted
    <3>4. unread \in Nat /\ sent \in Nat /\ due \in Nat
      BY CountedNumbers
    <3>5. One(H, Answers) = 0 /\ One(B, Answers) = 1
      BY <2>3 DEF One
    \* A prefix is sent, the payload is still to come.
    <3>6. CASE written' = 1 /\ tx' = Append(tx, H)
      <4>1. Answering'
        BY <1>5, <3>6 DEF Answering
      <4>2. (IF Answering' THEN 1 ELSE 0) = 1
        BY <4>1, Zenon
      <4>3. NumberOf(tx', Answers) = sent + 0
        BY <2>2, <2>3, <3>5, <3>6, CountAppend
      <4>4. FreshIn(tx', asked)
        BY <2>2, <2>3, <3>3, <3>6, FreshAppend
      <4>5. NumberOf(tx', Answers) = sent
        BY <3>4, <4>3
      <4>6. Len(asked') = NumberOf(receiveBuffer' \o rx', Requests)
                            + NumberOf(tx', Answers) + (IF Answering' THEN 1 ELSE 0)
        BY <1>1, <3>2, <3>3, <4>2, <4>5
      <4> QED BY <1>1, <3>3, <4>4, <4>5, <4>6
    \* The payload is sent.
    <3>7. ASSUME NEW s \in Seq(Replies), FreshIn(s, asked), NumberOf(s, Answers) = sent,
                 written' = 2, tx' = Append(s, B)
          PROVE  /\ Len(asked') = NumberOf(receiveBuffer' \o rx', Requests)
                                    + NumberOf(tx', Answers) + (IF Answering' THEN 1 ELSE 0)
                 /\ FreshIn(tx', asked')
                 /\ Answering' => response' >= asked'[NumberOf(tx', Answers) + 1]
      <4>1. ~Answering'
        BY <3>7 DEF Answering
      <4>2. (IF Answering' THEN 1 ELSE 0) = 0
        BY <4>1, Zenon
      <4>3. NumberOf(tx', Answers) = sent + 1
        BY <2>3, <3>5, <3>7, CountAppend
      <4>4. FreshIn(tx', asked)
        BY <2>3, <3>3, <3>7, FreshAppend
      <4>5. due = unread + sent + 1
        BY <3>2, <3>3
      <4>6. due = unread + (sent + 1) + 0
        BY <3>4, <4>5
      <4>7. Len(asked') = NumberOf(receiveBuffer' \o rx', Requests)
                            + NumberOf(tx', Answers) + (IF Answering' THEN 1 ELSE 0)
        BY <1>1, <4>2, <4>3, <4>6
      <4> QED BY <1>1, <4>1, <4>4, <4>7
    <3>8. CASE written' = 2 /\ tx' = Append(tx, B)
      BY <2>2, <3>3, <3>7, <3>8
    <3>9. CASE written' = 2 /\ tx' = Append(Append(tx, H), B)
      <4> DEFINE s == Append(tx, H)
      <4>1. s \in Seq(Replies)
        BY <2>2, <2>3, AppendProperties
      <4>2. NumberOf(s, Answers) = sent
        <5>1. NumberOf(s, Answers) = sent + 0
          BY <2>2, <2>3, <3>5, CountAppend
        <5> QED BY <3>4, <5>1
      <4>3. FreshIn(s, asked)
        BY <2>2, <2>3, <3>3, FreshAppend
      <4>4. tx' = Append(s, B)
        BY <3>9
      <4> HIDE DEF s
      <4> QED BY <3>7, <3>9, <4>1, <4>2, <4>3, <4>4
    <3> QED BY <2>4, <3>6, <3>8, <3>9
  <2> QED BY <1>1, <1>2, <1>3, <2>5, CountedAnew
<1> QED BY <1>1, <1>4, <1>5

\* What a client sends holds a request when it is valid.
LEMMA CountSent ==
  ASSUME NEW kind \in Kinds
  PROVE  /\ RequestBytes(kind) \in Seq(Pieces)
         /\ NumberOf(RequestBytes(kind), Requests) = IF kind = "valid" THEN 1 ELSE 0
<1> DEFINE H == Piece("header", kind)
           B == Piece("body", kind)
<1>1. /\ H \in Pieces /\ B \in Pieces /\ One(H, Requests) = 0
      /\ One(B, Requests) = IF kind = "valid" THEN 1 ELSE 0
  BY DEF Piece, Pieces, One, Requests
<1>2. CASE kind = "badLength"
  <2>1. RequestBytes(kind) = <<H>>
    BY <1>2 DEF RequestBytes
  <2> HIDE DEF H
  <2>2. NumberOf(<<H>>, Requests) = 0
    BY <1>1, CountFew
  <2> QED BY <1>2, <2>1, <2>2, RequestBytesFit
<1>3. CASE kind # "badLength"
  <2>1. RequestBytes(kind) = <<H, B>>
    BY <1>3 DEF RequestBytes
  <2> HIDE DEF H, B
  <2>2. NumberOf(<<H, B>>, Requests) = One(H, Requests) + One(B, Requests)
    BY <1>1, CountPair
  <2> QED BY <1>1, <2>1, <2>2, RequestBytesFit
<1> QED BY <1>2, <1>3

\* A request that is sent waits behind those that wait already.
LEMMA CountedSend ==
  ASSUME IInv, Counted, NEW c \in Clients, NEW kind \in Kinds, Send(c, kind)
  PROVE  Counted'
<1>1. /\ pipe = "open" /\ pipe' = "open" /\ worker' = worker /\ written' = written
      /\ tx' = tx /\ receiveBuffer' = receiveBuffer /\ response' = response /\ store' = store
      /\ rx' = rx \o RequestBytes(kind)
      /\ asked' = IF kind = "valid" THEN Append(asked, store) ELSE asked
  BY DEF Send, serverVars, answerVars
<1>2. store \in 0 .. MaxVersion
  BY DEF IInv, TypeOK
<1>3. NumberOf(receiveBuffer' \o rx', Requests) =
        NumberOf(receiveBuffer \o rx, Requests) + (IF kind = "valid" THEN 1 ELSE 0)
  <2>1. /\ receiveBuffer \in Seq(Pieces) /\ rx \in Seq(Pieces)
        /\ receiveBuffer \o rx \in Seq(Pieces) /\ RequestBytes(kind) \in Seq(Pieces)
    BY CountedNumbers, CountSent
  <2> DEFINE bytes == RequestBytes(kind)
  <2>2. NumberOf(bytes, Requests) = IF kind = "valid" THEN 1 ELSE 0
    BY CountSent
  <2>3. receiveBuffer' \o rx' = receiveBuffer \o (rx \o bytes)
    BY <1>1
  <2> HIDE DEF bytes
  <2>4. receiveBuffer \o (rx \o bytes) = (receiveBuffer \o rx) \o bytes
    BY <2>1, ConcatAssociative DEF bytes
  <2>5. NumberOf((receiveBuffer \o rx) \o bytes, Requests) =
          NumberOf(receiveBuffer \o rx, Requests) + NumberOf(bytes, Requests)
    BY <2>1, CountConcat DEF bytes
  <2> QED BY <2>2, <2>3, <2>4, <2>5
<1>4. /\ asked \in Seq(0 .. MaxVersion) /\ Len(asked) \in Nat
      /\ Len(Append(asked, store)) = Len(asked) + 1
      /\ \A k \in 1 .. Len(asked) : Append(asked, store)[k] = asked[k]
      /\ Append(asked, store)[Len(asked) + 1] = store
  BY <1>2, CountedNumbers, AppendProperties
<1>5. \A k \in 1 .. Len(asked') : asked'[k] <= store'
  <2>1. \A k \in 1 .. Len(asked) : asked[k] <= store
    BY DEF Counted
  <2>2. CASE kind = "valid"
    <3>1. asked' = Append(asked, store)
      BY <1>1, <2>2
    <3>2. ASSUME NEW k \in 1 .. Len(asked) + 1 PROVE Append(asked, store)[k] <= store
      <4>1. CASE k = Len(asked) + 1
        BY <1>2, <1>4, <4>1
      <4>2. CASE k # Len(asked) + 1
        <5>1. k \in 1 .. Len(asked)
          BY <1>4, <4>2
        <5> QED BY <1>4, <2>1, <5>1
      <4> QED BY <4>1, <4>2
    <3> QED BY <1>1, <1>4, <3>1, <3>2
  <2>3. CASE kind # "valid"
    BY <1>1, <2>1, <2>3
  <2> QED BY <2>2, <2>3
<1>6. ASSUME Connected'
      PROVE  /\ Len(asked') = NumberOf(receiveBuffer' \o rx', Requests)
                                + NumberOf(tx', Answers) + (IF Answering' THEN 1 ELSE 0)
             /\ FreshIn(tx', asked')
             /\ Answering' => response' >= asked'[NumberOf(tx', Answers) + 1]
  <2> DEFINE unread == NumberOf(receiveBuffer \o rx, Requests)
             sent == NumberOf(tx, Answers)
             due == Len(asked)
             one == IF Answering THEN 1 ELSE 0
  <2>1. Connected /\ (Answering' <=> Answering)
    BY <1>1, <1>6 DEF Connected, Answering
  <2>2. (IF Answering' THEN 1 ELSE 0) = one
    BY <2>1, Zenon
  <2>3. /\ due = unread + sent + one
        /\ FreshIn(tx, asked) /\ (Answering => response >= asked[sent + 1])
    BY <2>1, ConservationIs, FreshnessIs DEF Counted
  <2>4. unread \in Nat /\ sent \in Nat /\ due \in Nat /\ one \in {0, 1}
        /\ (Answering => one = 1)
    BY CountedNumbers
  <2> HIDE DEF unread, sent, due, one
  <2>5. sent <= due /\ (Answering => sent + 1 \in 1 .. due)
    BY <2>3, <2>4
  <2>6. CASE kind = "valid"
    <3>1. asked' = Append(asked, store) /\ Len(asked') = due + 1
      BY <1>1, <1>4, <2>6 DEF due
    <3>2. NumberOf(receiveBuffer' \o rx', Requests) = unread + 1
      BY <1>3, <2>6 DEF unread
    <3>3. due + 1 = (unread + 1) + sent + one
      BY <2>3, <2>4
    <3>4. FreshIn(tx', asked')
      <4>1. NumberOf(tx, Answers) <= Len(asked) /\ tx \in Seq(Replies)
        BY <2>5, CountedNumbers DEF sent, due
      <4> QED BY <1>1, <1>2, <1>4, <2>3, <3>1, <4>1, FreshAsked
    <3>5. ASSUME Answering' PROVE response' >= asked'[NumberOf(tx', Answers) + 1]
      <4>1. /\ sent + 1 \in 1 .. Len(asked) /\ response >= asked[sent + 1]
        BY <2>1, <2>3, <2>5, <3>5 DEF due
      <4>2. Append(asked, store)[sent + 1] = asked[sent + 1]
        BY <1>4, <4>1
      <4>3. response' >= asked'[sent + 1]
        BY <1>1, <3>1, <4>1, <4>2
      <4> QED BY <1>1, <4>3 DEF sent
    <3>6. Len(asked') = NumberOf(receiveBuffer' \o rx', Requests)
                          + NumberOf(tx', Answers) + (IF Answering' THEN 1 ELSE 0)
      BY <1>1, <2>2, <3>1, <3>2, <3>3 DEF sent
    <3> QED BY <3>4, <3>5, <3>6
  <2>7. CASE kind # "valid"
    <3>1. asked' = asked /\ NumberOf(receiveBuffer' \o rx', Requests) = unread + 0
      BY <1>1, <1>3, <2>7 DEF unread
    <3>2. NumberOf(receiveBuffer' \o rx', Requests) = unread
      BY <2>4, <3>1
    <3>3. Len(asked') = NumberOf(receiveBuffer' \o rx', Requests)
                          + NumberOf(tx', Answers) + (IF Answering' THEN 1 ELSE 0)
      BY <1>1, <2>2, <2>3, <3>1, <3>2 DEF sent, due
    <3> QED BY <1>1, <2>1, <2>3, <3>1, <3>3 DEF sent
  <2> QED BY <2>6, <2>7
<1> QED BY <1>1, <1>5, <1>6, CountedAnew

\* The client takes a piece of an answer; with the payload its request is answered.
LEMMA CountedReceive ==
  ASSUME IInv, Counted, NEW c \in Clients, Receive(c)
  PROVE  Counted'
<1>1. /\ pipe = "open" /\ pipe' = "open" /\ worker' = worker /\ written' = written
      /\ rx' = rx /\ receiveBuffer' = receiveBuffer /\ response' = response /\ store' = store
      /\ tx # <<>> /\ tx' = Tail(tx)
      /\ asked' = IF Head(tx).part = "body" /\ asked # <<>> THEN Tail(asked) ELSE asked
  BY DEF Receive, serverVars, answerVars
<1>2. /\ tx \in Seq(Replies) /\ asked \in Seq(0 .. MaxVersion) /\ Head(tx) \in Replies
      /\ (Head(tx) \in Answers <=> Head(tx).part = "body")
  BY <1>1, CountedNumbers, HeadTailProperties DEF Answers
<1>3. \A k \in 1 .. Len(asked') : asked'[k] <= store'
  <2>1. \A k \in 1 .. Len(asked) : asked[k] <= store
    BY DEF Counted
  <2>2. CASE asked' = asked
    BY <1>1, <2>1, <2>2
  <2>3. CASE asked # <<>> /\ asked' = Tail(asked)
    <3>1. /\ Len(asked) \in Nat /\ Len(asked') = Len(asked) - 1
          /\ \A k \in 1 .. Len(asked') : asked'[k] = asked[k + 1]
      BY <1>2, <2>3, HeadTailProperties, LenProperties
    <3>2. \A k \in 1 .. Len(asked') : k + 1 \in 1 .. Len(asked)
      BY <3>1
    <3> QED BY <1>1, <2>1, <3>1, <3>2
  <2> QED BY <1>1, <2>2, <2>3
<1>4. ASSUME Connected'
      PROVE  /\ Len(asked') = NumberOf(receiveBuffer' \o rx', Requests)
                                + NumberOf(tx', Answers) + (IF Answering' THEN 1 ELSE 0)
             /\ FreshIn(tx', asked')
             /\ Answering' => response' >= asked'[NumberOf(tx', Answers) + 1]
  <2> DEFINE unread == NumberOf(receiveBuffer \o rx, Requests)
             sent == NumberOf(tx, Answers)
             left == NumberOf(Tail(tx), Answers)
             due == Len(asked)
             one == IF Answering THEN 1 ELSE 0
             gone == One(Head(tx), Answers)
  <2>1. Connected /\ (Answering' <=> Answering)
    BY <1>1, <1>4 DEF Connected, Answering
  <2>2. (IF Answering' THEN 1 ELSE 0) = one
    BY <2>1, Zenon
  <2>3. /\ due = unread + sent + one
        /\ FreshIn(tx, asked) /\ (Answering => response >= asked[sent + 1])
    BY <2>1, ConservationIs, FreshnessIs DEF Counted
  <2>4. unread \in Nat /\ sent \in Nat /\ due \in Nat /\ one \in {0, 1}
        /\ (Answering => one = 1)
    BY CountedNumbers
  <2>5. /\ sent = gone + left /\ left \in Nat /\ gone \in {0, 1}
        /\ (gone = 1 <=> Head(tx) \in Answers)
    <3>1. Tail(tx) \in Seq(Replies)
      BY <1>1, <1>2, HeadTailProperties
    <3>2. left \in Nat
      BY <3>1, CountType
    <3>3. sent = gone + left
      BY <1>1, <1>2, CountTail
    <3>4. gone \in {0, 1} /\ (gone = 1 <=> Head(tx) \in Answers)
      BY DEF One
    <3> QED BY <3>2, <3>3, <3>4
  <2> HIDE DEF unread, sent, left, due, one, gone
  <2>6. asked' = IF Head(tx) \in Answers THEN Tail(asked) ELSE asked
    <3>1. ASSUME Head(tx) \in Answers PROVE asked # <<>>
      <4>1. due # 0
        BY <2>3, <2>4, <2>5, <3>1
      <4> QED BY <4>1 DEF due
    <3> QED BY <1>1, <1>2, <3>1
  <2>7. NumberOf(tx, Answers) <= Len(asked)
    <3>1. sent <= due
      BY <2>3, <2>4
    <3> QED BY <3>1 DEF sent, due
  <2>8. /\ FreshIn(tx', asked')
        /\ Len(asked') = due - gone
        /\ \A k \in 1 .. Len(asked') : asked'[k] = asked[k + gone]
    BY <1>1, <1>2, <2>3, <2>6, <2>7, FreshTail DEF due, gone
  <2>9. Len(asked') = unread + left + one
    BY <2>3, <2>4, <2>5, <2>8
  <2>10. Len(asked') = NumberOf(receiveBuffer' \o rx', Requests)
                         + NumberOf(tx', Answers) + (IF Answering' THEN 1 ELSE 0)
    BY <1>1, <2>2, <2>9 DEF unread, left
  <2>11. ASSUME Answering' PROVE response' >= asked'[NumberOf(tx', Answers) + 1]
    <3> DEFINE rest == Len(asked')
    <3>1. rest = unread + left + one
      BY <2>9
    <3> HIDE DEF rest
    <3>2. left + 1 \in 1 .. rest /\ (left + 1) + gone = sent + 1
      BY <2>1, <2>4, <2>5, <2>11, <3>1
    <3>3. asked'[left + 1] = asked[sent + 1]
      BY <2>8, <3>2 DEF rest
    <3>4. response' >= asked'[left + 1]
      BY <1>1, <2>1, <2>3, <2>11, <3>3
    <3> QED BY <1>1, <3>4 DEF left
  <2> QED BY <2>8, <2>10, <2>11
<1> QED BY <1>1, <1>3, <1>4, CountedAnew

\* The clients and the store.
LEMMA CountedClients ==
  ASSUME IInv, Decoded, Counted, StoreUpdate \/ \E c \in Clients : ClientStep(c)
  PROVE  Counted'
<1> USE DEF ownerVars, pipeVars, answerVars, serverVars
<1>1. CASE StoreUpdate
  <2>1. /\ pipe' = pipe /\ worker' = worker /\ written' = written
        /\ rx' = rx /\ tx' = tx /\ asked' = asked /\ receiveBuffer' = receiveBuffer
        /\ response' = response /\ store' = store + 1
    BY <1>1 DEF StoreUpdate
  <2>2. \A k \in 1 .. Len(asked') : asked'[k] <= store'
    <3>1. ASSUME NEW k \in 1 .. Len(asked) PROVE asked[k] <= store + 1
      <4>1. asked[k] \in 0 .. MaxVersion /\ asked[k] <= store /\ store \in 0 .. MaxVersion
        BY CountedNumbers, ElementOfSeq DEF Counted, IInv, TypeOK
      <4> QED BY <4>1, BoundsAssumption
    <3> QED BY <2>1, <3>1
  <2>3. (Connected' <=> Connected) /\ (Answering' <=> Answering)
    BY <2>1 DEF Connected, Answering
  <2>4. ASSUME Connected'
        PROVE  /\ Len(asked') = NumberOf(receiveBuffer' \o rx', Requests)
                                  + NumberOf(tx', Answers) + (IF Answering' THEN 1 ELSE 0)
               /\ FreshIn(tx', asked')
               /\ Answering' => response' >= asked'[NumberOf(tx', Answers) + 1]
    <3>1. (IF Answering' THEN 1 ELSE 0) = (IF Answering THEN 1 ELSE 0)
      BY <2>3, Zenon
    <3>2. /\ Len(asked) = NumberOf(receiveBuffer \o rx, Requests) + NumberOf(tx, Answers)
                            + (IF Answering THEN 1 ELSE 0)
          /\ FreshIn(tx, asked)
          /\ Answering => response >= asked[NumberOf(tx, Answers) + 1]
      BY <2>3, <2>4, ConservationIs, FreshnessIs DEF Counted
    <3> QED BY <2>1, <2>3, <3>1, <3>2, Zenon
  <2>5. /\ pipe' \in {"absent", "listening"} => rx' = <<>> /\ tx' = <<>> /\ asked' = <<>>
        /\ pipe' = "listening" => worker' \in WaitingStates \cup {"close", "closeLast"}
    BY <2>1 DEF Counted
  <2> QED BY <2>2, <2>4, <2>5, CountedAnew
<1>2. ASSUME NEW c \in Clients, Connect(c) PROVE Counted'
  <2>1. /\ pipe = "listening" /\ worker' = worker /\ receiveBuffer' = receiveBuffer
        /\ pipe' = "open"
    BY <1>2 DEF Connect
  <2>2. rx' = <<>> /\ tx' = <<>> /\ asked' = <<>>
    BY <1>2 DEF Connect, Counted
  <2>3. Connected' => receiveBuffer' = <<>> /\ ~Answering'
    BY <2>1 DEF Connected, Answering, Counted, Decoded
  <2> QED BY <2>1, <2>2, <2>3, CountedNone
<1>3. ASSUME NEW c \in Clients, Hangup(c) \/ CrashMidFrame(c) PROVE Counted'
  <2>1. pipe' = "broken" /\ asked' = <<>>
    BY <1>3 DEF Hangup, CrashMidFrame
  <2>2. ~Connected' /\ \A k \in 1 .. Len(asked') : asked'[k] <= store'
    BY <2>1, EmptySeq DEF Connected
  <2> QED BY <2>1, <2>2, CountedAnew
<1> QED BY <1>1, <1>2, <1>3, CountedSend, CountedReceive DEF ClientStep

LEMMA NextCounted == IInv /\ Decoded /\ Counted /\ [Next]_vars => Counted'
<1> SUFFICES ASSUME IInv, Decoded, Counted, [Next]_vars PROVE Counted'
  OBVIOUS
<1>1. CASE UNCHANGED vars
  <2>1. /\ pipe' = pipe /\ worker' = worker /\ written' = written
        /\ UNCHANGED <<rx, tx, asked, receiveBuffer, response, store>>
    BY <1>1 DEF vars
  <2>2. (Connected' <=> Connected) /\ (Answering' <=> Answering)
    BY <2>1 DEF Connected, Answering
  <2>3. pipe' = "listening" => worker' \in WaitingStates \cup {"close", "closeLast"}
    BY <2>1 DEF Counted
  <2> QED BY <2>1, <2>2, <2>3, CountedStays
<1>2. CASE Close \/ CloseLast
  <2>1. pipe' = "absent" /\ rx' = <<>> /\ tx' = <<>> /\ asked' = <<>>
    BY <1>2 DEF Close, CloseLast, ClosePipe
  <2> QED BY <2>1, CountedNone DEF Connected
<1>3. CASE Next /\ ~(Close \/ CloseLast)
  BY <1>3, CountedControl, CountedRead, CountedDecode, CountedWrite, CountedClients
     DEF Next, WorkerStep
<1> QED BY <1>1, <1>2, <1>3

LEMMA AlwaysCounted == Spec => []Counted
<1>1. Init => Counted
  <2> SUFFICES ASSUME Init PROVE Counted
    OBVIOUS
  <2>1. /\ pipe = "absent" /\ rx = <<>> /\ tx = <<>> /\ asked = <<>>
    BY DEF Init
  <2>2. ~Connected /\ \A k \in 1 .. Len(asked) : asked[k] <= store
    BY <2>1, EmptySeq DEF Connected
  <2> QED BY <2>1, <2>2, ConservationIs, FreshnessIs DEF Counted
<1>2. Init => Decoded
  BY DEF Init, Decoded, ReadsWhenDecoded
<1>3. IInv /\ Decoded /\ Counted /\ [Next]_vars => Counted'
  BY NextCounted
<1> QED BY <1>1, <1>2, <1>3, NextDecoded, InvariantHolds, PTL DEF Spec

\* Over any split of frames into reads and writes, run() neither loses a request
\* nor answers one twice, nor counts in bytes of an earlier client.
THEOREM NoRequestLost == Spec => []RequestsConserved
<1>1. Counted => RequestsConserved
  BY DEF Counted
<1> QED BY <1>1, AlwaysCounted, PTL

\* No answer of make_response is older than the store was when its request was
\* sent, however many requests are under way.
THEOREM NoAnswerIsStale == Spec => []AnswersAreFresh
<1>1. Counted => AnswersAreFresh
  BY DEF Counted
<1> QED BY <1>1, AlwaysCounted, PTL
=============================================================================
