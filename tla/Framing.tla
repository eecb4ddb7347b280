--------------------------------- MODULE Framing -------------------------------
(***************************************************************************)
(* The frames of the local protocol, ipc/src/framing.cpp, and a stream of  *)
(* them as both of its readers use it: bytes come in pieces, a loop takes  *)
(* the complete frames off the front of a buffer.                          *)
(*                                                                         *)
(* A byte has Base values, 256 in the code; a char is signed, as with MSVC *)
(* and with GCC on x86.                                                    *)
(***************************************************************************)
EXTENDS Integers, Sequences

CONSTANTS
  Base,                    \* values of a byte
  max_frame_payload_size,
  Payloads,                \* what writers try to send
  BadFrames,               \* a length no writer announces, and what follows it
  MaxFrames                \* bound: frames sent

ASSUME BaseAssumption == Base \in Nat /\ Base > 1 /\ Base % 2 = 0
ASSUME SizeAssumption ==
  max_frame_payload_size \in Nat /\ max_frame_payload_size < Base * Base * Base * Base

frame_header_size == 4
Char == -(Base \div 2) .. Base \div 2 - 1

-----------------------------------------------------------------------------
(* encode_frame and try_decode_frame *)

ToChar(byte) == IF byte < Base \div 2 THEN byte ELSE byte - Base
SignedByte(char) == char
Byte(char) == IF char < 0 THEN char + Base ELSE char

Header(size) ==
  <<ToChar(size % Base), ToChar((size \div Base) % Base),
    ToChar((size \div (Base * Base)) % Base),
    ToChar((size \div (Base * Base * Base)) % Base)>>
AnnouncedSize(buffer) ==
  Byte(buffer[1]) + Byte(buffer[2]) * Base + Byte(buffer[3]) * (Base * Base)
    + Byte(buffer[4]) * (Base * Base * Base)

ValidSize(size) == size # 0 /\ size <= max_frame_payload_size

\* An optional is the set of its values.
encode_frame(payload) ==
  IF ValidSize(Len(payload)) THEN {Header(Len(payload)) \o payload} ELSE {}

Incomplete == [status |-> "Incomplete", consumed_bytes |-> 0, payload |-> <<>>]
InvalidLength == [status |-> "InvalidLength", consumed_bytes |-> 0, payload |-> <<>>]
Complete(buffer, size) ==
  [status |-> "Complete", consumed_bytes |-> frame_header_size + size,
   payload |-> SubSeq(buffer, frame_header_size + 1, frame_header_size + size)]

LengthIsNotChecked(buffer) ==
  IF Len(buffer) < frame_header_size THEN Incomplete
  ELSE LET size == AnnouncedSize(buffer) IN
         IF size = 0 THEN InvalidLength
         ELSE IF Len(buffer) < frame_header_size + size THEN Incomplete
         ELSE Complete(buffer, size)

try_decode_frame(buffer) ==
  IF Len(buffer) < frame_header_size THEN Incomplete
  ELSE LET size == AnnouncedSize(buffer) IN
         IF ~ValidSize(size) THEN InvalidLength
         ELSE IF Len(buffer) < frame_header_size + size THEN Incomplete
         ELSE Complete(buffer, size)

ASSUME PayloadsAssumption == Payloads \subseteq Seq(Char)
ASSUME BadFramesAssumption ==
  \A frame \in BadFrames :
    /\ frame \in Seq(Char) /\ Len(frame) >= frame_header_size
    /\ \E size \in 0 .. Base * Base * Base * Base - 1 :
         ~ValidSize(size) /\ SubSeq(frame, 1, frame_header_size) = Header(size)

-----------------------------------------------------------------------------
(* A stream *)

VARIABLES
  sent,      \* payloads whose frames the writer has written
  wire,      \* bytes the reader has not read
  buffer,    \* receive_buffer
  reading,   \* the reader waits for bytes; otherwise it is in its loop
  received,  \* payloads it has taken out
  bad,       \* the writer has written a bad header
  refused    \* the reader has given the connection up
vars == <<sent, wire, buffer, reading, received, bad, refused>>

Init ==
  /\ sent = <<>> /\ wire = <<>> /\ buffer = <<>> /\ received = <<>>
  /\ reading = TRUE /\ bad = FALSE /\ refused = FALSE

Write ==
  /\ Len(sent) < MaxFrames /\ ~bad
  /\ \E payload \in Payloads : \E frame \in encode_frame(payload) :
       sent' = Append(sent, payload) /\ wire' = wire \o frame
  /\ UNCHANGED <<buffer, reading, received, bad, refused>>

WriteBadHeader ==
  /\ ~bad
  /\ \E frame \in BadFrames : wire' = wire \o frame
  /\ bad' = TRUE
  /\ UNCHANGED <<sent, buffer, reading, received, refused>>

\* ReadFile or readAll: any part of what is there.
Read ==
  /\ reading /\ ~refused
  /\ \E n \in 1 .. Len(wire) :
       /\ buffer' = buffer \o SubSeq(wire, 1, n)
       /\ wire' = SubSeq(wire, n + 1, Len(wire))
  /\ reading' = FALSE
  /\ UNCHANGED <<sent, received, bad, refused>>

Consume(n) == buffer' = SubSeq(buffer, n + 1, Len(buffer))

\* One turn of the loop over the buffer.
Decode ==
  /\ ~reading /\ ~refused
  /\ LET result == try_decode_frame(buffer) IN
       CASE result.status = "Complete" ->
              /\ received' = Append(received, result.payload)
              /\ Consume(result.consumed_bytes)
              /\ UNCHANGED <<reading, refused>>
         [] result.status = "Incomplete" ->
              reading' = TRUE /\ UNCHANGED <<buffer, received, refused>>
         [] result.status = "InvalidLength" ->
              refused' = TRUE /\ UNCHANGED <<buffer, reading, received>>
  /\ UNCHANGED <<sent, wire, bad>>

Next == Write \/ WriteBadHeader \/ Read \/ Decode
Spec == Init /\ [][Next]_vars
FairSpec == Spec /\ WF_vars(Read \/ Decode)

-----------------------------------------------------------------------------
(* Properties *)

\* The reader takes out what was sent, whole and in order, and holds back
\* nothing it has all bytes of.
Delivered ==
  /\ Len(received) <= Len(sent)
  /\ \A i \in 1 .. Len(received) : received[i] = sent[i]
  /\ wire = <<>> /\ reading /\ ~bad => received = sent

\* A connection is given up for a length no writer announces, never for a
\* frame in two pieces or one as long as the limit allows.
RefusedForCause == refused => bad /\ received = sent

\* A reader that waits for more never holds a whole frame of the greatest
\* length, however long a frame the other side announces.
BufferBounded ==
  reading => Len(buffer) < frame_header_size + max_frame_payload_size

\* However the bytes of good and bad frames are cut and joined, every payload
\* arrives as it was sent, and only a bad length ends the connection
\* (framing.cpp:16-34, 38-80).
StreamIsPreserved == Delivered /\ RefusedForCause /\ BufferBounded

\* A bad header is refused as soon as it is read: the reader does not wait for
\* the bytes it announces.
BadHeaderRefused == bad ~> refused
=============================================================================
