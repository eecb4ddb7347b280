------------------------------ MODULE FramingProofs ----------------------------
(* What the two functions of framing.cpp do for every payload, whatever the   *)
(* size of a byte, and what becomes of a stream of frames cut anywhere.       *)
EXTENDS Framing, SequenceTheorems, TLAPS

\* A char gives back the byte it was made from, sign or not (lines 22-25, 45-48).
LEMMA ByteOfChar ==
  ASSUME NEW b \in 0 .. Base - 1
  PROVE  ToChar(b) \in Char /\ Byte(ToChar(b)) = b
<1>1. Base \in Nat /\ Base = 2 * (Base \div 2) /\ Base \div 2 \in Nat
  BY BaseAssumption
<1> QED BY <1>1 DEF ToChar, Byte, Char

\* A quotient and a remainder below the divisor are the only ones.
LEMMA QuotientIsUnique ==
  ASSUME NEW n \in Nat, NEW d \in Nat, d > 0, NEW q \in Nat, NEW r \in 0 .. d - 1,
         n = d * q + r
  PROVE  n \div d = q /\ n % d = r
OBVIOUS

\* Every number has them.
LEMMA QuotientExists ==
  ASSUME NEW n \in Nat, NEW d \in Nat, d > 0
  PROVE  n \div d \in Nat /\ n % d \in 0 .. d - 1 /\ n = d * (n \div d) + (n % d)
OBVIOUS

\* The four digits of a number add up to it again, whatever the size of a byte.
LEMMA DigitsAddUp ==
  ASSUME NEW n \in Nat, n < Base * Base * Base * Base
  PROVE  /\ n % Base \in 0 .. Base - 1
         /\ (n \div Base) % Base \in 0 .. Base - 1
         /\ (n \div (Base * Base)) % Base \in 0 .. Base - 1
         /\ (n \div (Base * Base * Base)) % Base \in 0 .. Base - 1
         /\ n = (n % Base) + ((n \div Base) % Base) * Base
                + ((n \div (Base * Base)) % Base) * (Base * Base)
                + ((n \div (Base * Base * Base)) % Base) * (Base * Base * Base)
<1> DEFINE q1 == n \div Base
           q2 == q1 \div Base
           q3 == q2 \div Base
           r1 == n % Base
           r2 == q1 % Base
           r3 == q2 % Base
<1> USE BaseAssumption
<1>1. q1 \in Nat /\ r1 \in 0 .. Base - 1 /\ n = Base * q1 + r1
  BY QuotientExists
<1>2. q2 \in Nat /\ r2 \in 0 .. Base - 1 /\ q1 = Base * q2 + r2
  <2> HIDE DEF q1
  <2> QED BY <1>1, QuotientExists
<1>3. q3 \in Nat /\ r3 \in 0 .. Base - 1 /\ q2 = Base * q3 + r3
  <2> HIDE DEF q2
  <2> QED BY <1>2, QuotientExists
<1> DEFINE square == Base * Base
           cube == Base * Base * Base
<1>0. square \in Nat /\ cube \in Nat /\ square > 0 /\ cube > 0 /\ cube = square * Base
  OBVIOUS
<1>4. n \div square = q2
  <2> HIDE DEF q1, q2, r1, r2
  <2>1. n = square * q2 + (Base * r2 + r1)
    BY <1>1, <1>2
  <2>2. Base * r2 + r1 \in 0 .. square - 1
    <3>1. Base * r2 <= Base * (Base - 1) /\ Base * r2 >= 0 /\ Base * r2 \in Int
      BY <1>2
    <3> QED BY <3>1, <1>1
  <2> HIDE DEF square
  <2> QED BY <1>0, <1>2, <2>1, <2>2, QuotientIsUnique
<1>5. n \div cube = q3
  <2> HIDE DEF q1, q2, r1, r2, q3, r3
  <2>1. n = cube * q3 + (square * r3 + Base * r2 + r1)
    BY <1>1, <1>2, <1>3
  <2>2. square * r3 + Base * r2 + r1 \in 0 .. cube - 1
    <3>1. Base * r2 <= Base * (Base - 1) /\ Base * r2 >= 0 /\ Base * r2 \in Int
      BY <1>2
    <3>2. square * r3 <= square * (Base - 1) /\ square * r3 >= 0 /\ square * r3 \in Int
      BY <1>3, <1>0
    <3> QED BY <3>1, <3>2, <1>1
  <2> HIDE DEF cube
  <2> QED BY <1>0, <1>3, <2>1, <2>2, QuotientIsUnique
<1>6. q3 < Base
  <2> HIDE DEF q1, q2, r1, r2, q3, r3
  <2>1. n >= cube * q3 /\ n < cube * Base
    <3>1. n = cube * q3 + (square * r3 + Base * r2 + r1)
      BY <1>1, <1>2, <1>3
    <3>2. square * r3 >= 0 /\ Base * r2 >= 0 /\ square * r3 \in Int /\ Base * r2 \in Int /\ cube * q3 \in Int
      BY <1>1, <1>2, <1>3, <1>0
    <3> HIDE DEF cube, square
    <3> QED BY <3>1, <3>2, <1>1 DEF cube, square
  <2> HIDE DEF cube
  <2> QED BY <2>1, <1>0, <1>3
<1>7. q3 % Base = q3
  <2> HIDE DEF q3
  <2> QED BY <1>3, <1>6
<1>8. n = r1 + r2 * Base + r3 * (Base * Base) + q3 * (Base * Base * Base)
  <2> HIDE DEF q1, q2, r1, r2, q3, r3
  <2> QED BY <1>1, <1>2, <1>3
<1>9. n \div (Base * Base) = q2 /\ n \div (Base * Base * Base) = q3
  BY <1>4, <1>5
<1>10. /\ n % Base = r1 /\ (n \div Base) % Base = r2
       /\ (n \div (Base * Base)) % Base = r3
       /\ (n \div (Base * Base * Base)) % Base = q3
  BY <1>7, <1>9
<1> HIDE DEF q1, q2, q3, r1, r2, r3
<1>11. r1 \in 0 .. Base - 1 /\ r2 \in 0 .. Base - 1 /\ r3 \in 0 .. Base - 1
       /\ q3 \in 0 .. Base - 1
  BY <1>1, <1>2, <1>3, <1>6
<1> QED BY <1>8, <1>10, <1>11, Zenon

\* The header of a length is made of its four digits.
LEMMA HeaderDigits ==
  ASSUME NEW size \in Nat, size < Base * Base * Base * Base
  PROVE  \E d1, d2, d3, d4 \in 0 .. Base - 1 :
           /\ size = d1 + d2 * Base + d3 * (Base * Base) + d4 * (Base * Base * Base)
           /\ Header(size) = <<ToChar(d1), ToChar(d2), ToChar(d3), ToChar(d4)>>
<1>1. Header(size) = <<ToChar(size % Base), ToChar((size \div Base) % Base),
                       ToChar((size \div (Base * Base)) % Base),
                       ToChar((size \div (Base * Base * Base)) % Base)>>
  BY Zenon DEF Header
<1>2. /\ size % Base \in 0 .. Base - 1
      /\ (size \div Base) % Base \in 0 .. Base - 1
      /\ (size \div (Base * Base)) % Base \in 0 .. Base - 1
      /\ (size \div (Base * Base * Base)) % Base \in 0 .. Base - 1
      /\ size = (size % Base) + ((size \div Base) % Base) * Base
               + ((size \div (Base * Base)) % Base) * (Base * Base)
               + ((size \div (Base * Base * Base)) % Base) * (Base * Base * Base)
  BY DigitsAddUp, Zenon
<1> USE <1>2
<1> WITNESS size % Base \in 0 .. Base - 1, (size \div Base) % Base \in 0 .. Base - 1,
            (size \div (Base * Base)) % Base \in 0 .. Base - 1,
            (size \div (Base * Base * Base)) % Base \in 0 .. Base - 1
<1> QED BY <1>1, <1>2, Zenon

\* A header is four chars that announce its length, whatever follows.
LEMMA HeaderAnnounces ==
  ASSUME NEW size \in Nat, size < Base * Base * Base * Base,
         NEW rest \in Seq(Char)
  PROVE  /\ Header(size) \in Seq(Char) /\ Len(Header(size)) = 4
         /\ Len(Header(size) \o rest) = 4 + Len(rest)
         /\ AnnouncedSize(Header(size) \o rest) = size
<1>1. PICK d1, d2, d3, d4 \in 0 .. Base - 1 :
        /\ size = d1 + d2 * Base + d3 * (Base * Base) + d4 * (Base * Base * Base)
        /\ Header(size) = <<ToChar(d1), ToChar(d2), ToChar(d3), ToChar(d4)>>
  BY HeaderDigits, Zenon
<1>2. \A b \in 0 .. Base - 1 : ToChar(b) \in Char /\ Byte(ToChar(b)) = b
  BY ByteOfChar, Zenon
<1>3. Header(size) = <<ToChar(d1), ToChar(d2), ToChar(d3), ToChar(d4)>>
  BY <1>1
<1>4. Header(size) \in Seq(Char) /\ Len(Header(size)) = 4
  <2>1. ToChar(d1) \in Char /\ ToChar(d2) \in Char /\ ToChar(d3) \in Char
        /\ ToChar(d4) \in Char
    BY <1>1, <1>2, Zenon
  <2> HIDE DEF Char
  <2> QED BY <2>1, <1>3
<1> DEFINE frame == Header(size) \o rest
<1>5. /\ Len(frame) = 4 + Len(rest)
      /\ frame[1] = ToChar(d1) /\ frame[2] = ToChar(d2)
      /\ frame[3] = ToChar(d3) /\ frame[4] = ToChar(d4)
  <2>1. Len(rest) \in Nat
    BY LenProperties
  <2>2. /\ Len(frame) = Len(Header(size)) + Len(rest)
        /\ \A i \in 1 .. Len(Header(size)) + Len(rest) :
             frame[i] = IF i <= Len(Header(size)) THEN Header(size)[i]
                        ELSE rest[i - Len(Header(size))]
    BY <1>4, ConcatProperties, Zenon
  <2>3. Header(size)[1] = ToChar(d1) /\ Header(size)[2] = ToChar(d2)
        /\ Header(size)[3] = ToChar(d3) /\ Header(size)[4] = ToChar(d4)
    BY <1>3
  <2> HIDE DEF frame
  <2> QED BY <1>4, <2>1, <2>2, <2>3
<1>6. Byte(ToChar(d1)) = d1 /\ Byte(ToChar(d2)) = d2 /\ Byte(ToChar(d3)) = d3
      /\ Byte(ToChar(d4)) = d4
  BY <1>1, <1>2, Zenon
<1> HIDE DEF frame
<1>7. AnnouncedSize(frame) = d1 + d2 * Base + d3 * (Base * Base) + d4 * (Base * Base * Base)
  BY <1>1, <1>5, <1>6 DEF AnnouncedSize
<1> QED BY <1>1, <1>4, <1>5, <1>7 DEF frame

\* What follows a header of four bytes can be cut out by its distance from it.
LEMMA BehindHeader ==
  ASSUME NEW h \in Seq(Char), NEW t \in Seq(Char), NEW size \in 1 .. Len(t)
  PROVE  SubSeq(h \o t, Len(h) + 1, Len(h) + size) = SubSeq(t, 1, size)
<1>1. Len(h) \in Nat /\ Len(t) \in Nat
  BY LenProperties
<1> DEFINE first == Len(h) + 1
           last == Len(h) + size
<1>2. first \in Len(h) + 1 .. Len(h) + Len(t) /\ last \in Len(h) + 1 .. Len(h) + Len(t)
  BY <1>1
<1>3. first - Len(h) = 1 /\ last - Len(h) = size
  BY <1>1
<1> HIDE DEF first, last
<1>4. SubSeq(h \o t, first, last) = SubSeq(t, first - Len(h), last - Len(h))
  BY <1>2, SubSeqOfConcat2, Zenon
<1> QED BY <1>3, <1>4 DEF first, last

\* The header is four bytes, so the payload starts at the fifth.
LEMMA PayloadBehindHeader ==
  ASSUME NEW h \in Seq(Char), NEW t \in Seq(Char), NEW size \in 1 .. Len(t), Len(h) = 4
  PROVE  SubSeq(h \o t, 5, 4 + size) = SubSeq(t, 1, size)
<1>1. Len(h) + 1 = 5 /\ Len(h) + size = 4 + size
  OBVIOUS
<1> DEFINE first == 5
           last == 4 + size
<1>2. Len(h) + 1 = first /\ Len(h) + size = last
  BY <1>1
<1> HIDE DEF first, last
<1>3. SubSeq(h \o t, Len(h) + 1, Len(h) + size) = SubSeq(t, 1, size)
  BY BehindHeader, Zenon
<1>4. SubSeq(h \o t, first, last) = SubSeq(t, 1, size)
  BY <1>2, <1>3, Zenon
<1> QED BY <1>4 DEF first, last

\* A length a writer announces has four digits.
LEMMA ValidSizeIsSmall ==
  ASSUME NEW payload \in Seq(Char), ValidSize(Len(payload))
  PROVE  Len(payload) \in Nat /\ Len(payload) < Base * Base * Base * Base
<1> DEFINE size == Len(payload)
           limit == Base * Base * Base * Base
<1>1. size \in Nat
  BY LenProperties
<1>2. limit \in Int
  BY BaseAssumption
<1>3. size <= max_frame_payload_size /\ max_frame_payload_size < limit
  BY SizeAssumption DEF ValidSize
<1> HIDE DEF size, limit
<1>4. size < limit
  BY <1>1, <1>2, <1>3, SizeAssumption
<1> QED BY <1>1, <1>4 DEF size, limit

\* What encode_frame makes, try_decode_frame takes apart again: the payload,
\* every byte of it, and exactly the bytes of the frame, whatever follows.
THEOREM DecodeInvertsEncode ==
  ASSUME NEW payload \in Seq(Char), ValidSize(Len(payload)),
         NEW rest \in Seq(Char)
  PROVE  \E frame \in encode_frame(payload) :
           /\ Len(frame) = frame_header_size + Len(payload)
           /\ try_decode_frame(frame \o rest) =
                [status |-> "Complete", consumed_bytes |-> Len(frame), payload |-> payload]
<1> DEFINE size == Len(payload)
           frame == Header(size) \o payload
           bytes == frame \o rest
<1>1. size \in Nat /\ size < Base * Base * Base * Base
  BY ValidSizeIsSmall
<1>2. payload \o rest \in Seq(Char) /\ Len(payload \o rest) = size + Len(rest)
  BY ConcatProperties
<1>3. /\ Header(size) \in Seq(Char) /\ Len(Header(size)) = 4
      /\ AnnouncedSize(Header(size) \o (payload \o rest)) = size
  BY <1>1, <1>2, HeaderAnnounces
<1> HIDE DEF size
<1>4. bytes = Header(size) \o (payload \o rest)
  BY <1>3, ConcatAssociative
<1>5. AnnouncedSize(bytes) = size
  BY <1>3, <1>4
<1>6. Len(frame) = 4 + size /\ Len(bytes) = 4 + size + Len(rest) /\ Len(rest) \in Nat
  <2>1. Len(frame) = 4 + size
    <3>1. Len(frame) = Len(Header(size)) + Len(payload)
      BY <1>3, ConcatProperties, Zenon
    <3> QED BY <3>1, <1>3 DEF size
  <2>2. Len(bytes) = 4 + (size + Len(rest))
    <3> HIDE DEF bytes
    <3>1. Len(bytes) = Len(Header(size)) + Len(payload \o rest)
      BY <1>2, <1>3, <1>4, ConcatProperties, Zenon
    <3> QED BY <3>1, <1>2, <1>3
  <2>3. Len(rest) \in Nat
    BY LenProperties
  <2> QED BY <1>1, <2>1, <2>2, <2>3
<1>7. SubSeq(bytes, 5, 4 + size) = payload
  <2>1. 5 \in 5 .. 4 + Len(payload \o rest) /\ 4 + size \in 5 .. 4 + Len(payload \o rest)
        /\ 1 \in 1 .. size /\ size \in 1 .. size
    BY <1>1, <1>2, <1>6 DEF ValidSize, size
  <2>2. SubSeq(bytes, 5, 4 + size) = SubSeq(payload \o rest, 1, size)
    <3> DEFINE header == Header(size)
               tail == payload \o rest
    <3>1. header \in Seq(Char) /\ Len(header) = 4 /\ tail \in Seq(Char) /\ size \in 1 .. Len(tail)
      BY <1>1, <1>2, <1>3, <2>1
    <3>2. bytes = header \o tail
      BY <1>4
    <3> HIDE DEF header, tail, bytes, frame
    <3>3. SubSeq(header \o tail, 5, 4 + size) = SubSeq(tail, 1, size)
      BY <3>1, PayloadBehindHeader
    <3> QED BY <3>2, <3>3 DEF tail
  <2>4. SubSeq(payload \o rest, 1, size) = SubSeq(payload, 1, size)
    BY <2>1, SubSeqOfConcat1 DEF size
  <2>5. SubSeq(payload, 1, size) = payload
    BY SubSeqFull DEF size
  <2> QED BY <2>2, <2>4, <2>5
<1> HIDE DEF frame, bytes
<1>8. ~(Len(bytes) < 4) /\ ~(Len(bytes) < 4 + size)
  BY <1>1, <1>6
<1>9. try_decode_frame(bytes) = Complete(bytes, size)
  BY <1>5, <1>8 DEF try_decode_frame, frame_header_size, size
<1>10. frame \in encode_frame(payload)
  BY DEF encode_frame, frame, size
<1>11. try_decode_frame(bytes) = [status |-> "Complete", consumed_bytes |-> Len(frame),
                                  payload |-> payload]
  <2>1. frame_header_size + 1 = 5 /\ frame_header_size + size = 4 + size
    BY <1>1 DEF frame_header_size
  <2>2. Complete(bytes, size) = [status |-> "Complete", consumed_bytes |-> 4 + size,
                                 payload |-> SubSeq(bytes, 5, 4 + size)]
    BY <2>1, Zenon DEF Complete
  <2> QED BY <1>6, <1>7, <1>9, <2>2
<1> QED BY <1>6, <1>10, <1>11 DEF bytes, size, frame_header_size

\* A length outside the limit is refused as soon as its header is there
\* (framing.cpp:56-60).
THEOREM BadLengthRefused ==
  ASSUME NEW size \in Nat, size < Base * Base * Base * Base, ~ValidSize(size),
         NEW rest \in Seq(Char)
  PROVE  try_decode_frame(Header(size) \o rest) = InvalidLength
BY HeaderAnnounces DEF try_decode_frame, frame_header_size

\* A frame that is not all there is waited for, wherever it is cut, and never
\* refused (framing.cpp:40-43, 62-65).
THEOREM CutFrameIsWaitedFor ==
  ASSUME NEW payload \in Seq(Char), ValidSize(Len(payload)),
         NEW n \in 0 .. frame_header_size + Len(payload) - 1
  PROVE  \A frame \in encode_frame(payload) :
           try_decode_frame(SubSeq(frame, 1, n)) = Incomplete
<1> DEFINE size == Len(payload)
           frame == Header(size) \o payload
           cut == SubSeq(frame, 1, n)
<1>1. size \in Nat /\ size < Base * Base * Base * Base
  BY ValidSizeIsSmall
<1>2. /\ Header(size) \in Seq(Char) /\ Len(Header(size)) = 4
      /\ Len(frame) = 4 + size
      /\ AnnouncedSize(frame) = size
  BY <1>1, HeaderAnnounces
<1> HIDE DEF size, frame
<1>3. n \in Nat /\ n < 4 + size
  BY <1>1 DEF frame_header_size, size
<1>4. cut \in Seq(Char) /\ Len(cut) = n /\ \A i \in 1 .. n : cut[i] = frame[i]
  <2>1. frame \in Seq(Char)
    BY <1>2, ConcatProperties DEF frame
  <2>2. \A i \in 1 .. n : frame[i] \in Char
    BY <1>1, <1>2, <1>3, <2>1, ElementOfSeq
  <2> QED BY <1>3, <2>2, SubSeqProperties
<1>5. \A f \in encode_frame(payload) : f = frame
  BY DEF encode_frame, frame, size
<1> HIDE DEF cut
<1>6. CASE n < 4
  <2>1. try_decode_frame(cut) = Incomplete
    BY <1>4, <1>6 DEF try_decode_frame, frame_header_size
  <2> QED BY <1>5, <2>1 DEF cut
<1>7. CASE n >= 4
  <2>1. cut[1] = frame[1] /\ cut[2] = frame[2] /\ cut[3] = frame[3] /\ cut[4] = frame[4]
    BY <1>3, <1>4, <1>7
  <2>2. AnnouncedSize(cut) = AnnouncedSize(frame)
    BY <2>1 DEF AnnouncedSize
  <2>3. try_decode_frame(cut) = Incomplete
    BY <1>2, <1>3, <1>4, <1>7, <2>2 DEF try_decode_frame, frame_header_size, size
  <2> QED BY <1>5, <2>3 DEF cut
<1> QED BY <1>3, <1>6, <1>7

-----------------------------------------------------------------------------
(* The stream *)

Frame(payload) == Header(Len(payload)) \o payload
Sendable == {payload \in Seq(Char) : ValidSize(Len(payload))}

\* Bytes that begin with a header no writer announces.
Refusable(bytes) == Len(bytes) >= frame_header_size /\ ~ValidSize(AnnouncedSize(bytes))

Typed ==
  /\ sent \in Seq(Sendable) /\ received \in Seq(Sendable)
  /\ wire \in Seq(Char) /\ buffer \in Seq(Char)
  /\ reading \in BOOLEAN /\ bad \in BOOLEAN /\ refused \in BOOLEAN

\* What has been taken out is the beginning of what was sent.
InOrder ==
  /\ Len(received) <= Len(sent)
  /\ \A i \in 1 .. Len(received) : received[i] = sent[i]

\* behind[i] are the bytes that follow the first i frames. What the reader has
\* and has not read follows the frames it has taken out, and the last frame is
\* followed by nothing or by a bad header.
Follows(behind) ==
  /\ behind[Len(received)] = buffer \o wire
  /\ \A i \in 1 .. Len(sent) : behind[i - 1] = Frame(sent[i]) \o behind[i]
  /\ ~bad => behind[Len(sent)] = <<>>
  /\ bad => Refusable(behind[Len(sent)])
Aligned == \E behind \in [0 .. Len(sent) -> Seq(Char)] : Follows(behind)

\* The reader goes back to reading only with an incomplete frame.
WaitsForMore == reading => try_decode_frame(buffer) = Incomplete

IInv == Typed /\ InOrder /\ Aligned /\ WaitsForMore /\ RefusedForCause

\* The same bytes, cut in two ways.
SameBytes(b, w, f, r) ==
  /\ Len(b) + Len(w) = Len(f) + Len(r)
  /\ \A i \in 1 .. Len(b) + Len(w) : (IF i <= Len(b) THEN b[i] ELSE w[i - Len(b)])
                                     = (IF i <= Len(f) THEN f[i] ELSE r[i - Len(f)])

\* Byte by byte.
LEMMA TwoCuts ==
  ASSUME NEW b \in Seq(Char), NEW w \in Seq(Char), NEW f \in Seq(Char), NEW r \in Seq(Char),
         b \o w = f \o r
  PROVE  SameBytes(b, w, f, r)
<1>1. /\ b \o w \in Seq(Char) /\ Len(b \o w) = Len(b) + Len(w)
      /\ \A i \in 1 .. Len(b) + Len(w) :
           (b \o w)[i] = IF i <= Len(b) THEN b[i] ELSE w[i - Len(b)]
  BY ConcatProperties, Zenon
<1>2. /\ f \o r \in Seq(Char) /\ Len(f \o r) = Len(f) + Len(r)
      /\ \A i \in 1 .. Len(f) + Len(r) :
           (f \o r)[i] = IF i <= Len(f) THEN f[i] ELSE r[i - Len(f)]
  BY ConcatProperties, Zenon
<1> QED BY <1>1, <1>2, Zenon DEF SameBytes

\* The part that ends earlier is a beginning of the other.
LEMMA CutInside ==
  ASSUME NEW b \in Seq(Char), NEW w \in Seq(Char), NEW f \in Seq(Char), NEW r \in Seq(Char),
         b \o w = f \o r, Len(b) <= Len(f)
  PROVE  b = SubSeq(f, 1, Len(b))
<1> DEFINE lb == Len(b) lw == Len(w) lf == Len(f) lr == Len(r)
<1>1. lb \in Nat /\ lw \in Nat /\ lf \in Nat /\ lr \in Nat
  BY LenProperties
<1>2. /\ lb + lw = lf + lr
      /\ \A i \in 1 .. lb + lw : (IF i <= lb THEN b[i] ELSE w[i - lb])
                                 = (IF i <= lf THEN f[i] ELSE r[i - lf])
  <2>1. SameBytes(b, w, f, r)
    BY TwoCuts, Zenon
  <2> QED BY <2>1, Zenon DEF SameBytes
<1>3. /\ \A i \in 1 .. lb : b[i] \in Char
      /\ \A i \in 1 .. lf : f[i] \in Char
  BY ElementOfSeq
<1>4. lb <= lf
  OBVIOUS
<1>5. \A i \in 1 .. lb : f[i] \in Char /\ b[i] = f[i]
  <2> HIDE DEF lb, lw, lf, lr
  <2> QED BY <1>1, <1>2, <1>3, <1>4
<1>6. /\ SubSeq(f, 1, lb) \in Seq(Char) /\ Len(SubSeq(f, 1, lb)) = lb
      /\ \A i \in 1 .. lb : SubSeq(f, 1, lb)[i] = f[i]
  <2> HIDE DEF lb, lf
  <2> QED BY <1>1, <1>5, SubSeqProperties
<1>7. \A i \in 1 .. lb : b[i] = SubSeq(f, 1, lb)[i]
  BY <1>5, <1>6
<1> QED BY <1>6, <1>7, SeqEqual

\* The rest of b, behind a part as long as f.
Behind(b, f) == SubSeq(b, Len(f) + 1, Len(b))
GoesOn(b, w, f, r) ==
  Behind(b, f) \in Seq(Char) /\ b = f \o Behind(b, f) /\ r = Behind(b, f) \o w

\* The part that ends later begins with the other, and what is left of it comes
\* before the rest.
LEMMA CutBehind ==
  ASSUME NEW b \in Seq(Char), NEW w \in Seq(Char), NEW f \in Seq(Char), NEW r \in Seq(Char),
         b \o w = f \o r, Len(f) <= Len(b)
  PROVE  GoesOn(b, w, f, r)
<1> DEFINE lb == Len(b) lw == Len(w) lf == Len(f) lr == Len(r)
<1>1. lb \in Nat /\ lw \in Nat /\ lf \in Nat /\ lr \in Nat
  BY LenProperties
<1>2. /\ lb + lw = lf + lr
      /\ \A i \in 1 .. lb + lw : (IF i <= lb THEN b[i] ELSE w[i - lb])
                                 = (IF i <= lf THEN f[i] ELSE r[i - lf])
  <2>1. SameBytes(b, w, f, r)
    BY TwoCuts, Zenon
  <2> QED BY <2>1, Zenon DEF SameBytes
<1>3. /\ \A i \in 1 .. lb : b[i] \in Char
      /\ \A i \in 1 .. lf : f[i] \in Char
  BY ElementOfSeq
<1> DEFINE t == SubSeq(b, lf + 1, lb)
<1>4. lf <= lb
  OBVIOUS
<1>5. /\ t \in Seq(Char) /\ Len(t) = lb - lf
      /\ \A i \in 1 .. lb - lf : t[i] = b[lf + i]
  <2> HIDE DEF lb, lf
  <2>1. lf + 1 \in Int /\ lb \in Int /\ \A i \in lf + 1 .. lb : b[i] \in Char
    BY <1>1, <1>3
  <2>2. /\ t \in Seq(Char)
        /\ Len(t) = IF lf + 1 <= lb THEN lb - (lf + 1) + 1 ELSE 0
        /\ \A i \in 1 .. lb - (lf + 1) + 1 : t[i] = b[lf + 1 + i - 1]
    BY SMTT(30), <2>1, SubSeqProperties
  <2> HIDE DEF t
  <2> QED BY <1>1, <1>4, <2>2
<1> HIDE DEF t
<1>6. b = f \o t
  <2>1. /\ f \o t \in Seq(Char) /\ Len(f \o t) = lf + Len(t)
        /\ \A i \in 1 .. lf + Len(t) :
             (f \o t)[i] = IF i <= lf THEN f[i] ELSE t[i - lf]
    BY <1>5, ConcatProperties
  <2> HIDE DEF lw, lr
  <2>2. Len(f \o t) = lb
    BY <1>1, <1>4, <1>5, <2>1
  <2>3. ASSUME NEW i \in 1 .. lb PROVE b[i] = (f \o t)[i]
    <3> HIDE DEF lb, lf
    <3>1. i \in 1 .. lb + lw /\ i <= lb /\ i \in 1 .. lf + Len(t)
      BY <1>1, <1>4, <1>5
    <3>2. b[i] = IF i <= lf THEN f[i] ELSE r[i - lf]
      BY <1>2, <3>1
    <3>3. (f \o t)[i] = IF i <= lf THEN f[i] ELSE t[i - lf]
      BY <2>1, <3>1
    <3>4. CASE i <= lf
      BY <3>2, <3>3, <3>4
    <3>5. CASE ~(i <= lf)
      <4>1. i - lf \in 1 .. lb - lf /\ lf + (i - lf) = i
        BY <1>1, <3>5
      <4>2. t[i - lf] = b[i]
        BY <1>5, <4>1
      <4> QED BY <3>3, <3>5, <4>2
    <3> QED BY <3>4, <3>5
  <2> QED BY <2>1, <2>2, <2>3, SeqEqual
<1>7. r = t \o w
  <2>1. /\ t \o w \in Seq(Char) /\ Len(t \o w) = Len(t) + lw
        /\ \A i \in 1 .. Len(t) + lw :
             (t \o w)[i] = IF i <= Len(t) THEN t[i] ELSE w[i - Len(t)]
    BY <1>5, ConcatProperties
  <2>2. lr = Len(t \o w)
    BY <1>1, <1>2, <1>5, <2>1
  <2>3. ASSUME NEW i \in 1 .. lr PROVE r[i] = (t \o w)[i]
    <3> DEFINE j == lf + i
    <3>1. j \in 1 .. lb + lw /\ ~(j <= lf) /\ j - lf = i
      BY <1>1, <1>2
    <3>2. r[i] = IF j <= lb THEN b[j] ELSE w[j - lb]
      BY <1>2, <3>1
    <3>3. CASE i <= lb - lf
      <4>1. j <= lb /\ t[i] = b[j] /\ i \in 1 .. Len(t) + lw /\ i <= Len(t)
        BY <1>1, <1>4, <1>5, <3>3
      <4> QED BY <2>1, <3>2, <4>1
    <3>4. CASE ~(i <= lb - lf)
      <4> HIDE DEF lb, lw, lf, lr
      <4>1. ~(j <= lb) /\ j - lb = i - Len(t) /\ i \in 1 .. Len(t) + lw /\ ~(i <= Len(t))
        BY <1>1, <1>2, <1>4, <1>5, <3>4
      <4>2. (t \o w)[i] = w[i - Len(t)]
        BY <2>1, <4>1
      <4>3. r[i] = w[j - lb]
        BY <3>2, <4>1
      <4> QED BY <4>1, <4>2, <4>3, Zenon
    <3> QED BY <3>3, <3>4, Zenon
  <2> QED BY <2>1, <2>2, <2>3, SeqEqual
<1> QED BY <1>5, <1>6, <1>7 DEF t, GoesOn, Behind

\* The frame of a payload that can be sent.
LEMMA FrameOfPayload ==
  ASSUME NEW payload \in Sendable
  PROVE  /\ payload \in Seq(Char) /\ ValidSize(Len(payload))
         /\ encode_frame(payload) = {Frame(payload)}
         /\ Frame(payload) \in Seq(Char)
         /\ Len(Frame(payload)) = frame_header_size + Len(payload)
         /\ Len(payload) \in Nat
<1>1. payload \in Seq(Char) /\ ValidSize(Len(payload))
  BY DEF Sendable
<1>2. Len(payload) \in Nat /\ Len(payload) < Base * Base * Base * Base
  BY <1>1, ValidSizeIsSmall
<1>3. encode_frame(payload) = {Frame(payload)}
  BY <1>1 DEF encode_frame, Frame
<1>4. Header(Len(payload)) \in Seq(Char) /\ Len(Header(Len(payload))) = 4
  BY <1>1, <1>2, HeaderAnnounces, Zenon
<1> DEFINE header == Header(Len(payload))
<1> HIDE DEF header
<1>5. header \in Seq(Char) /\ Len(header) = 4
  BY <1>4 DEF header
<1>6. header \o payload \in Seq(Char) /\ Len(header \o payload) = Len(header) + Len(payload)
  BY <1>1, <1>5, ConcatProperties, Zenon
<1> QED BY <1>1, <1>2, <1>3, <1>5, <1>6 DEF Frame, header, frame_header_size

\* While a frame is to be taken out, the decoder takes out this one or waits for
\* the rest of it.
LEMMA NextFrame ==
  ASSUME NEW b \in Seq(Char), NEW w \in Seq(Char), NEW r \in Seq(Char), NEW payload \in Sendable,
         b \o w = Frame(payload) \o r
  PROVE  \/ try_decode_frame(b) = Incomplete /\ Len(b) < Len(Frame(payload))
         \/ /\ try_decode_frame(b) = [status |-> "Complete", payload |-> payload,
                                      consumed_bytes |-> Len(Frame(payload))]
            /\ GoesOn(b, w, Frame(payload), r)
<1> DEFINE f == Frame(payload)
<1>1. /\ payload \in Seq(Char) /\ ValidSize(Len(payload))
      /\ encode_frame(payload) = {f} /\ f \in Seq(Char)
      /\ Len(f) = frame_header_size + Len(payload) /\ Len(payload) \in Nat
  BY FrameOfPayload
<1>2. b \o w = f \o r
  OBVIOUS
<1> HIDE DEF f
<1>3. Len(b) \in Nat /\ Len(f) \in Nat
  BY <1>1, LenProperties
<1>4. CASE Len(b) < Len(f)
  <2>1. b = SubSeq(f, 1, Len(b))
    BY <1>1, <1>2, <1>3, <1>4, CutInside
  <2>2. Len(b) \in 0 .. frame_header_size + Len(payload) - 1
    BY <1>1, <1>3, <1>4 DEF frame_header_size
  <2>3. \A n \in 0 .. frame_header_size + Len(payload) - 1 :
          \A frame \in encode_frame(payload) : try_decode_frame(SubSeq(frame, 1, n)) = Incomplete
    BY <1>1, CutFrameIsWaitedFor, Zenon
  <2>4. try_decode_frame(SubSeq(f, 1, Len(b))) = Incomplete
    BY <1>1, <2>2, <2>3, Zenon
  <2>5. try_decode_frame(b) = Incomplete
    BY <2>1, <2>4, Zenon
  <2> QED BY <1>4, <2>5 DEF f
<1>5. CASE Len(f) <= Len(b)
  <2> DEFINE t == Behind(b, f)
  <2>0. GoesOn(b, w, f, r)
    BY <1>1, <1>2, <1>5, CutBehind, Zenon
  <2>1. t \in Seq(Char) /\ b = f \o t
    BY <2>0 DEF GoesOn
  <2> HIDE DEF t
  <2>2. \E frame \in encode_frame(payload) :
          try_decode_frame(frame \o t) =
            [status |-> "Complete", consumed_bytes |-> Len(frame), payload |-> payload]
    BY <1>1, <2>1, DecodeInvertsEncode, Zenon
  <2>3. try_decode_frame(b) =
          [status |-> "Complete", consumed_bytes |-> Len(f), payload |-> payload]
    BY <1>1, <2>1, <2>2
  <2> QED BY <2>0, <2>3 DEF f
<1> QED BY <1>3, <1>4, <1>5

\* Only what the first four bytes say decides whether a header is refused.
LEMMA RefusedOrIncomplete ==
  ASSUME NEW b \in Seq(Char), NEW w \in Seq(Char), Refusable(b \o w)
  PROVE  try_decode_frame(b) = Incomplete \/ try_decode_frame(b) = InvalidLength
<1>1. CASE Len(b) < frame_header_size
  BY <1>1 DEF try_decode_frame
<1>2. CASE ~(Len(b) < frame_header_size)
  <2>1. Len(b) \in Nat /\ Len(w) \in Nat /\ Len(b) >= 4
    BY <1>2, LenProperties DEF frame_header_size
  <2>2. \A i \in 1 .. Len(b) + Len(w) : (b \o w)[i] = IF i <= Len(b) THEN b[i] ELSE w[i - Len(b)]
    BY ConcatProperties, Zenon
  <2>3. (b \o w)[1] = b[1] /\ (b \o w)[2] = b[2] /\ (b \o w)[3] = b[3] /\ (b \o w)[4] = b[4]
    BY <2>1, <2>2
  <2>4. AnnouncedSize(b) = AnnouncedSize(b \o w)
    BY <2>3, Zenon DEF AnnouncedSize
  <2>5. ~ValidSize(AnnouncedSize(b))
    BY <2>4 DEF Refusable
  <2> QED BY <1>2, <2>5, Zenon DEF try_decode_frame
<1> QED BY <1>1, <1>2

\* Less than the largest frame is held while more is waited for.
LEMMA IncompleteIsShort ==
  ASSUME NEW b \in Seq(Char), try_decode_frame(b) = Incomplete
  PROVE  Len(b) < frame_header_size + max_frame_payload_size
<1> DEFINE size == AnnouncedSize(b)
<1>1. Len(b) \in Nat /\ max_frame_payload_size \in Nat
  BY LenProperties, SizeAssumption
<1>2. CASE Len(b) < frame_header_size
  BY <1>1, <1>2 DEF frame_header_size
<1>3. CASE ~(Len(b) < frame_header_size)
  <2>1. b[1] \in Char /\ b[2] \in Char /\ b[3] \in Char /\ b[4] \in Char
    <3>1. \A i \in 1 .. Len(b) : b[i] \in Char
      BY ElementOfSeq
    <3> QED BY <1>1, <1>3, <3>1 DEF frame_header_size
  <2>2. size \in Int
    <3>1. \A c \in Char : Byte(c) \in Int
      BY BaseAssumption DEF Char, Byte
    <3>2. Byte(b[1]) \in Int /\ Byte(b[2]) \in Int /\ Byte(b[3]) \in Int /\ Byte(b[4]) \in Int
      BY <2>1, <3>1, Zenon
    <3> QED BY <3>2, BaseAssumption DEF AnnouncedSize
  <2> HIDE DEF size
  <2>3. /\ Incomplete # InvalidLength
        /\ Incomplete # Complete(b, size)
    BY DEF Incomplete, InvalidLength, Complete
  <2>4. ValidSize(size) /\ Len(b) < frame_header_size + size
    BY <1>3, <2>3 DEF try_decode_frame, size
  <2> QED BY <1>1, <2>2, <2>4 DEF ValidSize, frame_header_size
<1> QED BY <1>2, <1>3

-----------------------------------------------------------------------------
(* Every step keeps the stream together. *)

Regroups(s, t, u) == (s \o t) \o u = s \o (t \o u)
\* A name for one regrouping, so that it can be cited.
LEMMA Regrouped ==
  ASSUME NEW s \in Seq(Char), NEW t \in Seq(Char), NEW u \in Seq(Char)
  PROVE  Regroups(s, t, u)
BY ConcatAssociative DEF Regroups

\* What encode_frame lets through is a frame of a payload within the limit.
LEMMA PayloadSent ==
  ASSUME NEW payload \in Payloads, NEW frame \in encode_frame(payload)
  PROVE  payload \in Sendable /\ frame = Frame(payload)
<1>1. ValidSize(Len(payload)) /\ frame = Header(Len(payload)) \o payload
  BY DEF encode_frame
<1> QED BY <1>1, PayloadsAssumption DEF Sendable, Frame

\* The bytes that follow each frame when some more are written.
LEMMA LongerTails ==
  ASSUME NEW n \in Nat, NEW behind \in [0 .. n -> Seq(Char)], NEW more \in Seq(Char)
  PROVE  [i \in 0 .. n |-> behind[i] \o more] \in [0 .. n -> Seq(Char)]
BY ConcatProperties

\* A written frame goes behind everything that is there.
LEMMA WriteKeepsInv ==
  ASSUME IInv, Write
  PROVE  IInv'
<1>1. PICK payload \in Payloads : \E frame \in encode_frame(payload) :
        sent' = Append(sent, payload) /\ wire' = wire \o frame
  BY DEF Write
<1>2. /\ payload \in Sendable /\ sent' = Append(sent, payload)
      /\ wire' = wire \o Frame(payload)
  BY <1>1, PayloadSent, Zenon
<1>3. /\ ~bad /\ bad' = bad /\ buffer' = buffer /\ reading' = reading
      /\ received' = received /\ refused' = refused
  BY DEF Write
<1> DEFINE f == Frame(payload)
           n == Len(sent)
           m == Len(received)
<1>4. f \in Seq(Char)
  BY <1>2, FrameOfPayload
<1> HIDE DEF f
<1>5. /\ sent \in Seq(Sendable) /\ received \in Seq(Sendable) /\ wire \in Seq(Char)
      /\ buffer \in Seq(Char)
  BY DEF IInv, Typed
<1>6. n \in Nat /\ m \in Nat /\ m <= n
  BY <1>5, LenProperties DEF IInv, InOrder
<1>7. /\ sent' \in Seq(Sendable) /\ Len(sent') = n + 1
      /\ \A i \in 1 .. n : sent'[i] = sent[i]
      /\ sent'[n + 1] = payload
  BY <1>2, <1>5, AppendProperties
<1>8. wire' \in Seq(Char) /\ wire' = wire \o f
  BY <1>2, <1>4, <1>5, ConcatProperties DEF f
<1>9. Typed'
  BY <1>3, <1>7, <1>8 DEF IInv, Typed
<1>10. InOrder'
  <2>1. \A i \in 1 .. m : received[i] = sent[i]
    BY DEF IInv, InOrder
  <2> HIDE DEF n
  <2> QED BY <1>3, <1>6, <1>7, <2>1 DEF InOrder
<1>11. Aligned'
  <2>1. PICK behind \in [0 .. n -> Seq(Char)] : Follows(behind)
    BY DEF IInv, Aligned
  <2> DEFINE longer == [i \in 0 .. n + 1 |-> IF i = n + 1 THEN <<>> ELSE behind[i] \o f]
  <2>2. longer \in [0 .. n + 1 -> Seq(Char)]
    <3>1. \A i \in 0 .. n : behind[i] \o f \in Seq(Char)
      BY <1>4, ConcatProperties
    <3>2. \A i \in 0 .. n + 1 : i # n + 1 => i \in 0 .. n
      BY <1>6
    <3> QED BY <3>1, <3>2, EmptySeq
  <2>3. longer[m] = buffer' \o wire'
    <3>1. m \in 0 .. n + 1 /\ m # n + 1
      BY <1>6
    <3>2. longer[m] = behind[m] \o f
      BY <3>1
    <3>3. behind[m] = buffer \o wire
      BY <2>1 DEF Follows
    <3>4. (buffer \o wire) \o f = buffer \o (wire \o f)
      BY <1>4, <1>5, ConcatAssociative
    <3> QED BY <1>3, <1>8, <3>2, <3>3, <3>4
  <2>4. ASSUME NEW i \in 1 .. n + 1
        PROVE  longer[i - 1] = Frame(sent'[i]) \o longer[i]
    <3>1. i - 1 \in 0 .. n + 1 /\ i - 1 # n + 1 /\ i - 1 \in 0 .. n /\ i \in 0 .. n + 1
      BY <1>6
    <3>2. longer[i - 1] = behind[i - 1] \o f
      BY <3>1
    <3>3. CASE i = n + 1
      <4>1. i - 1 = n
        BY <1>6, <3>3
      <4>2. behind[n] = <<>>
        BY <1>3, <2>1 DEF Follows
      <4>3. longer[i] = <<>> /\ Frame(sent'[i]) = f
        BY <1>7, <3>1, <3>3 DEF f
      <4>4. <<>> \o f = f /\ f \o <<>> = f
        BY <1>4, ConcatEmptySeq
      <4> QED BY <3>2, <4>1, <4>2, <4>3, <4>4
    <3>4. CASE i # n + 1
      <4>1. i \in 1 .. n
        BY <1>6, <3>4
      <4>2. behind[i - 1] = Frame(sent[i]) \o behind[i] /\ sent'[i] = sent[i]
        BY <1>7, <2>1, <4>1 DEF Follows
      <4>3. longer[i] = behind[i] \o f
        BY <3>1, <3>4
      <4>4. sent[i] \in Sendable
        BY <1>5, <4>1, ElementOfSeq
      <4>5. Frame(sent[i]) \in Seq(Char) /\ behind[i] \in Seq(Char)
        BY <3>1, <4>1, <4>4, FrameOfPayload
      <4>6. Regroups(Frame(sent[i]), behind[i], f)
        BY <1>4, <4>5, Regrouped, Zenon
      <4>7. (Frame(sent[i]) \o behind[i]) \o f = Frame(sent[i]) \o (behind[i] \o f)
        BY <4>6, Zenon DEF Regroups
      <4> QED BY <3>2, <4>2, <4>3, <4>7
    <3> QED BY <3>3, <3>4
  <2>5. longer[n + 1] = <<>>
    BY <1>6
  <2> HIDE DEF longer
  <2>6. \E b \in [0 .. n + 1 -> Seq(Char)] :
          /\ b[m] = buffer' \o wire'
          /\ \A i \in 1 .. n + 1 : b[i - 1] = Frame(sent'[i]) \o b[i]
          /\ b[n + 1] = <<>>
    BY <2>2, <2>3, <2>4, <2>5
  <2> QED BY <1>3, <1>7, <2>6 DEF Aligned, Follows
<1>12. WaitsForMore'
  BY <1>3 DEF IInv, WaitsForMore
<1>13. RefusedForCause'
  BY <1>3 DEF IInv, RefusedForCause
<1> QED BY <1>9, <1>10, <1>11, <1>12, <1>13 DEF IInv

\* A frame that begins with the header of a length no writer announces.
LEMMA BadFramesAreRefusable ==
  ASSUME NEW frame \in BadFrames
  PROVE  frame \in Seq(Char) /\ Refusable(frame)
<1> DEFINE limit == Base * Base * Base * Base
<1>1. frame \in Seq(Char) /\ Len(frame) >= 4
  BY BadFramesAssumption DEF frame_header_size
<1>2. PICK size \in 0 .. limit - 1 : ~ValidSize(size) /\ SubSeq(frame, 1, 4) = Header(size)
  BY BadFramesAssumption DEF frame_header_size
<1>3. limit \in Int
  BY BaseAssumption
<1> HIDE DEF limit
<1>4. size \in Nat /\ size < limit
  BY <1>2, <1>3
<1> DEFINE header == Header(size)
<1>5. header \in Seq(Char) /\ Len(header) = 4 /\ AnnouncedSize(header) = size
  <2>1. <<>> \in Seq(Char)
    BY EmptySeq
  <2>2. Header(size) \in Seq(Char) /\ Len(Header(size)) = 4
        /\ AnnouncedSize(Header(size) \o <<>>) = size
    BY <1>4, <2>1, HeaderAnnounces, Zenon DEF limit
  <2>3. Header(size) \o <<>> = Header(size)
    BY <2>2, ConcatEmptySeq
  <2> QED BY <2>2, <2>3
<1>6. \A i \in 1 .. 4 : header[i] = frame[i]
  <2>1. Len(frame) \in Nat /\ \A i \in 1 .. Len(frame) : frame[i] \in Char
    BY <1>1, LenProperties, ElementOfSeq
  <2>2. \A i \in 1 .. 4 : frame[i] \in Char
    BY <1>1, <2>1
  <2>3. \A i \in 1 .. 4 : SubSeq(frame, 1, 4)[i] = frame[i]
    BY <2>2, SubSeqProperties
  <2> QED BY <1>2, <2>3
<1> HIDE DEF header
<1>7. header[1] = frame[1] /\ header[2] = frame[2] /\ header[3] = frame[3] /\ header[4] = frame[4]
  BY <1>6
<1>8. AnnouncedSize(frame) = size
  BY <1>5, <1>7, Zenon DEF AnnouncedSize
<1> QED BY <1>1, <1>2, <1>8 DEF Refusable, frame_header_size

\* A bad header goes there too, and nothing comes after it.
LEMMA BadHeaderKeepsInv ==
  ASSUME IInv, WriteBadHeader
  PROVE  IInv'
<1>1. PICK frame \in BadFrames : wire' = wire \o frame
  BY DEF WriteBadHeader
<1>2. frame \in Seq(Char) /\ Refusable(frame)
  BY BadFramesAreRefusable
<1>3. /\ ~bad /\ bad' = TRUE /\ sent' = sent /\ buffer' = buffer /\ reading' = reading
      /\ received' = received /\ refused' = refused
  BY DEF WriteBadHeader
<1> DEFINE n == Len(sent)
           m == Len(received)
<1>4. /\ sent \in Seq(Sendable) /\ received \in Seq(Sendable) /\ wire \in Seq(Char)
      /\ buffer \in Seq(Char)
  BY DEF IInv, Typed
<1>5. n \in Nat /\ m \in Nat /\ m <= n
  BY <1>4, LenProperties DEF IInv, InOrder
<1>6. wire' \in Seq(Char)
  BY <1>1, <1>2, <1>4, ConcatProperties
<1>7. Typed'
  BY <1>3, <1>6 DEF IInv, Typed
<1>8. InOrder' /\ WaitsForMore'
  BY <1>3 DEF IInv, InOrder, WaitsForMore
<1>9. Aligned'
  <2>1. PICK behind \in [0 .. n -> Seq(Char)] : Follows(behind)
    BY DEF IInv, Aligned
  <2> DEFINE longer == [i \in 0 .. n |-> behind[i] \o frame]
  <2>2. longer \in [0 .. n -> Seq(Char)]
    BY <1>2, <1>5, LongerTails
  <2>3. longer[m] = buffer' \o wire'
    <3>1. m \in 0 .. n
      BY <1>5
    <3>2. longer[m] = behind[m] \o frame
      BY <3>1
    <3>3. behind[m] = buffer \o wire
      BY <2>1 DEF Follows
    <3>4. (buffer \o wire) \o frame = buffer \o (wire \o frame)
      BY SMTT(30), <1>2, <1>4, ConcatAssociative
    <3> QED BY <1>1, <1>3, <3>2, <3>3, <3>4
  <2>4. ASSUME NEW i \in 1 .. n
        PROVE  longer[i - 1] = Frame(sent'[i]) \o longer[i]
    <3>1. i - 1 \in 0 .. n /\ i \in 0 .. n
      BY <1>5
    <3>2. longer[i - 1] = behind[i - 1] \o frame /\ longer[i] = behind[i] \o frame
      BY <3>1
    <3>3. behind[i - 1] = Frame(sent[i]) \o behind[i]
      BY <2>1 DEF Follows
    <3>4. sent[i] \in Sendable
      BY <1>4, ElementOfSeq
    <3>5. Frame(sent[i]) \in Seq(Char) /\ behind[i] \in Seq(Char)
      BY <3>1, <3>4, FrameOfPayload
    <3>6. (Frame(sent[i]) \o behind[i]) \o frame = Frame(sent[i]) \o (behind[i] \o frame)
      <4> DEFINE x == Frame(sent[i])
                 y == behind[i]
      <4>1. x \in Seq(Char) /\ y \in Seq(Char)
        BY <3>5
      <4> HIDE DEF x, y
      <4>2. (x \o y) \o frame = x \o (y \o frame)
        BY SMTT(30), <1>2, <4>1, ConcatAssociative
      <4> QED BY <4>2 DEF x, y
    <3> QED BY <1>3, <3>2, <3>3, <3>6
  <2>5. Refusable(longer[n])
    <3>1. n \in 0 .. n
      BY <1>5
    <3>2. behind[n] = <<>>
      BY <1>3, <2>1 DEF Follows
    <3>3. longer[n] = <<>> \o frame
      BY <3>1, <3>2
    <3>4. <<>> \o frame = frame
      BY <1>2, ConcatEmptySeq
    <3> HIDE DEF longer
    <3> QED BY <1>2, <3>3, <3>4
  <2> HIDE DEF longer
  <2> QED BY <1>3, <2>2, <2>3, <2>4, <2>5 DEF Aligned, Follows
<1>10. RefusedForCause'
  BY <1>3 DEF IInv, RefusedForCause
<1> QED BY <1>7, <1>8, <1>9, <1>10 DEF IInv

\* What is read moves from the wire into the buffer, in order.
LEMMA PartRead ==
  ASSUME NEW b \in Seq(Char), NEW w \in Seq(Char), NEW k \in 1 .. Len(w)
  PROVE  /\ b \o SubSeq(w, 1, k) \in Seq(Char) /\ SubSeq(w, k + 1, Len(w)) \in Seq(Char)
         /\ (b \o SubSeq(w, 1, k)) \o SubSeq(w, k + 1, Len(w)) = b \o w
<1> DEFINE x == SubSeq(w, 1, k)
           y == SubSeq(w, k + 1, Len(w))
<1>1. Len(w) \in Nat /\ \A i \in 1 .. Len(w) : w[i] \in Char
  BY LenProperties, ElementOfSeq
<1>2. x \in Seq(Char) /\ Len(x) = k /\ \A i \in 1 .. k : x[i] = w[i]
  <2>1. \A i \in 1 .. k : w[i] \in Char
    BY <1>1
  <2> QED BY <1>1, <2>1, SubSeqProperties
<1>3. /\ y \in Seq(Char) /\ Len(y) = Len(w) - k
      /\ \A i \in 1 .. Len(w) - k : y[i] = w[k + i]
  <2>1. k + 1 \in Int /\ Len(w) \in Int /\ \A i \in k + 1 .. Len(w) : w[i] \in Char
    BY <1>1
  <2>2. /\ y \in Seq(Char)
        /\ Len(y) = IF k + 1 <= Len(w) THEN Len(w) - (k + 1) + 1 ELSE 0
        /\ \A i \in 1 .. Len(w) - (k + 1) + 1 : y[i] = w[k + 1 + i - 1]
    BY <2>1, SubSeqProperties
  <2> HIDE DEF y
  <2> QED BY <1>1, <2>2
<1> HIDE DEF x, y
<1>4. w = x \o y
  <2>1. /\ x \o y \in Seq(Char) /\ Len(x \o y) = Len(x) + Len(y)
        /\ \A i \in 1 .. Len(x) + Len(y) :
             (x \o y)[i] = IF i <= Len(x) THEN x[i] ELSE y[i - Len(x)]
    BY <1>2, <1>3, ConcatProperties
  <2>2. Len(x \o y) = Len(w)
    BY <1>1, <1>2, <1>3, <2>1
  <2>3. ASSUME NEW i \in 1 .. Len(w) PROVE w[i] = (x \o y)[i]
    <3>1. i \in 1 .. Len(x) + Len(y)
      BY <1>1, <1>2, <1>3
    <3>2. CASE i <= k
      BY <1>2, <2>1, <3>1, <3>2
    <3>3. CASE ~(i <= k)
      <4>1. i - k \in 1 .. Len(w) - k /\ k + (i - k) = i
        BY <1>1, <3>3
      <4>2. y[i - k] = w[i]
        BY <1>3, <4>1
      <4> QED BY <1>2, <2>1, <3>1, <3>3, <4>2
    <3> QED BY <3>2, <3>3
  <2> QED BY <2>1, <2>2, <2>3, SeqEqual
<1>5. b \o x \in Seq(Char)
  BY <1>2, ConcatProperties
<1>6. (b \o x) \o y = b \o (x \o y)
  <2>1. x \in Seq(Char) /\ y \in Seq(Char)
    BY <1>2, <1>3
  <2>2. Regroups(b, x, y)
    BY <2>1, Regrouped, Zenon
  <2> QED BY <2>2 DEF Regroups
<1> QED BY <1>3, <1>4, <1>5, <1>6 DEF x, y

\* Reading moves bytes, and the loop turns before the next read.
LEMMA ReadKeepsInv ==
  ASSUME IInv, Read
  PROVE  IInv'
<1>1. PICK k \in 1 .. Len(wire) : /\ buffer' = buffer \o SubSeq(wire, 1, k)
                                  /\ wire' = SubSeq(wire, k + 1, Len(wire))
  BY DEF Read
<1>2. /\ reading' = FALSE /\ sent' = sent /\ received' = received /\ bad' = bad
      /\ refused' = refused
  BY DEF Read
<1>3. wire \in Seq(Char) /\ buffer \in Seq(Char)
  BY DEF IInv, Typed
<1>4. /\ buffer' \in Seq(Char) /\ wire' \in Seq(Char)
      /\ buffer' \o wire' = buffer \o wire
  BY <1>1, <1>3, PartRead
<1>5. Typed'
  BY <1>2, <1>4 DEF IInv, Typed
<1>6. Aligned'
  <2>1. PICK behind \in [0 .. Len(sent) -> Seq(Char)] : Follows(behind)
    BY DEF IInv, Aligned
  <2>2. Follows(behind)'
    BY <1>2, <1>4, <2>1 DEF Follows
  <2> QED BY <1>2, <2>1, <2>2 DEF Aligned
<1>7. InOrder' /\ WaitsForMore' /\ RefusedForCause'
  BY <1>2 DEF IInv, InOrder, WaitsForMore, RefusedForCause
<1> QED BY <1>5, <1>6, <1>7 DEF IInv

\* A turn of the loop takes out the frame that comes next, waits for the rest of
\* it, or refuses the bad header that comes after the last.
LEMMA DecodeKeepsInv ==
  ASSUME IInv, Decode
  PROVE  IInv'
<1> DEFINE result == try_decode_frame(buffer)
           n == Len(sent)
           m == Len(received)
<1>1. /\ ~reading /\ ~refused /\ sent' = sent /\ wire' = wire /\ bad' = bad
  BY DEF Decode
<1>2. /\ sent \in Seq(Sendable) /\ received \in Seq(Sendable) /\ wire \in Seq(Char)
      /\ buffer \in Seq(Char)
  BY DEF IInv, Typed
<1>3. n \in Nat /\ m \in Nat /\ m <= n /\ \A i \in 1 .. m : received[i] = sent[i]
  BY <1>2, LenProperties DEF IInv, InOrder
<1>4. PICK behind \in [0 .. n -> Seq(Char)] : Follows(behind)
  BY DEF IInv, Aligned
<1>5. behind[m] = buffer \o wire
  BY <1>4 DEF Follows
<1>6. /\ Incomplete.status = "Incomplete" /\ InvalidLength.status = "InvalidLength"
  BY DEF Incomplete, InvalidLength
<1>7. ASSUME result = Incomplete PROVE IInv'
  <2>1. reading' = TRUE /\ buffer' = buffer /\ received' = received /\ refused' = refused
    BY <1>6, <1>7, Zenon DEF Decode
  <2>2. Typed' /\ InOrder' /\ RefusedForCause' /\ WaitsForMore'
    BY <1>1, <1>7, <2>1 DEF IInv, Typed, InOrder, RefusedForCause, WaitsForMore
  <2>3. Follows(behind)'
    BY <1>1, <1>4, <2>1 DEF Follows
  <2> QED BY <1>1, <2>2, <2>3 DEF IInv, Aligned
<1>8. CASE m < n
  <2> DEFINE payload == sent[m + 1]
             f == Frame(payload)
  <2>1. m + 1 \in 1 .. n /\ m + 1 \in 0 .. n /\ (m + 1) - 1 = m
    BY <1>3, <1>8
  <2>2. payload \in Sendable
    BY <1>2, <2>1, ElementOfSeq
  <2>3. behind[m + 1] \in Seq(Char)
    BY <2>1
  <2>4. behind[m] = f \o behind[m + 1]
    <3>1. \A i \in 1 .. n : behind[i - 1] = Frame(sent[i]) \o behind[i]
      BY <1>4 DEF Follows
    <3> QED BY <2>1, <3>1
  <2> HIDE DEF payload
  <2>5. \/ result = Incomplete
        \/ /\ result = [status |-> "Complete", payload |-> payload, consumed_bytes |-> Len(f)]
           /\ GoesOn(buffer, wire, f, behind[m + 1])
    <3> DEFINE tail == behind[m + 1]
    <3>1. tail \in Seq(Char) /\ buffer \o wire = f \o tail
      BY <1>5, <2>3, <2>4
    <3> HIDE DEF tail
    <3>2. \/ result = Incomplete
          \/ /\ result = [status |-> "Complete", payload |-> payload, consumed_bytes |-> Len(f)]
             /\ GoesOn(buffer, wire, f, tail)
      BY <1>2, <2>2, <3>1, NextFrame, Zenon
    <3> QED BY <3>2 DEF tail
  <2>6. CASE result = Incomplete
    BY <1>7, <2>6
  <2>7. CASE /\ result = [status |-> "Complete", payload |-> payload, consumed_bytes |-> Len(f)]
             /\ GoesOn(buffer, wire, f, behind[m + 1])
    <3>1. result.status = "Complete" /\ result.payload = payload /\ result.consumed_bytes = Len(f)
      BY <2>7
    <3> HIDE DEF result
    <3>2. /\ received' = Append(received, payload)
          /\ buffer' = Behind(buffer, f)
          /\ reading' = reading /\ refused' = refused
      <4>1. /\ received' = Append(received, result.payload)
            /\ Consume(result.consumed_bytes)
            /\ UNCHANGED <<reading, refused>>
        BY <3>1, Zenon DEF Decode, result
      <4> QED BY <3>1, <4>1, Zenon DEF Consume, Behind
    <3>3. buffer' \in Seq(Char) /\ behind[m + 1] = buffer' \o wire
      BY <2>7, <3>2, Zenon DEF GoesOn
    <3>4. /\ received' \in Seq(Sendable) /\ Len(received') = m + 1
          /\ \A i \in 1 .. m : received'[i] = received[i]
          /\ received'[m + 1] = payload
      BY <1>2, <2>2, <3>2, AppendProperties
    <3>5. Typed'
      BY <1>1, <3>2, <3>3, <3>4 DEF IInv, Typed
    <3>6. InOrder'
      <4>1. m + 1 <= n /\ \A i \in 1 .. m + 1 : received'[i] = sent[i]
        <5> HIDE DEF n, m
        <5>1. \A i \in 1 .. m + 1 : i \in 1 .. m \/ i = m + 1
          BY <1>3
        <5> QED BY <1>3, <2>1, <3>4, <5>1 DEF payload
      <4> QED BY <1>1, <3>4, <4>1 DEF InOrder
    <3>7. Aligned'
      <4>1. Follows(behind)'
        BY <1>1, <1>4, <3>3, <3>4 DEF Follows
      <4> QED BY <1>1, <4>1 DEF Aligned
    <3>8. WaitsForMore' /\ RefusedForCause'
      BY <1>1, <3>2 DEF WaitsForMore, RefusedForCause
    <3> QED BY <3>5, <3>6, <3>7, <3>8 DEF IInv
  <2> QED BY <2>5, <2>6, <2>7
<1>9. CASE m = n
  <2>1. buffer \o wire = behind[n]
    BY <1>5, <1>9
  <2>2. CASE ~bad
    <3>1. buffer \o wire = <<>>
      BY <1>4, <2>1, <2>2 DEF Follows
    <3>2. Len(buffer) = 0
      <4>1. Len(buffer \o wire) = Len(buffer) + Len(wire)
        BY <1>2, ConcatProperties
      <4>2. Len(buffer) \in Nat /\ Len(wire) \in Nat /\ Len(<<>>) = 0
        BY <1>2, LenProperties, EmptySeq
      <4> QED BY <3>1, <4>1, <4>2
    <3>3. result = Incomplete
      BY <3>2 DEF try_decode_frame, frame_header_size
    <3> QED BY <1>7, <3>3
  <2>3. CASE bad
    <3>1. Refusable(buffer \o wire)
      BY <1>4, <2>1, <2>3 DEF Follows
    <3>2. result = Incomplete \/ result = InvalidLength
      BY <1>2, <3>1, RefusedOrIncomplete, Zenon
    <3>3. CASE result = InvalidLength
      <4>1. refused' = TRUE /\ buffer' = buffer /\ reading' = reading /\ received' = received
        BY <1>6, <3>3, Zenon DEF Decode
      <4>2. received = sent
        BY <1>2, <1>3, <1>9, SeqEqual
      <4>3. Typed' /\ InOrder' /\ WaitsForMore' /\ RefusedForCause'
        BY <1>1, <2>3, <4>1, <4>2 DEF IInv, Typed, InOrder, WaitsForMore, RefusedForCause
      <4>4. Follows(behind)'
        BY <1>1, <1>4, <4>1 DEF Follows
      <4> QED BY <1>1, <4>3, <4>4 DEF IInv, Aligned
    <3> QED BY <1>7, <3>2, <3>3
  <2> QED BY <2>2, <2>3
<1> QED BY <1>3, <1>8, <1>9

\* Nothing has been sent.
LEMMA InitInv == Init => IInv
<1> SUFFICES ASSUME Init PROVE IInv
  OBVIOUS
<1>1. /\ sent = <<>> /\ wire = <<>> /\ buffer = <<>> /\ received = <<>>
      /\ reading = TRUE /\ bad = FALSE /\ refused = FALSE
  BY DEF Init
<1>2. /\ \A S : <<>> \in Seq(S)
      /\ Len(<<>>) = 0
      /\ <<>> \o <<>> = <<>>
  <2>1. \A S : <<>> \in Seq(S)
    BY EmptySeq
  <2>2. Len(<<>>) = 0
    OBVIOUS
  <2>3. <<>> \o <<>> = <<>>
    BY <2>1, ConcatEmptySeq
  <2> QED BY <2>1, <2>2, <2>3
<1>3. Typed /\ InOrder /\ RefusedForCause
  <2>1. Typed
    BY <1>1, <1>2 DEF Typed
  <2>2. InOrder
    BY <1>1, <1>2 DEF InOrder
  <2>3. RefusedForCause
    BY <1>1 DEF RefusedForCause
  <2> QED BY <2>1, <2>2, <2>3
<1>4. WaitsForMore
  BY <1>1, <1>2 DEF WaitsForMore, try_decode_frame, frame_header_size
<1>5. Aligned
  <2> DEFINE behind == [i \in 0 .. 0 |-> <<>>]
  <2>1. behind \in [0 .. 0 -> Seq(Char)] /\ behind[0] = <<>>
    BY <1>2
  <2> HIDE DEF behind
  <2>2. Follows(behind)
    BY <1>1, <1>2, <2>1 DEF Follows
  <2> QED BY <1>1, <1>2, <2>1, <2>2 DEF Aligned
<1> QED BY <1>3, <1>4, <1>5 DEF IInv

\* Step by step.
LEMMA StepInv == IInv /\ [Next]_vars => IInv'
<1> SUFFICES ASSUME IInv, [Next]_vars PROVE IInv'
  OBVIOUS
<1>1. CASE Write
  BY <1>1, WriteKeepsInv
<1>2. CASE WriteBadHeader
  BY <1>2, BadHeaderKeepsInv
<1>3. CASE Read
  BY <1>3, ReadKeepsInv
<1>4. CASE Decode
  BY <1>4, DecodeKeepsInv
<1>5. CASE UNCHANGED vars
  BY <1>5 DEF vars, IInv, Typed, InOrder, Aligned, Follows, WaitsForMore, RefusedForCause
<1> QED BY <1>1, <1>2, <1>3, <1>4, <1>5 DEF Next

\* A reader that waits on an empty wire has taken out every frame: the next one
\* would be whole in its buffer.
LEMMA InvDelivers == IInv => StreamIsPreserved
<1> SUFFICES ASSUME IInv PROVE StreamIsPreserved
  OBVIOUS
<1>1. /\ sent \in Seq(Sendable) /\ received \in Seq(Sendable) /\ wire \in Seq(Char)
      /\ buffer \in Seq(Char)
  BY DEF IInv, Typed
<1> DEFINE n == Len(sent)
           m == Len(received)
<1>2. n \in Nat /\ m \in Nat /\ m <= n /\ \A i \in 1 .. m : received[i] = sent[i]
  BY <1>1, LenProperties DEF IInv, InOrder
<1>3. BufferBounded
  BY <1>1, IncompleteIsShort DEF IInv, WaitsForMore, BufferBounded
<1>4. ASSUME wire = <<>>, reading, ~bad PROVE received = sent
  <2>1. PICK behind \in [0 .. n -> Seq(Char)] : Follows(behind)
    BY DEF IInv, Aligned
  <2>2. buffer \o wire = behind[m]
    BY <2>1 DEF Follows
  <2>3. ~(m < n)
    <3> SUFFICES ASSUME m < n PROVE FALSE
      OBVIOUS
    <3> DEFINE payload == sent[m + 1]
               tail == behind[m + 1]
               f == Frame(payload)
    <3>1. m + 1 \in 1 .. n /\ m + 1 \in 0 .. n /\ (m + 1) - 1 = m
      BY <1>2
    <3>2. payload \in Sendable /\ tail \in Seq(Char)
      BY <1>1, <3>1, ElementOfSeq
    <3>3. buffer \o wire = f \o tail
      <4>1. \A i \in 1 .. n : behind[i - 1] = Frame(sent[i]) \o behind[i]
        BY <2>1 DEF Follows
      <4> QED BY <2>2, <3>1, <4>1
    <3>4. f \in Seq(Char)
      BY <3>2, FrameOfPayload
    <3> HIDE DEF tail, f, payload
    <3>5. Len(buffer) = Len(f) + Len(tail)
      <4>1. buffer \o wire = buffer
        BY <1>1, <1>4, ConcatEmptySeq
      <4>2. Len(f \o tail) = Len(f) + Len(tail)
        BY <3>2, <3>4, ConcatProperties
      <4> QED BY <3>3, <4>1, <4>2
    <3>6. Len(f) \in Nat /\ Len(tail) \in Nat
      BY <3>2, <3>4, LenProperties
    <3>7. try_decode_frame(buffer) = Incomplete
      BY <1>4 DEF IInv, WaitsForMore
    <3>8. \/ try_decode_frame(buffer) = Incomplete /\ Len(buffer) < Len(f)
          \/ /\ try_decode_frame(buffer)
                  = [status |-> "Complete", payload |-> payload, consumed_bytes |-> Len(f)]
             /\ GoesOn(buffer, wire, f, tail)
      <4>1. buffer \o wire = Frame(payload) \o tail
        BY <3>3 DEF f
      <4>2. \/ try_decode_frame(buffer) = Incomplete /\ Len(buffer) < Len(Frame(payload))
            \/ /\ try_decode_frame(buffer) = [status |-> "Complete", payload |-> payload,
                                               consumed_bytes |-> Len(Frame(payload))]
               /\ GoesOn(buffer, wire, Frame(payload), tail)
        BY <1>1, <3>2, <4>1, NextFrame, Zenon
      <4> QED BY <4>2, Zenon DEF f
    <3>9. Incomplete # [status |-> "Complete", payload |-> payload, consumed_bytes |-> Len(f)]
      BY DEF Incomplete
    <3>10. Len(buffer) < Len(f)
      BY <3>7, <3>8, <3>9, Zenon
    <3> QED BY <3>5, <3>6, <3>10
  <2>4. m = n
    BY <1>2, <2>3
  <2> QED BY <1>1, <1>2, <2>4, SeqEqual
<1>5. Delivered
  BY <1>2, <1>4 DEF Delivered
<1> QED BY <1>3, <1>5 DEF StreamIsPreserved, IInv

\* The inductive invariant of the stream: what is behind every frame the reader
\* has taken out is what it holds and what is still in the wire.
THEOREM InvariantHolds == Spec => []IInv
BY InitInv, StepInv, PTL DEF Spec

\* Over any number of frames, cut and joined anywhere, every payload comes out as
\* it went in, in order; only a bad header ends the stream, and only behind the
\* last frame; and a reader that waits holds less than one largest frame
\* (framing.cpp:16-80, and the loops of its two readers).
THEOREM FramesArriveWhole == Spec => []StreamIsPreserved
BY InvariantHolds, InvDelivers, PTL
=============================================================================
