-------------------------------- MODULE MCFraming ------------------------------
(* Bytes of two bits: a payload of five bytes has a length of two digits, and   *)
(* digits 2 and 3 are negative chars.                                           *)
EXTENDS Framing
MCPayloads == {<<>>, <<-2>>, <<1, 0, -1>>, <<0, -1, 0, 0, 0, 1>>, <<1, 1, 1, 1, 1, 1, 1>>}
Filler == [i \in 1 .. 7 |-> 0]
MCBadFrames == {<<0, 0, 0, 0>>, Header(7) \o Filler, Header(64), Header(255) \o Filler}
=============================================================================
