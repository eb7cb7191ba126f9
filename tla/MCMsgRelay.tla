----------------------------- MODULE MCMsgRelay -----------------------------
(***************************************************************************)
(* Instances of MsgRelay for TLC.  Texts have room for 4 characters, two   *)
(* packets; badge 1 writes a long text and badge 2 a short one.            *)
(***************************************************************************)
EXTENDS MsgRelay

TextOf(c0, c1, c2, c3) == [k \in Pos |-> CASE k = 0 -> c0 [] k = 1 -> c1
                                           [] k = 2 -> c2 [] OTHER -> c3]

LongText == TextOf("A", "B", "C", "nul")
ShortText == TextOf("D", "nul", "nul", "nul")

MCChars == {"blank", "A", "B", "C", "D", "nul"}
OneWriter == {1}
TwoBadges == {1, 2}
Outgoing == [b \in Badges |-> IF b = 1 THEN LongText ELSE ShortText]
Amount == [b \in Badges |-> 3]
=============================================================================
