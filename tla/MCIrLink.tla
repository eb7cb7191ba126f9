------------------------------ MODULE MCIrLink ------------------------------
(***************************************************************************)
(* Instances of IrLink for TLC: badge 5; the frames on the air and the     *)
(* packets of an application.                                              *)
(***************************************************************************)
EXTENDS IrLink

PacketTo(id, address, kind, val) ==
  [badgeId |-> id, address |-> address, kind |-> kind, val |-> val]

\* A broadcast, and one for another badge.
ReceiveFrames == {PacketTo(0, IR_PING, "request", 0), PacketTo(9, 16, "other", 1)}

NoPackets == {}
OnePacket == {PacketTo(0, 16, "other", 7)}
=============================================================================
