---------------------------- MODULE IrLinkProofs ----------------------------
(***************************************************************************)
(* Proofs about IrLink, for every queue length, badge id, set of frames    *)
(* and delay: the inductive invariant NoLockNeeded, and that each of the   *)
(* two circular queues implements the mailbox of IrFifo.                   *)
(***************************************************************************)
EXTENDS IrLink, TLAPS, SequenceTheorems

-----------------------------------------------------------------------------
(* Arithmetic on the ring.                                                 *)

\* A queue index below the length is left alone by %.
LEMMA ModSmall == ASSUME NEW n \in Nat \ {0}, NEW i \in 0..(n-1) PROVE i % n = i
  BY SMTT(30)
\* The length itself becomes 0.
LEMMA ModN == ASSUME NEW n \in Nat \ {0} PROVE n % n = 0
  BY SMTT(30)
\* The next slot, as Timer2Handler computes it, is a slot.
LEMMA SuccIs == ASSUME NEW i \in Slot PROVE Succ(i) = Wrapped(i+1) /\ Succ(i) \in Slot
  BY ModSmall, ModN, QueueAssumption DEF Succ, Wrapped, Slot

\* What a queue holds is a sequence, as long as the distance of its indices.
LEMMA QueuedType ==
  ASSUME NEW buffer \in [Slot -> Packet]
  PROVE  \A from, to \in Slot :
           /\ Queued(buffer, from, to) \in Seq(Packet)
           /\ Len(Queued(buffer, from, to)) = Distance(from, to)
           /\ Distance(from, to) \in 0..(MAXPACKETQUEUE - 1)
           /\ (Queued(buffer, from, to) = <<>>) <=> (from = to)
<1> TAKE from, to \in Slot
<1> DEFINE at(i) == IF from + i - 1 < MAXPACKETQUEUE THEN from + i - 1
                                            ELSE from + i - 1 - MAXPACKETQUEUE
<1>1. Distance(from, to) \in 0..(MAXPACKETQUEUE - 1)
  BY QueueAssumption DEF Slot, Distance
<1>2. \A i \in 1..Distance(from, to) : at(i) \in Slot
  BY QueueAssumption DEF Slot, Distance
<1>3. Queued(buffer, from, to) = [i \in 1..Distance(from, to) |-> buffer[at(i)]]
  BY DEF Queued
<1>4. \A i \in 1..Distance(from, to) : buffer[at(i)] \in Packet
  BY <1>2
<1>5. Queued(buffer, from, to) \in [1..Distance(from, to) -> Packet]
  BY <1>3, <1>4
<1>6. Queued(buffer, from, to) \in Seq(Packet) /\ Len(Queued(buffer, from, to)) = Distance(from, to)
  BY <1>1, <1>5
<1>7. Distance(from, to) = 0 <=> from = to
  BY QueueAssumption DEF Slot, Distance
<1> QED BY <1>1, <1>6, <1>7, EmptySeq

\* Moving the producer's index over a slot appends what the slot holds.
LEMMA QueuedAppend ==
  ASSUME NEW buffer \in [Slot -> Packet], NEW from \in Slot, NEW to \in Slot, NEW p \in Packet,
         Succ(to) # from, buffer[to] = p
  PROVE  Queued(buffer, from, Succ(to)) = Append(Queued(buffer, from, to), p)
<1> DEFINE q == Queued(buffer, from, to)
           r == Queued(buffer, from, Succ(to))
<1>0. \A a, b \in Slot : /\ Queued(buffer, a, b) \in Seq(Packet)
                         /\ Len(Queued(buffer, a, b)) = Distance(a, b)
                         /\ Distance(a, b) \in 0..(MAXPACKETQUEUE - 1)
                         /\ (Queued(buffer, a, b) = <<>>) <=> (a = b)
  BY QueuedType
<1>1. Succ(to) \in Slot /\ Succ(to) = Wrapped(to + 1)
  BY SuccIs
<1>2. Distance(from, Succ(to)) = Distance(from, to) + 1
  BY <1>1, QueueAssumption DEF Distance, Slot, Wrapped
<1>3. /\ q \in Seq(Packet) /\ Len(q) = Distance(from, to) /\ Len(q) \in Nat
      /\ r \in Seq(Packet) /\ Len(r) = Len(q) + 1
  <2>1. q \in Seq(Packet) /\ Len(q) = Distance(from, to) /\ Distance(from, to) \in Nat
    BY <1>0, QueueAssumption
  <2>2. r \in Seq(Packet) /\ Len(r) = Distance(from, Succ(to))
    BY <1>0, <1>1
  <2> QED BY <1>2, <2>1, <2>2
<1>4. \A i \in 1..Len(q) : r[i] = q[i]
  <2> SUFFICES ASSUME NEW i \in 1..Len(q) PROVE r[i] = q[i]
    OBVIOUS
  <2>1. i \in 1..Distance(from, to) /\ i \in 1..Distance(from, Succ(to))
    BY <1>2, <1>3
  <2> QED BY <2>1 DEF Queued
<1>5. r[Len(q) + 1] = p
  BY <1>2, <1>3, QueueAssumption DEF Queued, Distance, Slot
<1>6. /\ Append(q, p) \in Seq(Packet) /\ Len(Append(q, p)) = Len(q) + 1
      /\ \A i \in 1..Len(q) : Append(q, p)[i] = q[i]
      /\ Append(q, p)[Len(q) + 1] = p
  BY <1>3, AppendProperties
<1>7. \A i \in 1..Len(r) : r[i] = Append(q, p)[i]
  BY <1>3, <1>4, <1>5, <1>6
<1> QED BY <1>3, <1>6, <1>7, SeqEqual

\* Moving the consumer's index over a slot drops the head.
LEMMA QueuedTail ==
  ASSUME NEW buffer \in [Slot -> Packet], NEW from \in Slot, NEW to \in Slot, from # to
  PROVE  /\ Head(Queued(buffer, from, to)) = buffer[from]
         /\ Tail(Queued(buffer, from, to)) = Queued(buffer, Succ(from), to)
<1> DEFINE q == Queued(buffer, from, to)
           r == Queued(buffer, Succ(from), to)
<1>0. \A a, b \in Slot : /\ Queued(buffer, a, b) \in Seq(Packet)
                         /\ Len(Queued(buffer, a, b)) = Distance(a, b)
                         /\ Distance(a, b) \in 0..(MAXPACKETQUEUE - 1)
                         /\ (Queued(buffer, a, b) = <<>>) <=> (a = b)
  BY QueuedType
<1>1. Succ(from) \in Slot /\ Succ(from) = Wrapped(from + 1)
  BY SuccIs
<1>2. Distance(from, to) = Distance(Succ(from), to) + 1
  BY <1>1, QueueAssumption DEF Distance, Slot, Wrapped
<1>3. /\ q \in Seq(Packet) /\ Len(q) = Distance(from, to) /\ q # <<>>
      /\ r \in Seq(Packet) /\ Len(r) = Distance(Succ(from), to) /\ Len(q) = Len(r) + 1
      /\ Len(r) \in Nat /\ Len(q) <= MAXPACKETQUEUE - 1
  <2>1. /\ q \in Seq(Packet) /\ Len(q) = Distance(from, to) /\ q # <<>>
        /\ Distance(from, to) \in 0..(MAXPACKETQUEUE - 1)
    BY <1>0
  <2>2. /\ r \in Seq(Packet) /\ Len(r) = Distance(Succ(from), to)
        /\ Distance(Succ(from), to) \in 0..(MAXPACKETQUEUE - 1)
    BY <1>0, <1>1
  <2> QED BY <1>2, <2>1, <2>2, QueueAssumption
<1>4. /\ Head(q) = q[1] /\ Tail(q) \in Seq(Packet) /\ Len(Tail(q)) = Len(r)
      /\ \A i \in 1..Len(r) : Tail(q)[i] = q[i + 1]
  BY <1>3
<1>5. q[1] = buffer[from]
  <2>1. 1 \in 1..Distance(from, to)
    BY <1>3
  <2>2. from + 1 - 1 < MAXPACKETQUEUE /\ from + 1 - 1 = from
    BY QueueAssumption DEF Slot
  <2> QED BY <2>1, <2>2 DEF Queued
<1>6. \A i \in 1..Len(r) : q[i + 1] = r[i]
  <2> TAKE i \in 1..Len(r)
  <2>1. i + 1 \in 1..Len(q) /\ i \in 1..Distance(Succ(from), to) /\ i + 1 \in 1..Distance(from, to)
    BY <1>2, <1>3
  <2>2. i <= MAXPACKETQUEUE - 2
    BY <1>3, <2>1, QueueAssumption
  <2> QED BY <1>1, <2>1, <2>2, QueueAssumption DEF Queued, Slot, Wrapped
<1>7. Tail(q) = r
  BY <1>3, <1>4, <1>6, SeqEqual
<1> QED BY <1>4, <1>5, <1>7

\* The slot at the producer's index is not part of the queue.
LEMMA QueuedSame ==
  ASSUME NEW buffer \in [Slot -> Packet]
  PROVE  \A from, to \in Slot, p \in Packet : Queued([buffer EXCEPT ![to] = p], from, to) = Queued(buffer, from, to)
  BY QueueAssumption DEF Queued, Distance, Slot

\* An index about to be reduced becomes a slot.
LEMMA WrapIs ==
  ASSUME NEW i \in 1..MAXPACKETQUEUE
  PROVE  i % MAXPACKETQUEUE = Wrapped(i) /\ Wrapped(i) \in Slot
  BY ModSmall, ModN, QueueAssumption DEF Wrapped, Slot

-----------------------------------------------------------------------------
(* Packets.                                                                *)

\* The packets the badge itself makes are packets.
LEMMA Packets ==
  /\ PingReply \in Packet /\ ZeroPacket \in Packet
  /\ SentItems \subseteq Packet
  /\ \A p \in Frames, e \in 1..(ERR_RANGE - 1) :
       ErrorReport(p, e) \in Packet
<1>1. PingReply \in Packet
  BY NumberAssumption DEF PingReply, Packet, IR_PING
<1>2. ZeroPacket \in Packet
  BY DEF ZeroPacket, Packet
<1>3. SentItems \subseteq Packet
  BY <1>1, PacketAssumption DEF SentItems
<1>4. ASSUME NEW p \in Frames, NEW e \in 1..(ERR_RANGE - 1)
      PROVE  ErrorReport(p, e) \in Packet
  <2>1. p \in Packet /\ e \in Nat
    BY PacketAssumption, NumberAssumption
  <2> QED BY <2>1 DEF Packet, IR_ERROR, ErrorReport
<1> QED BY <1>1, <1>2, <1>3, <1>4

\* What Timer2Handler stores is the frame or an error report over it.
LEMMA ReceivedIs ==
  ASSUME NEW p \in Frames, NEW e \in 0..(ERR_RANGE - 1)
  PROVE  /\ Received(p, e) \in Packet
         /\ Received(p, e) \in Frames \cup ErrorReports
<1>1. CASE e = 0
  BY <1>1, PacketAssumption DEF Received
<1>2. CASE e # 0
  <2>1. e \in 1..(ERR_RANGE - 1)
    BY <1>2, NumberAssumption
  <2> DEFINE report == ErrorReport(p, e)
  <2>2. report \in Packet
    BY <2>1, Packets
  <2>3. report \in ErrorReports
    BY <2>1 DEF ErrorReports
  <2>4. Received(p, e) = report
    BY <1>2 DEF Received
  <2> QED BY <2>2, <2>3, <2>4
<1> QED BY <1>1, <1>2

\* The error count of a frame stays in the counter's range.
LEMMA TotalErrorsType ==
  ASSUME NEW a \in Nat, NEW b \in Nat
  PROVE  (a + b) % ERR_RANGE \in 0..(ERR_RANGE - 1)
  BY NumberAssumption
-----------------------------------------------------------------------------
(* The inductive invariant.                                                *)

\* It holds in the initial state, and one lemma per context keeps it.
LEMMA InitInv == Init => NoLockNeeded
<1> SUFFICES ASSUME Init PROVE NoLockNeeded
  OBVIOUS
<1>1. 0 \in Slot /\ 0 \in 0..MAXPACKETQUEUE /\ 0 \in 0..(ERR_RANGE - 1) /\ 0 \in 0..SEND_DELAY
  BY QueueAssumption, NumberAssumption DEF Slot
<1>2. TypeOK
  BY <1>1, Packets DEF Init, TypeOK, PacketOrNone
<1>3. IndexInv /\ ControlInv /\ TestedInv
  BY <1>1 DEF Init, IndexInv, ControlInv, TestedInv
<1> QED BY <1>2, <1>3 DEF NoLockNeeded

\* The end of a receive.  The consumer's test, made earlier, still holds.
LEMMA RecvDoneInv == NoLockNeeded /\ Timer2RecvDone => NoLockNeeded'
<1> SUFFICES ASSUME NoLockNeeded, Timer2RecvDone PROVE NoLockNeeded'
  OBVIOUS
<1> USE DEF NoLockNeeded
<1> DEFINE pkt == Received(frame.pkt, TotalErrors)
<1>1. frame \in [pkt : Frames, errs : FrameErrors]
  BY DEF Timer2RecvDone, ControlInv, TypeOK
<1>2. TotalErrors \in 0..(ERR_RANGE - 1)
  <2>1. frame.errs \in FrameErrors /\ FrameErrors \subseteq Nat
    BY <1>1, NumberAssumption
  <2>2. G_IRerror \in Nat
    BY NumberAssumption DEF TypeOK
  <2> QED BY <2>1, <2>2, TotalErrorsType DEF TotalErrors
<1>3. pkt \in Packet
  BY <1>1, <1>2, ReceivedIs
<1>4. Succ(IRpacketInNext) \in Slot
  BY SuccIs DEF TypeOK
<1>5. TypeOK'
  <2>1. IRpacketsIn' \in [Slot -> Packet]
    BY <1>3 DEF Timer2RecvDone, TypeOK, inVars
  <2>2. IRpacketInNext' \in Slot /\ G_IRerror' \in 0..(ERR_RANGE - 1)
    BY <1>2, <1>4, NumberAssumption DEF Timer2RecvDone, TypeOK, inVars
  <2> QED BY <2>1, <2>2 DEF Timer2RecvDone, TypeOK, inVars, outVars, enqVars, loopVars, pingVars, PacketOrNone
<1>6. IndexInv'
  BY DEF Timer2RecvDone, IndexInv, inVars, outVars, enqVars, loopVars
<1>7. ControlInv'
  BY DEF Timer2RecvDone, ControlInv, inVars, outVars, enqVars, loopVars
<1>8. TestedInv'
  <2>1. main \in {"dispatch", "handler", "consume"} => IRpacketInCurr # IRpacketInNext'
    BY DEF Timer2RecvDone, TestedInv, IndexInv, inVars, Full
  <2> QED BY <2>1 DEF Timer2RecvDone, TestedInv, inVars, outVars, enqVars, loopVars
<1> QED BY <1>5, <1>6, <1>7, <1>8

\* The start of a send.  The producer's test, made earlier, still holds.
LEMMA SendStartInv == NoLockNeeded /\ Timer2SendStart => NoLockNeeded'
<1> SUFFICES ASSUME NoLockNeeded, Timer2SendStart PROVE NoLockNeeded'
  OBVIOUS
<1> USE DEF NoLockNeeded
<1>1. IRpacketsOut[IRpacketOutCurr] \in Packet /\ IRpacketsOut[IRpacketOutCurr] # NoPacket
  BY PacketAssumption DEF TypeOK
<1>2. Succ(IRpacketOutCurr) \in Slot
  BY SuccIs DEF TypeOK
<1>3. TypeOK'
  BY <1>1, <1>2 DEF Timer2SendStart, TypeOK, inVars, enqVars, loopVars, pingVars, PacketOrNone
<1>4. IndexInv' /\ ControlInv'
  BY <1>1 DEF Timer2SendStart, IndexInv, ControlInv, inVars, enqVars, loopVars
<1>5. TestedInv'
  <2>1. enq \in {"store", "bump"} => Succ(IRpacketOutNext) # Succ(IRpacketOutCurr)
    BY SuccIs, QueueAssumption DEF Timer2SendStart, IndexInv, TypeOK, Wrapped, Slot
  <2> QED BY <2>1 DEF Timer2SendStart, TestedInv, inVars, enqVars, loopVars
<1> QED BY <1>3, <1>4, <1>5

\* The end of a send.
LEMMA SendDoneInv == NoLockNeeded /\ Timer2SendDone => NoLockNeeded'
<1> SUFFICES ASSUME NoLockNeeded, Timer2SendDone PROVE NoLockNeeded'
  OBVIOUS
<1> USE DEF NoLockNeeded
<1>1. TypeOK' /\ IndexInv' /\ ControlInv'
  BY DEF Timer2SendDone, TypeOK, IndexInv, ControlInv, inVars, outVars, enqVars, loopVars, pingVars, PacketOrNone
<1>2. TestedInv'
  BY DEF Timer2SendDone, Settled, TestedInv, inVars, outVars, enqVars, loopVars
<1> QED BY <1>1, <1>2

\* An edge of the receiver.
LEMMA Int1Inv == NoLockNeeded /\ Int1 => NoLockNeeded'
<1> SUFFICES ASSUME NoLockNeeded, Int1 PROVE NoLockNeeded'
  OBVIOUS
<1> USE DEF NoLockNeeded
<1>1. CASE Int1Test
  BY <1>1 DEF Int1Test, Settled, TypeOK, IndexInv, ControlInv, TestedInv, inVars, outVars, enqVars, loopVars, pingVars
<1>2. CASE Int1Set
  <2>1. PICK p \in Frames, e \in FrameErrors : frame' = [pkt |-> p, errs |-> e]
    BY <1>2 DEF Int1Set
  <2>2. frame' \in [pkt : Frames, errs : FrameErrors] /\ frame' # NoPacket
    BY <2>1, PacketAssumption
  <2>3. TypeOK' /\ IndexInv' /\ ControlInv'
    BY <1>2, <2>2 DEF Int1Set, TypeOK, IndexInv, ControlInv, inVars, outVars, enqVars, loopVars, pingVars
  <2>4. main # "wrap"
    BY <1>2 DEF Int1Set, ControlInv
  <2>5. TestedInv'
    BY <1>2, <2>4 DEF Int1Set, TestedInv, inVars, outVars, enqVars, loopVars
  <2> QED BY <2>3, <2>5
<1> QED BY <1>1, <1>2 DEF Int1

\* IRqueueSend.
LEMMA QueueSendInv == NoLockNeeded /\ QueueSend => NoLockNeeded'
<1> SUFFICES ASSUME NoLockNeeded, QueueSend PROVE NoLockNeeded'
  OBVIOUS
<1> USE DEF NoLockNeeded
<1>1. CASE QueueTest
  <2>1. TypeOK' /\ IndexInv' /\ ControlInv'
    BY <1>1 DEF QueueTest, TypeOK, IndexInv, ControlInv, inVars, outVars, isrVars, loopVars, pingVars, PacketOrNone
  <2>2. TestedInv'
    BY <1>1 DEF QueueTest, Full, TestedInv, inVars, outVars, isrVars, loopVars
  <2> QED BY <2>1, <2>2
<1>2. CASE QueueStore
  <2>1. enqArg \in Packet /\ enqArg \in SentItems /\ IRpacketOutNext \in Slot
    BY <1>2, Packets DEF QueueStore, ControlInv, IndexInv
  <2>2. IRpacketsOut' \in [Slot -> Packet] /\ IRpacketsOut'[IRpacketOutNext] = enqArg
    BY <1>2, <2>1 DEF QueueStore, TypeOK
  <2>3. TypeOK' /\ IndexInv' /\ ControlInv' /\ TestedInv'
    BY <1>2, <2>1, <2>2 DEF QueueStore, TypeOK, IndexInv, ControlInv, TestedInv, inVars, isrVars, loopVars, pingVars, PacketOrNone
  <2> QED BY <2>3
<1>3. CASE QueueBump
  <2>1. /\ IRpacketOutNext \in Slot /\ IRpacketOutNext + 1 \in 1..MAXPACKETQUEUE
        /\ IRpacketOutNext + 1 \in 0..MAXPACKETQUEUE
        /\ Succ(IRpacketOutNext) = Wrapped(IRpacketOutNext + 1)
    BY <1>3, SuccIs, QueueAssumption DEF QueueBump, IndexInv, Slot
  <2>2. TypeOK' /\ IndexInv' /\ ControlInv'
    BY <1>3, <2>1 DEF QueueBump, TypeOK, IndexInv, ControlInv, inVars, isrVars, loopVars, pingVars, PacketOrNone
  <2>3. TestedInv'
    BY <1>3, <2>1 DEF QueueBump, TestedInv, inVars, isrVars, loopVars
  <2> QED BY <2>2, <2>3
<1>4. CASE QueueWrap
  <2>1. IRpacketOutNext' \in Slot /\ IRpacketOutNext' = Wrapped(IRpacketOutNext)
    BY <1>4, WrapIs DEF QueueWrap, IndexInv
  <2>2. IRpacketOutNext' \in 0..MAXPACKETQUEUE
    BY <2>1, QueueAssumption DEF Slot
  <2>3. TypeOK'
    BY <1>4, <2>2 DEF QueueWrap, TypeOK, inVars, isrVars, loopVars, pingVars, PacketOrNone
  <2>4. IndexInv' /\ ControlInv'
    BY <1>4, <2>1 DEF QueueWrap, IndexInv, ControlInv, inVars, isrVars, loopVars
  <2>5. TestedInv'
    BY <1>4 DEF QueueWrap, TestedInv, inVars, isrVars, loopVars
  <2> QED BY <2>3, <2>4, <2>5
<1> QED BY <1>1, <1>2, <1>3, <1>4 DEF QueueSend

\* The applications.
LEMMA AppInv == NoLockNeeded /\ (AppSend \/ AppShowPing) => NoLockNeeded'
<1> SUFFICES ASSUME NoLockNeeded, AppSend \/ AppShowPing PROVE NoLockNeeded'
  OBVIOUS
<1> USE DEF NoLockNeeded
<1>1. CASE AppSend
  <2>1. PICK p \in AppPackets : IRqueueSend(p)
    BY <1>1 DEF AppSend
  <2>2. p \in SentItems /\ p \in Packet /\ p # NoPacket
    BY PacketAssumption DEF SentItems
  <2>3. TypeOK' /\ IndexInv' /\ ControlInv' /\ TestedInv'
    BY <1>1, <2>1, <2>2 DEF AppSend, IRqueueSend, TypeOK, IndexInv, ControlInv, TestedInv, inVars, outVars, isrVars, loopVars, pingVars, PacketOrNone
  <2> QED BY <2>3
<1>2. CASE AppShowPing
  BY <1>2 DEF AppShowPing, TypeOK, IndexInv, ControlInv, TestedInv, inVars, outVars, isrVars, loopVars, enqVars
<1> QED BY <1>1, <1>2

\* ir_ping and the other handlers: what they may change, and to what.
LEMMA HandlerBodyIs ==
  ASSUME NoLockNeeded, HandlerBody
  PROVE  /\ send_delay' \in 0..SEND_DELAY /\ pinged' \in Nat /\ ping_responded' \in Nat
         /\ \/ UNCHANGED enqVars
            \/ enq' = "test" /\ enqArg' = PingReply
<1> USE DEF NoLockNeeded
<1>1. arg \in Packet /\ arg.val \in Nat /\ arg.val % 512 \in Nat
  BY DEF HandlerBody, ControlInv, TypeOK, PacketOrNone, Packet
<1> QED BY <1>1, NumberAssumption
  DEF HandlerBody, ir_ping, IRqueueSend, TypeOK, pingVars, PING_BROADCAST

\* IRhandler.
LEMMA IRhandlerInv == NoLockNeeded /\ IRhandler => NoLockNeeded'
<1> SUFFICES ASSUME NoLockNeeded, IRhandler PROVE NoLockNeeded'
  OBVIOUS
<1> USE DEF NoLockNeeded
<1>1. CASE HandlerTest
  <2>1. send_delay' \in 0..SEND_DELAY
    BY <1>1, NumberAssumption DEF HandlerTest, TypeOK
  <2> QED BY <1>1, <2>1 DEF HandlerTest, TypeOK, IndexInv, ControlInv, TestedInv, inVars, outVars, isrVars, enqVars
<1>2. CASE HandlerCall
  <2>1. arg' \in Packet /\ arg' # NoPacket
    BY <1>2, PacketAssumption DEF HandlerCall, TypeOK, IndexInv
  <2> QED BY <1>2, <2>1 DEF HandlerCall, TypeOK, IndexInv, ControlInv, TestedInv, inVars, outVars, isrVars, enqVars, pingVars, PacketOrNone
<1>3. CASE HandlerBody
  <2>1. /\ send_delay' \in 0..SEND_DELAY /\ pinged' \in Nat /\ ping_responded' \in Nat
        /\ \/ UNCHANGED enqVars
           \/ enq' = "test" /\ enqArg' = PingReply
    BY <1>3, HandlerBodyIs
  <2>2. PingReply \in SentItems /\ PingReply \in Packet /\ PingReply # NoPacket
    BY Packets, PacketAssumption DEF SentItems
  <2>3. main' = "consume" /\ main = "handler" /\ UNCHANGED <<inVars, outVars, isrVars, arg>>
    BY <1>3 DEF HandlerBody
  <2>4. TypeOK'
    BY <2>1, <2>2, <2>3 DEF TypeOK, inVars, outVars, isrVars, enqVars, PacketOrNone
  <2>5. IndexInv' /\ TestedInv'
    <3>1. enq = "idle"
      BY <2>3 DEF ControlInv
    <3> QED BY <2>1, <2>3, <3>1 DEF IndexInv, TestedInv, inVars, outVars, isrVars, enqVars
  <2>6. ControlInv'
    BY <2>1, <2>2, <2>3 DEF ControlInv, inVars, outVars, isrVars, enqVars
  <2> QED BY <2>4, <2>5, <2>6
<1>4. CASE ConsumeBump
  <2>1. /\ IRpacketInCurr \in Slot /\ IRpacketInCurr + 1 \in 1..MAXPACKETQUEUE
        /\ IRpacketInCurr + 1 \in 0..MAXPACKETQUEUE
        /\ Succ(IRpacketInCurr) = Wrapped(IRpacketInCurr + 1)
    BY <1>4, SuccIs, QueueAssumption DEF ConsumeBump, IndexInv, Slot
  <2>2. Succ(IRpacketInNext) # Succ(IRpacketInCurr)
    BY <1>4, <2>1, SuccIs, QueueAssumption DEF ConsumeBump, TestedInv, TypeOK, Wrapped, Slot
  <2>3. TypeOK' /\ IndexInv' /\ ControlInv'
    BY <1>4, <2>1 DEF ConsumeBump, Running, TypeOK, IndexInv, ControlInv, outVars, isrVars, enqVars, pingVars, PacketOrNone
  <2>4. TestedInv'
    BY <1>4, <2>1, <2>2 DEF ConsumeBump, TestedInv, outVars, isrVars, enqVars
  <2> QED BY <2>3, <2>4
<1>5. CASE ConsumeWrap
  <2>1. IRpacketInCurr' \in Slot
    BY <1>5, WrapIs DEF ConsumeWrap, IndexInv
  <2>2. IRpacketInCurr' \in 0..MAXPACKETQUEUE
    BY <2>1, QueueAssumption DEF Slot
  <2>3. TypeOK'
    BY <1>5, <2>2 DEF ConsumeWrap, TypeOK, outVars, isrVars, enqVars, pingVars
  <2>4. IndexInv' /\ ControlInv'
    BY <1>5, <2>1 DEF ConsumeWrap, IndexInv, ControlInv, outVars, isrVars, enqVars
  <2>5. TestedInv'
    BY <1>5 DEF ConsumeWrap, TestedInv, outVars, isrVars, enqVars
  <2> QED BY <2>3, <2>4, <2>5
<1> QED BY <1>1, <1>2, <1>3, <1>4, <1>5 DEF IRhandler

\* Every step keeps the invariant.
LEMMA NextInv == NoLockNeeded /\ [Next]_vars => NoLockNeeded'
<1>1. NoLockNeeded /\ UNCHANGED vars => NoLockNeeded'
  BY DEF NoLockNeeded, TypeOK, IndexInv, ControlInv, TestedInv, vars, inVars, outVars, isrVars, enqVars, loopVars, pingVars
<1> QED BY <1>1, RecvDoneInv, SendStartInv, SendDoneInv, Int1Inv, QueueSendInv, AppInv, IRhandlerInv
  DEF Next, Timer2, Main

(* The test each side makes on a queue index stays valid until that side   *)
(* has stored its own index, so IRhandler, IRqueueSend and Timer2Handler   *)
(* need no lock (ir.c:113-116).                                            *)
THEOREM LockFree == Spec => []NoLockNeeded
  BY InitInv, NextInv, PTL DEF Spec

(* Every variable keeps its type.                                          *)
THEOREM TypeCorrect == Spec => []TypeOK
<1>1. NoLockNeeded => TypeOK
  BY DEF NoLockNeeded
<1> QED BY <1>1, LockFree, PTL

-----------------------------------------------------------------------------
(* The receive queue implements the mailbox.                               *)

\* The queue is not full when the slot after the producer's is not the consumer's.
LEMMA RoomLeft ==
  ASSUME NEW a \in Slot, NEW b \in Slot, Succ(b) # a
  PROVE  Distance(a, b) < MAXPACKETQUEUE - 1
<1>1. Succ(b) = Wrapped(b + 1)
  BY SuccIs
<1> QED BY <1>1, QueueAssumption DEF Distance, Slot, Wrapped

\* Where the waiting packets start, and why there is room when Timer2Handler finds it.
LEMMA FirstUntakenIs ==
  ASSUME NoLockNeeded
  PROVE  /\ FirstUntaken \in Slot
         /\ main \in {"handler", "consume"} => FirstUntaken = Succ(IRpacketInCurr)
         /\ main \notin {"handler", "consume", "wrap"} => FirstUntaken = IRpacketInCurr
<1>1. main \in {"handler", "consume"} => IRpacketInCurr \in Slot /\ FirstUntaken = Wrapped(IRpacketInCurr + 1)
  BY DEF NoLockNeeded, IndexInv, FirstUntaken
<1>2. main = "wrap" => FirstUntaken \in Slot
  BY WrapIs DEF NoLockNeeded, IndexInv, FirstUntaken
<1>3. main \notin {"handler", "consume", "wrap"} => FirstUntaken = IRpacketInCurr /\ FirstUntaken \in Slot
  BY QueueAssumption DEF NoLockNeeded, IndexInv, FirstUntaken, Wrapped, Slot
<1> QED BY <1>1, <1>2, <1>3, SuccIs

\* The length of the mailbox is what Timer2Handler and IRhandler count.
LEMMA RoomInMailbox ==
  ASSUME NoLockNeeded, G_IRrecv = 1, ~Full(IRpacketInNext, IRpacketInCurr)
  PROVE  InFifo!InUse < MAXPACKETQUEUE - 1 /\ Succ(IRpacketInNext) # FirstUntaken
<1> DEFINE w == Queued(IRpacketsIn, FirstUntaken, IRpacketInNext)
<1>1. IRpacketInNext \in Slot /\ FirstUntaken \in Slot /\ IRpacketsIn \in [Slot -> Packet]
  BY FirstUntakenIs DEF NoLockNeeded, TypeOK
<1>2. Len(w) = Distance(FirstUntaken, IRpacketInNext)
  BY <1>1, QueuedType
<1>3. Distance(FirstUntaken, IRpacketInNext) \in Nat
  BY <1>1, QueuedType
<1>4. CASE main \in {"handler", "consume"}
  <2>1. /\ IRpacketInCurr \in Slot /\ IRpacketInCurr # IRpacketInNext
        /\ FirstUntaken = Succ(IRpacketInCurr) /\ FirstUntaken = Wrapped(IRpacketInCurr + 1)
        /\ Succ(IRpacketInNext) # IRpacketInCurr
        /\ Succ(IRpacketInNext) = Wrapped(IRpacketInNext + 1)
    BY <1>1, <1>4, FirstUntakenIs, SuccIs DEF NoLockNeeded, IndexInv, TestedInv, Full
  <2>2. Distance(IRpacketInCurr, IRpacketInNext) < MAXPACKETQUEUE - 1
    BY <1>1, <2>1, RoomLeft
  <2>3. Distance(FirstUntaken, IRpacketInNext) + 1 = Distance(IRpacketInCurr, IRpacketInNext)
    BY <1>1, <2>1, QueueAssumption DEF Distance, Slot, Wrapped
  <2>4. Succ(IRpacketInNext) # FirstUntaken
    BY <1>1, <2>1, QueueAssumption DEF Slot, Wrapped
  <2>5. InFifo!InUse <= Len(w) + 1
    BY <1>2, <1>3 DEF InFifo!InUse
  <2> QED BY <1>2, <1>3, <2>2, <2>3, <2>4, <2>5, QueueAssumption DEF InFifo!InUse
<1>5. CASE main \notin {"handler", "consume"}
  <2>1. arg = NoPacket
    BY <1>5 DEF NoLockNeeded, ControlInv
  <2>2. Succ(IRpacketInNext) # FirstUntaken
    BY <1>5, FirstUntakenIs DEF NoLockNeeded, TestedInv, Full, FirstUntaken
  <2>3. Distance(FirstUntaken, IRpacketInNext) < MAXPACKETQUEUE - 1
    BY <1>1, <2>2, RoomLeft
  <2> QED BY <1>2, <1>3, <2>1, <2>2, <2>3 DEF InFifo!InUse
<1> QED BY <1>4, <1>5

\* The end of a receive is a Put, or leaves the mailbox alone.
LEMMA InRecvDone ==
  ASSUME NoLockNeeded, Timer2RecvDone
  PROVE  (\E p \in ReceivedItems : InFifo!Put(p)) \/ UNCHANGED InFifo!fifoVars
<1> DEFINE pkt == Received(frame.pkt, TotalErrors)
<1>1. /\ frame.pkt \in Frames /\ TotalErrors \in 0..(ERR_RANGE - 1)
  <2>1. frame \in [pkt : Frames, errs : FrameErrors]
    BY DEF NoLockNeeded, Timer2RecvDone, ControlInv, TypeOK
  <2>2. frame.errs \in FrameErrors /\ FrameErrors \subseteq Nat
    BY <2>1, NumberAssumption
  <2>3. G_IRerror \in Nat
    BY NumberAssumption DEF NoLockNeeded, TypeOK
  <2> QED BY <2>1, <2>2, <2>3, TotalErrorsType DEF TotalErrors
<1>2. pkt \in Packet /\ pkt \in Frames \cup ErrorReports
  BY <1>1, ReceivedIs
<1>3. /\ IRpacketInNext \in Slot /\ FirstUntaken \in Slot /\ IRpacketsIn \in [Slot -> Packet]
      /\ FirstUntaken' = FirstUntaken /\ arg' = arg
  BY FirstUntakenIs DEF NoLockNeeded, TypeOK, Timer2RecvDone, FirstUntaken, Wrapped, inVars, loopVars
<1>4. CASE Full(IRpacketInNext, IRpacketInCurr)
  BY <1>3, <1>4 DEF Timer2RecvDone, inVars, InFifo!fifoVars
<1>5. CASE ~Full(IRpacketInNext, IRpacketInCurr)
  <2>1. IRpacketsIn' = [IRpacketsIn EXCEPT ![IRpacketInNext] = pkt]
    BY <1>5 DEF Timer2RecvDone
  <2>2. Queued(IRpacketsIn', FirstUntaken, IRpacketInNext) = Queued(IRpacketsIn, FirstUntaken, IRpacketInNext)
    BY <1>2, <1>3, <2>1, QueuedSame
  <2>3. CASE ~ForUs(pkt.badgeId)
    <3>1. IRpacketInNext' = IRpacketInNext
      BY <1>5, <2>3 DEF Timer2RecvDone
    <3> QED BY <1>3, <2>2, <3>1 DEF InFifo!fifoVars
  <2>4. CASE ForUs(pkt.badgeId)
    <3>1. IRpacketInNext' = Succ(IRpacketInNext)
      BY <1>5, <2>4 DEF Timer2RecvDone
    <3>2. Succ(IRpacketInNext) # FirstUntaken /\ InFifo!InUse < MAXPACKETQUEUE - 1
      BY <1>5, RoomInMailbox DEF Timer2RecvDone
    <3>3. IRpacketsIn' \in [Slot -> Packet] /\ IRpacketsIn'[IRpacketInNext] = pkt
      BY <1>2, <1>3, <2>1
    <3>4. Queued(IRpacketsIn', FirstUntaken, Succ(IRpacketInNext))
            = Append(Queued(IRpacketsIn', FirstUntaken, IRpacketInNext), pkt)
      BY <1>2, <1>3, <3>2, <3>3, QueuedAppend
    <3>5. InFifo!Put(pkt)
      BY <1>3, <2>2, <3>1, <3>2, <3>4 DEF InFifo!Put
    <3>6. pkt \in ReceivedItems
      <4>1. pkt.badgeId \in 0..511
        BY <1>2 DEF Packet
      <4>2. pkt.badgeId \in {0, MyId} \cup 448..511
        BY <2>4, <4>1 DEF ForUs
      <4> QED BY <1>2, <4>2 DEF ReceivedItems
    <3> QED BY <3>5, <3>6
  <2> QED BY <2>3, <2>4
<1> QED BY <1>4, <1>5

\* Calling the handler takes the oldest packet.
LEMMA InHandlerCall ==
  ASSUME NoLockNeeded, HandlerCall
  PROVE  InFifo!Take
<1>1. /\ IRpacketInNext \in Slot /\ IRpacketInCurr \in Slot /\ IRpacketsIn \in [Slot -> Packet]
      /\ IRpacketInCurr # IRpacketInNext /\ FirstUntaken = IRpacketInCurr /\ arg = NoPacket
  BY FirstUntakenIs DEF NoLockNeeded, TypeOK, IndexInv, TestedInv, ControlInv, HandlerCall
<1>2. FirstUntaken' = Succ(IRpacketInCurr)
  BY <1>1, SuccIs DEF HandlerCall, FirstUntaken, inVars
<1>3. /\ Queued(IRpacketsIn, IRpacketInCurr, IRpacketInNext) # <<>>
      /\ Head(Queued(IRpacketsIn, IRpacketInCurr, IRpacketInNext)) = IRpacketsIn[IRpacketInCurr]
      /\ Tail(Queued(IRpacketsIn, IRpacketInCurr, IRpacketInNext))
           = Queued(IRpacketsIn, Succ(IRpacketInCurr), IRpacketInNext)
  <2>1. Queued(IRpacketsIn, IRpacketInCurr, IRpacketInNext) # <<>>
    BY <1>1, QueuedType
  <2> QED BY <1>1, <2>1, QueuedTail
<1>4. IRpacketsIn' = IRpacketsIn /\ IRpacketInNext' = IRpacketInNext /\ arg' = IRpacketsIn[IRpacketInCurr]
  BY DEF HandlerCall, inVars
<1> QED BY <1>1, <1>2, <1>3, <1>4 DEF InFifo!Take

\* The first store of the consumer's increment gives the slot back.
LEMMA InConsumeBump ==
  ASSUME NoLockNeeded, ConsumeBump
  PROVE  InFifo!Forget
<1>1. arg # NoPacket /\ arg' = NoPacket
  BY DEF NoLockNeeded, ControlInv, ConsumeBump
<1>2. FirstUntaken' = FirstUntaken
  BY DEF ConsumeBump, FirstUntaken, Wrapped
<1> QED BY <1>1, <1>2 DEF ConsumeBump, InFifo!Forget

\* The second store does not change the mailbox.
LEMMA InConsumeWrap ==
  ASSUME NoLockNeeded, ConsumeWrap
  PROVE  UNCHANGED InFifo!fifoVars
<1>1. IRpacketInCurr' = Wrapped(IRpacketInCurr) /\ Wrapped(IRpacketInCurr) \in Slot
  BY WrapIs DEF NoLockNeeded, IndexInv, ConsumeWrap
<1>2. Wrapped(IRpacketInCurr') = IRpacketInCurr'
  BY <1>1, QueueAssumption DEF Wrapped, Slot
<1>3. FirstUntaken' = FirstUntaken
  BY <1>1, <1>2 DEF ConsumeWrap, FirstUntaken
<1> QED BY <1>3 DEF ConsumeWrap, InFifo!fifoVars

\* All other steps leave the receive queue alone.
LEMMA InOthers ==
  ASSUME \/ Timer2SendStart \/ Timer2SendDone \/ Int1 \/ QueueSend \/ AppSend \/ AppShowPing
         \/ HandlerTest \/ HandlerBody \/ UNCHANGED vars
  PROVE  UNCHANGED InFifo!fifoVars
<1>1. UNCHANGED inVars /\ arg' = arg
  BY DEF Timer2SendStart, Timer2SendDone, Int1, Int1Test, Int1Set, QueueSend, QueueTest, QueueStore,
         QueueBump, QueueWrap, AppSend, AppShowPing, HandlerTest, HandlerBody, vars, loopVars
<1>2. \/ main' = main
      \/ main = "loop" /\ main' = "dispatch"
      \/ main = "handler" /\ main' = "consume"
  BY DEF Timer2SendStart, Timer2SendDone, Int1, Int1Test, Int1Set, QueueSend, QueueTest, QueueStore,
         QueueBump, QueueWrap, AppSend, AppShowPing, HandlerTest, HandlerBody, vars, loopVars
<1>3. FirstUntaken' = FirstUntaken
  BY <1>1, <1>2 DEF FirstUntaken, Wrapped, inVars
<1> QED BY <1>1, <1>3 DEF InFifo!fifoVars, inVars

\* The mailbox starts empty.
LEMMA InInit == Init => InFifo!Init
<1> SUFFICES ASSUME Init PROVE InFifo!Init
  OBVIOUS
<1>1. FirstUntaken = 0 /\ IRpacketInNext = 0 /\ 0 \in Slot /\ IRpacketsIn \in [Slot -> Packet]
  BY Packets, QueueAssumption DEF Init, FirstUntaken, Wrapped, Slot
<1>2. Queued(IRpacketsIn, FirstUntaken, IRpacketInNext) = <<>>
  BY <1>1, QueuedType
<1> QED BY <1>2 DEF Init, InFifo!Init

(* The receive queue is a mailbox: every packet Timer2Handler keeps is     *)
(* handed to its handler once, unaltered and in order.                     *)
THEOREM ReceiveRefines == Spec => ReceiveQueueIsFifo
<1>1. NoLockNeeded /\ [Next]_vars => [InFifo!Next]_(InFifo!fifoVars)
  BY InRecvDone, InHandlerCall, InConsumeBump, InConsumeWrap, InOthers
  DEF Next, Timer2, Main, IRhandler, InFifo!Next
<1> QED BY <1>1, InInit, LockFree, PTL DEF Spec, ReceiveQueueIsFifo, InFifo!Spec

-----------------------------------------------------------------------------
(* The send queue implements the mailbox.                                  *)

\* The types the lemmas on queues need.
LEMMA OutTypes ==
  ASSUME NoLockNeeded
  PROVE  /\ IRpacketsOut \in [Slot -> Packet] /\ IRpacketOutCurr \in Slot
         /\ Wrapped(IRpacketOutNext) \in Slot
         /\ enq # "wrap" => IRpacketOutNext \in Slot /\ Wrapped(IRpacketOutNext) = IRpacketOutNext
<1>1. enq # "wrap" => IRpacketOutNext \in Slot /\ Wrapped(IRpacketOutNext) = IRpacketOutNext
  BY QueueAssumption DEF NoLockNeeded, IndexInv, Wrapped, Slot
<1>2. enq = "wrap" => Wrapped(IRpacketOutNext) \in Slot
  BY WrapIs DEF NoLockNeeded, IndexInv
<1> QED BY <1>1, <1>2 DEF NoLockNeeded, TypeOK

\* Storing in the free slot does not change the mailbox.
LEMMA OutQueueStore ==
  ASSUME NoLockNeeded, QueueStore
  PROVE  UNCHANGED OutFifo!fifoVars
<1>1. enqArg \in Packet /\ IRpacketOutNext \in Slot /\ Wrapped(IRpacketOutNext) = IRpacketOutNext
  BY Packets, OutTypes DEF NoLockNeeded, ControlInv, QueueStore
<1>2. Queued(IRpacketsOut', IRpacketOutCurr, IRpacketOutNext)
        = Queued(IRpacketsOut, IRpacketOutCurr, IRpacketOutNext)
  BY <1>1, OutTypes, QueuedSame DEF QueueStore
<1> QED BY <1>1, <1>2 DEF QueueStore, isrVars, OutFifo!fifoVars

\* The packet becomes visible to Timer2Handler at the increment of the index.
LEMMA OutQueueBump ==
  ASSUME NoLockNeeded, QueueBump
  PROVE  \E p \in SentItems : OutFifo!Put(p)
<1> DEFINE p == IRpacketsOut[IRpacketOutNext]
           w == Queued(IRpacketsOut, IRpacketOutCurr, IRpacketOutNext)
<1>1. /\ IRpacketOutNext \in Slot /\ Wrapped(IRpacketOutNext) = IRpacketOutNext
      /\ Succ(IRpacketOutNext) # IRpacketOutCurr /\ p \in SentItems /\ p \in Packet
  BY Packets, OutTypes DEF NoLockNeeded, ControlInv, TestedInv, QueueBump
<1>2. Wrapped(IRpacketOutNext') = Succ(IRpacketOutNext)
  BY <1>1, SuccIs DEF QueueBump
<1>3. Queued(IRpacketsOut, IRpacketOutCurr, Succ(IRpacketOutNext)) = Append(w, p)
  BY <1>1, OutTypes, QueuedAppend
<1>4. Len(w) < MAXPACKETQUEUE - 1 /\ Len(w) \in Nat
  BY <1>1, OutTypes, QueuedType, RoomLeft
<1>5. OutFifo!InUse < MAXPACKETQUEUE - 1
  BY <1>1, <1>4 DEF OutFifo!InUse
<1>6. OutFifo!Put(p)
  BY <1>1, <1>2, <1>3, <1>5 DEF QueueBump, isrVars, OutFifo!Put
<1> QED BY <1>1, <1>6

\* Reducing the index modulo the length does not change the mailbox.
LEMMA OutQueueWrap ==
  ASSUME NoLockNeeded, QueueWrap
  PROVE  UNCHANGED OutFifo!fifoVars
<1>1. IRpacketOutNext' = Wrapped(IRpacketOutNext) /\ Wrapped(IRpacketOutNext) \in Slot
  BY WrapIs DEF NoLockNeeded, IndexInv, QueueWrap
<1>2. Wrapped(IRpacketOutNext') = Wrapped(IRpacketOutNext)
  BY <1>1, QueueAssumption DEF Wrapped, Slot
<1> QED BY <1>2 DEF QueueWrap, isrVars, OutFifo!fifoVars

\* Timer2Handler takes the oldest packet, also between the two stores of
\* the main loop's increment.
LEMMA OutSendStart ==
  ASSUME NoLockNeeded, Timer2SendStart
  PROVE  OutFifo!Take
<1> DEFINE w == Queued(IRpacketsOut, IRpacketOutCurr, Wrapped(IRpacketOutNext))
<1>1. IRpacketOutCurr # Wrapped(IRpacketOutNext)
  BY OutTypes DEF NoLockNeeded, TestedInv, Timer2SendStart
<1>2. G_IRsendVal = NoPacket
  BY DEF NoLockNeeded, ControlInv, Timer2SendStart
<1>3. w # <<>>
  BY <1>1, OutTypes, QueuedType
<1>4. /\ Head(w) = IRpacketsOut[IRpacketOutCurr]
      /\ Tail(w) = Queued(IRpacketsOut, Succ(IRpacketOutCurr), Wrapped(IRpacketOutNext))
  BY <1>1, OutTypes, QueuedTail
<1> QED BY <1>2, <1>3, <1>4 DEF Timer2SendStart, OutFifo!Take

\* The end of a transmission forgets the packet.
LEMMA OutSendDone ==
  ASSUME NoLockNeeded, Timer2SendDone
  PROVE  OutFifo!Forget
  BY DEF NoLockNeeded, ControlInv, Timer2SendDone, outVars, OutFifo!Forget

\* All other steps leave the send queue alone.
LEMMA OutOthers ==
  ASSUME \/ Timer2RecvDone \/ Int1 \/ QueueTest \/ AppSend \/ AppShowPing
         \/ IRhandler \/ UNCHANGED vars
  PROVE  UNCHANGED OutFifo!fifoVars
<1>1. UNCHANGED outVars /\ G_IRsendVal' = G_IRsendVal
  BY DEF Timer2RecvDone, Int1, Int1Test, Int1Set, QueueTest, AppSend, AppShowPing, IRhandler,
         HandlerTest, HandlerCall, HandlerBody, ConsumeBump, ConsumeWrap, vars, isrVars
<1> QED BY <1>1 DEF OutFifo!fifoVars, outVars, Wrapped

\* The mailbox starts empty.
LEMMA OutInit == Init => OutFifo!Init
<1> SUFFICES ASSUME Init PROVE OutFifo!Init
  OBVIOUS
<1>1. Wrapped(IRpacketOutNext) = 0 /\ IRpacketOutCurr = 0 /\ 0 \in Slot /\ IRpacketsOut \in [Slot -> Packet]
  BY Packets, QueueAssumption DEF Init, Wrapped, Slot
<1>2. Queued(IRpacketsOut, IRpacketOutCurr, Wrapped(IRpacketOutNext)) = <<>>
  BY <1>1, QueuedType
<1> QED BY <1>2 DEF Init, OutFifo!Init

(* The send queue is a mailbox: every packet IRqueueSend has room for is   *)
(* transmitted once, unaltered and in order.                               *)
THEOREM SendRefines == Spec => SendQueueIsFifo
<1>1. NoLockNeeded /\ [Next]_vars => [OutFifo!Next]_(OutFifo!fifoVars)
  BY OutQueueStore, OutQueueBump, OutQueueWrap, OutSendStart, OutSendDone, OutOthers
  DEF Next, Timer2, Main, QueueSend, OutFifo!Next
<1> QED BY <1>1, OutInit, LockFree, PTL DEF Spec, SendQueueIsFifo, OutFifo!Spec

-----------------------------------------------------------------------------
(* Where a good frame becomes an error report.                             *)

\* What Timer2Handler would have to see to when it drops a frame.
DroppedWithoutError ==
  Timer2RecvDone /\ Full(IRpacketInNext, IRpacketInCurr) => TotalErrors = 0

LEMMA ErrorStep ==
  ASSUME NoLockNeeded, G_IRerror = 0, Next, DroppedWithoutError
  PROVE  /\ G_IRerror' = 0
         /\ frame # NoPacket /\ frame.errs = 0 /\ IRpacketInNext' # IRpacketInNext
              => IRpacketsIn'[IRpacketInNext] = frame.pkt
<1>1. CASE Timer2RecvDone
  <2>1. G_IRerror' = 0 BY <1>1 DEF Timer2RecvDone, DroppedWithoutError
  <2>2. ASSUME frame.errs = 0, IRpacketInNext' # IRpacketInNext
        PROVE  IRpacketsIn'[IRpacketInNext] = frame.pkt
    <3>1. IRpacketsIn' = [IRpacketsIn EXCEPT ![IRpacketInNext] = Received(frame.pkt, TotalErrors)]
      BY <1>1, <2>2 DEF Timer2RecvDone, inVars
    <3>2. 0 \in 0..(ERR_RANGE - 1) BY NumberAssumption
    <3>3. TotalErrors = 0 BY <2>2, <3>2, NumberAssumption, ModSmall DEF TotalErrors
    <3>4. IRpacketsIn \in [Slot -> Packet] /\ IRpacketInNext \in Slot BY DEF NoLockNeeded, TypeOK
    <3> QED BY <3>1, <3>3, <3>4 DEF Received
  <2> QED BY <2>1, <2>2
<1>2. CASE ~Timer2RecvDone
  <2>1. G_IRerror' = G_IRerror /\ IRpacketInNext' = IRpacketInNext
    BY <1>2 DEF Next, Timer2, Timer2SendStart, Timer2SendDone, Int1, Int1Test, Int1Set, Main,
         QueueSend, QueueTest, QueueStore, QueueBump, QueueWrap, AppSend, AppShowPing, IRhandler,
         HandlerTest, HandlerCall, HandlerBody, ConsumeBump, ConsumeWrap, inVars, isrVars
  <2> QED BY <2>1
<1> QED BY <1>1, <1>2

(* The errors of a frame that is dropped, because the queue is full, are   *)
(* the only ones that a later frame can be charged with: if no frame with  *)
(* errors is dropped, every frame without is stored as it was sent         *)
(* (timer1_int.c:127, 164).                                                *)
THEOREM OnlyDroppedErrorsStay == Spec /\ [][DroppedWithoutError]_vars => GoodFrameIsKept
<1> DEFINE Clean == G_IRerror = 0
           Keeps == frame # NoPacket /\ frame.errs = 0 /\ IRpacketInNext' # IRpacketInNext
                      => IRpacketsIn'[IRpacketInNext] = frame.pkt
<1>1. Init => Clean BY DEF Init
<1>2. NoLockNeeded /\ Clean /\ [Next]_vars /\ [DroppedWithoutError]_vars => Clean' /\ [Keeps]_vars
  <2>1. CASE Next /\ DroppedWithoutError BY <2>1, ErrorStep
  <2>2. CASE UNCHANGED vars BY <2>2 DEF vars, isrVars
  <2> QED BY <2>1, <2>2
<1> HIDE DEF Clean, Keeps
<1>3. Spec /\ [][DroppedWithoutError]_vars => [][Keeps]_vars BY <1>1, <1>2, LockFree, PTL DEF Spec
<1> QED BY <1>3 DEF Keeps, GoodFrameIsKept
=============================================================================
