------------------------------- MODULE IrLink -------------------------------
(***************************************************************************)
(* The infra-red link layer of one badge: the two circular packet queues,  *)
(* the interrupt handlers that fill and drain them and the main loop at    *)
(* the other end.                                                          *)
(*                                                                         *)
(* Contexts.  Timer2Handler (priority 2) preempts Int1Interrupt (priority  *)
(* 1), which preempts the main loop.  Timer2 runs to completion, so each   *)
(* of its branches is one action.  Int1 and the main loop are cut wherever *)
(* they touch a variable they share with a context that can preempt them.  *)
(*                                                                         *)
(* Abstraction.  The 32 bits of a frame (module IrBits) are sampled by     *)
(* Timer2 alone, in variables nobody else reads: `frame` holds the value   *)
(* and the number of Manchester errors the 32 bits will turn out to have.  *)
(* packets_seen and num_packets_seen (activity display) are left out.      *)
(***************************************************************************)
EXTENDS Integers, Sequences

CONSTANTS
  MAXPACKETQUEUE,   \* slots of each queue
  MyId,             \* G_sysData.badgeId
  SEND_DELAY,       \* loop passes ir_ping asks for (80000 in the code)
  ERR_RANGE,        \* values of the counter G_IRerror (an unsigned char)
  Frames,           \* packets other badges may send
  FrameErrors,      \* bit errors a frame may arrive with
  AppPackets,       \* packets the applications of this badge send
  NoPacket

IR_PING == 14
IR_ERROR == 26
IR_LASTADRESS == 27
PING_BROADCAST == 1024

\* The data word is a flag (PING_REQUEST, PING_RESPONSE or neither) and a value.
Packet == [badgeId : 0..511, address : 0..31, kind : {"request", "response", "other"},
           val : Nat]

ZeroPacket == [badgeId |-> 0, address |-> 0, kind |-> "other", val |-> 0]

ASSUME QueueAssumption == MAXPACKETQUEUE \in Nat \ {0, 1}
ASSUME PacketAssumption ==
  /\ Frames \subseteq Packet
  /\ AppPackets \subseteq Packet
  /\ NoPacket \notin Packet \cup [pkt : Frames, errs : FrameErrors]
ASSUME NumberAssumption ==
  /\ MyId \in 1..447
  /\ SEND_DELAY \in Nat
  /\ ERR_RANGE \in Nat \ {0}
  /\ FrameErrors \subseteq Nat

Slot == 0..(MAXPACKETQUEUE - 1)

VARIABLES
  IRpacketsIn, IRpacketInCurr, IRpacketInNext,
  IRpacketsOut, IRpacketOutCurr, IRpacketOutNext,
  G_IRrecv, G_IRsend, G_IRsendVal, G_IRerror,
  frame,            \* the frame on the air: [pkt, errs], or NoPacket
  int1,             \* Int1Interrupt: "idle", or "passed" its test of the two flags
  main,             \* where IRhandler is
  arg,              \* the packet its handler was called with
  enq, enqArg,      \* where IRqueueSend is, and its argument
  send_delay, pinged, ping_responded

inVars   == <<IRpacketsIn, IRpacketInCurr, IRpacketInNext>>
outVars  == <<IRpacketsOut, IRpacketOutCurr, IRpacketOutNext>>
isrVars  == <<G_IRrecv, G_IRsend, G_IRsendVal, G_IRerror, frame, int1>>
enqVars  == <<enq, enqArg>>
loopVars == <<main, arg>>
pingVars == <<send_delay, pinged, ping_responded>>
vars == <<inVars, outVars, isrVars, enqVars, loopVars, pingVars>>

Init ==
  /\ IRpacketsIn = [s \in Slot |-> ZeroPacket]
  /\ IRpacketsOut = [s \in Slot |-> ZeroPacket]
  /\ IRpacketInCurr = 0 /\ IRpacketInNext = 0
  /\ IRpacketOutCurr = 0 /\ IRpacketOutNext = 0
  /\ G_IRrecv = 0 /\ G_IRsend = 0 /\ G_IRerror = 0
  /\ G_IRsendVal = NoPacket     \* read only while G_IRsend is 1
  /\ frame = NoPacket /\ int1 = "idle"
  /\ main = "loop" /\ arg = NoPacket
  /\ enq = "idle" /\ enqArg = NoPacket
  /\ send_delay = 0 /\ pinged = 0 /\ ping_responded = 0

SuccUnwrapped(i) == i + 1
Succ(i) == (i + 1) % MAXPACKETQUEUE

\* The queue tests of the two producers.
NeverFull(next, curr) == FALSE
Full(next, curr) == Succ(next) = curr

(***************************************************************************)
(* Timer2Handler, receiving.  The frame's 32 bits are complete: add its    *)
(* errors, store it if there is room and keep it if it is for this badge.  *)
(***************************************************************************)
AnyId(id) == TRUE
ForUs(id) == id = 0 \/ id = MyId \/ id > 447

\* Address and data are overwritten if there was an error.
ErrorReport(pkt, err) ==
  [badgeId |-> pkt.badgeId, address |-> IR_ERROR, kind |-> "other", val |-> err]

Received(pkt, err) == IF err = 0 THEN pkt ELSE ErrorReport(pkt, err)

TotalErrors == (G_IRerror + frame.errs) % ERR_RANGE

Timer2RecvDone ==
  /\ G_IRrecv = 1
  /\ LET pkt == Received(frame.pkt, TotalErrors) IN
       IF Full(IRpacketInNext, IRpacketInCurr)
       THEN G_IRerror' = TotalErrors /\ UNCHANGED inVars
       ELSE /\ IRpacketsIn' = [IRpacketsIn EXCEPT ![IRpacketInNext] = pkt]
            /\ IRpacketInNext' = IF ForUs(pkt.badgeId) THEN Succ(IRpacketInNext)
                                                       ELSE IRpacketInNext
            /\ G_IRerror' = 0
            /\ UNCHANGED IRpacketInCurr
  /\ G_IRrecv' = 0
  /\ frame' = NoPacket
  /\ UNCHANGED <<outVars, G_IRsend, G_IRsendVal, int1, enqVars, loopVars, pingVars>>

(***************************************************************************)
(* Timer2Handler, not receiving: take the oldest packet of the send queue, *)
(* or finish the last bit of the one on the air.                           *)
(***************************************************************************)
Timer2SendStart ==
  /\ G_IRrecv = 0 /\ G_IRsend = 0
  /\ IRpacketOutNext # IRpacketOutCurr
  /\ G_IRsendVal' = IRpacketsOut[IRpacketOutCurr]
  /\ G_IRsend' = 1
  /\ IRpacketOutCurr' = Succ(IRpacketOutCurr)
  /\ UNCHANGED <<inVars, IRpacketsOut, IRpacketOutNext, G_IRrecv, G_IRerror, frame, int1,
                 enqVars, loopVars, pingVars>>

\* Between the two stores of `x++; x %= MAXPACKETQUEUE;` a frame (2048 timer
\* ticks) can neither start nor end; a single tick can fall there.
Settled == main # "wrap" /\ enq # "wrap"

Timer2SendDoneKeepsFlag ==
  /\ Settled
  /\ G_IRrecv = 0 /\ G_IRsend = 1
  /\ G_IRsendVal' = NoPacket
  /\ UNCHANGED <<inVars, outVars, G_IRrecv, G_IRsend, G_IRerror, frame, int1, enqVars,
                 loopVars, pingVars>>

Timer2SendDone ==
  /\ Settled
  /\ G_IRrecv = 0 /\ G_IRsend = 1
  /\ G_IRsend' = 0
  /\ G_IRsendVal' = NoPacket    \* nobody reads it until the next start
  /\ UNCHANGED <<inVars, outVars, G_IRrecv, G_IRerror, frame, int1, enqVars, loopVars,
                 pingVars>>

(***************************************************************************)
(* Int1Interrupt, on an edge of the receiver: test the flags, then start a *)
(* receive.  Timer2 may run between the two.                               *)
(***************************************************************************)
Int1Test ==
  /\ Settled
  /\ int1 = "idle"
  /\ G_IRsend = 0 /\ G_IRrecv = 0
  /\ int1' = "passed"
  /\ UNCHANGED <<inVars, outVars, G_IRrecv, G_IRsend, G_IRsendVal, G_IRerror, frame, enqVars,
                 loopVars, pingVars>>

Int1Set ==
  /\ int1 = "passed"
  /\ \E p \in Frames, e \in FrameErrors : frame' = [pkt |-> p, errs |-> e]
  /\ G_IRrecv' = 1
  /\ int1' = "idle"
  /\ UNCHANGED <<inVars, outVars, G_IRsend, G_IRsendVal, G_IRerror, enqVars, loopVars,
                 pingVars>>

(***************************************************************************)
(* IRqueueSend, called by an application or by a packet handler.           *)
(***************************************************************************)
Running == int1 = "idle"      \* the main context has the processor

QueueTest ==
  /\ Running /\ enq = "test"
  /\ IF Full(IRpacketOutNext, IRpacketOutCurr)
     THEN enq' = "idle" /\ enqArg' = NoPacket
     ELSE enq' = "store" /\ UNCHANGED enqArg
  /\ UNCHANGED <<inVars, outVars, isrVars, loopVars, pingVars>>

QueueStore ==
  /\ Running /\ enq = "store"
  /\ IRpacketsOut' = [IRpacketsOut EXCEPT ![IRpacketOutNext] = enqArg]
  /\ enq' = "bump" /\ enqArg' = NoPacket
  /\ UNCHANGED <<inVars, IRpacketOutCurr, IRpacketOutNext, isrVars, loopVars, pingVars>>

QueueBump ==
  /\ Running /\ enq = "bump"
  /\ IRpacketOutNext' = IRpacketOutNext + 1
  /\ enq' = "wrap"
  /\ UNCHANGED <<inVars, IRpacketsOut, IRpacketOutCurr, isrVars, enqArg, loopVars, pingVars>>

QueueWrap ==
  /\ Running /\ enq = "wrap"
  /\ IRpacketOutNext' = IRpacketOutNext % MAXPACKETQUEUE
  /\ enq' = "idle"
  /\ UNCHANGED <<inVars, IRpacketsOut, IRpacketOutCurr, isrVars, enqArg, loopVars, pingVars>>

IRqueueSend(pkt) == enq' = "test" /\ enqArg' = pkt

AppSend ==
  /\ Running /\ main = "loop" /\ enq = "idle"
  /\ \E p \in AppPackets : IRqueueSend(p)
  /\ UNCHANGED <<inVars, outVars, isrVars, loopVars, pingVars>>

\* ping_cb and QC_cb show the two results of ir_ping and clear them.
AppShowPing ==
  /\ Running /\ main = "loop" /\ enq = "idle"
  /\ \/ ping_responded # 0 /\ ping_responded' = 0 /\ UNCHANGED pinged
     \/ pinged # 0 /\ pinged' = 0 /\ UNCHANGED ping_responded
  /\ UNCHANGED <<inVars, outVars, isrVars, enqVars, loopVars, send_delay>>

(***************************************************************************)
(* IRhandler, called once in every pass of the main loop.                  *)
(***************************************************************************)
HandlerTestWaitsFirst ==
  /\ Running /\ main = "loop" /\ enq = "idle"
  /\ IF IRpacketInCurr # IRpacketInNext
     THEN send_delay = 0 /\ main' = "dispatch" /\ UNCHANGED send_delay
     ELSE send_delay > 0 /\ send_delay' = send_delay - 1 /\ UNCHANGED main
  /\ UNCHANGED <<inVars, outVars, isrVars, enqVars, arg, pinged, ping_responded>>

HandlerTest ==
  /\ Running /\ main = "loop" /\ enq = "idle"
  /\ IF IRpacketInCurr # IRpacketInNext /\ send_delay = 0
     THEN main' = "dispatch" /\ UNCHANGED send_delay
     ELSE /\ send_delay > 0
          /\ send_delay' = send_delay - 1
          /\ UNCHANGED main
  /\ UNCHANGED <<inVars, outVars, isrVars, enqVars, arg, pinged, ping_responded>>

\* Unknown addresses are skipped.
HandlerCall ==
  /\ Running /\ main = "dispatch"
  /\ arg' = IRpacketsIn[IRpacketInCurr]
  /\ main' = IF arg'.address < IR_LASTADRESS THEN "handler" ELSE "consume"
  /\ UNCHANGED <<inVars, outVars, isrVars, enqVars, pingVars>>

PingReply == [badgeId |-> 0, address |-> IR_PING, kind |-> "response", val |-> MyId]

ir_ping ==
  /\ arg.address = IR_PING
  /\ \/ /\ arg.kind = "request"
        /\ pinged' = IF arg.val % 512 = 0 THEN PING_BROADCAST ELSE arg.val % 512
        /\ send_delay' = SEND_DELAY
        /\ IRqueueSend(PingReply)
        /\ UNCHANGED ping_responded
     \/ /\ arg.kind = "response"
        /\ ping_responded' = arg.val % 512
        /\ UNCHANGED <<pinged, send_delay, enqVars>>
     \/ /\ arg.kind = "other"
        /\ UNCHANGED <<pingVars, enqVars>>

\* The other handlers change nothing of the link's.
HandlerBody ==
  /\ Running /\ main = "handler"
  /\ ir_ping \/ (arg.address # IR_PING /\ UNCHANGED <<pingVars, enqVars>>)
  /\ main' = "consume"
  /\ UNCHANGED <<inVars, outVars, isrVars, arg>>

ConsumeBump ==
  /\ Running /\ main = "consume" /\ enq = "idle"
  /\ IRpacketInCurr' = IRpacketInCurr + 1
  /\ main' = "wrap" /\ arg' = NoPacket
  /\ UNCHANGED <<IRpacketsIn, IRpacketInNext, outVars, isrVars, enqVars, pingVars>>

ConsumeWrap ==
  /\ Running /\ main = "wrap"
  /\ IRpacketInCurr' = IRpacketInCurr % MAXPACKETQUEUE
  /\ main' = "loop"
  /\ UNCHANGED <<IRpacketsIn, IRpacketInNext, outVars, isrVars, enqVars, arg, pingVars>>

Timer2 == Timer2RecvDone \/ Timer2SendStart \/ Timer2SendDone
Int1 == Int1Test \/ Int1Set
QueueSend == QueueTest \/ QueueStore \/ QueueBump \/ QueueWrap
IRhandler == HandlerTest \/ HandlerCall \/ HandlerBody \/ ConsumeBump \/ ConsumeWrap
Main == QueueSend \/ AppSend \/ AppShowPing \/ IRhandler

Next == Timer2 \/ Int1 \/ Main

Spec == Init /\ [][Next]_vars

(***************************************************************************)
(* Fairness.  Timer2 fires 38000 times a second, an interrupt handler ends *)
(* after a few instructions, and the main loop never stops: a step of      *)
(* these that stays possible is taken.  The main loop is interrupted again *)
(* and again but always gets the processor back, and between two frames    *)
(* the air is quiet for at least half a bit (32 ticks), so a packet that   *)
(* waits meets a tick with both flags clear: strong fairness for these.    *)
(***************************************************************************)
Fairness ==
  /\ WF_vars(Timer2RecvDone) /\ WF_vars(Timer2SendDone) /\ WF_vars(Int1Set)
  /\ SF_vars(Timer2SendStart)
  /\ SF_vars(QueueSend) /\ SF_vars(IRhandler)

FairSpec == Spec /\ Fairness

-----------------------------------------------------------------------------
(* Properties.                                                             *)

PacketOrNone == Packet \cup {NoPacket}

\* Every variable has a value of the C type it models.
TypeOK ==
  /\ IRpacketsIn \in [Slot -> Packet] /\ IRpacketsOut \in [Slot -> Packet]
  /\ IRpacketInNext \in Slot /\ IRpacketOutCurr \in Slot
  /\ IRpacketInCurr \in 0..MAXPACKETQUEUE /\ IRpacketOutNext \in 0..MAXPACKETQUEUE
  /\ G_IRrecv \in {0, 1} /\ G_IRsend \in {0, 1}
  /\ G_IRsendVal \in PacketOrNone
  /\ G_IRerror \in 0..(ERR_RANGE - 1)
  /\ frame \in [pkt : Frames, errs : FrameErrors] \cup {NoPacket}
  /\ int1 \in {"idle", "passed"}
  /\ main \in {"loop", "dispatch", "handler", "consume", "wrap"}
  /\ arg \in PacketOrNone
  /\ enq \in {"idle", "test", "store", "bump", "wrap"}
  /\ enqArg \in PacketOrNone
  /\ send_delay \in 0..SEND_DELAY
  /\ pinged \in Nat /\ ping_responded \in Nat

\* The packets in slots from, from + 1, ... up to but not including `to`.
Distance(from, to) == IF from <= to THEN to - from ELSE MAXPACKETQUEUE - from + to

Queued(buffer, from, to) ==
  [i \in 1..Distance(from, to) |->
     buffer[IF from + i - 1 < MAXPACKETQUEUE THEN from + i - 1
                                            ELSE from + i - 1 - MAXPACKETQUEUE]]

\* A queue index as the ring sees it: MAXPACKETQUEUE is about to become 0.
Wrapped(i) == IF i = MAXPACKETQUEUE THEN 0 ELSE i

\* The first slot IRhandler has not taken its packet from.
FirstUntaken ==
  IF main \in {"handler", "consume"} THEN Wrapped(IRpacketInCurr + 1)
                                     ELSE Wrapped(IRpacketInCurr)

ErrorReports == {ErrorReport(p, e) : p \in Frames, e \in 1..(ERR_RANGE - 1)}

\* Packets for everybody, for this badge, or with a command in badgeId.
ReceivedItems ==
  {p \in Frames \cup ErrorReports : p.badgeId \in {0, MyId} \cup 448..511}
SentItems == AppPackets \cup {PingReply}

InFifo == INSTANCE IrFifo WITH
  Capacity <- MAXPACKETQUEUE - 1, KeepsPlace <- TRUE, Nothing <- NoPacket,
  Items <- ReceivedItems,
  waiting <- Queued(IRpacketsIn, FirstUntaken, IRpacketInNext),
  taken <- arg

OutFifo == INSTANCE IrFifo WITH
  Capacity <- MAXPACKETQUEUE - 1, KeepsPlace <- FALSE, Nothing <- NoPacket,
  Items <- SentItems,
  waiting <- Queued(IRpacketsOut, IRpacketOutCurr, Wrapped(IRpacketOutNext)),
  taken <- G_IRsendVal

\* An index leaves the ring only between the two stores of its increment.
IndexInv ==
  /\ IRpacketInCurr \in IF main = "wrap" THEN 1..MAXPACKETQUEUE ELSE Slot
  /\ IRpacketOutNext \in IF enq = "wrap" THEN 1..MAXPACKETQUEUE ELSE Slot

\* What a value is for goes with the control state that uses it.
ControlInv ==
  /\ G_IRrecv = 1 <=> frame # NoPacket
  /\ G_IRsend = 1 <=> G_IRsendVal # NoPacket
  /\ main \in {"handler", "consume"} <=> arg # NoPacket
  /\ enq \in {"test", "store"} <=> enqArg # NoPacket
  /\ enq \in {"test", "store"} => enqArg \in SentItems
  /\ enq = "bump" => IRpacketsOut[IRpacketOutNext] \in SentItems
  /\ main \in {"dispatch", "handler", "wrap"} => enq = "idle"
  /\ main = "wrap" => int1 = "idle"

\* A test made on a queue stays true until the index it allowed is stored,
\* although the other side moves its own index in between.
TestedInv ==
  /\ main \in {"dispatch", "handler", "consume"} => IRpacketInCurr # IRpacketInNext
  /\ main = "wrap" => Succ(IRpacketInNext) # Wrapped(IRpacketInCurr) \/ G_IRrecv = 0
  /\ enq \in {"store", "bump"} => Succ(IRpacketOutNext) # IRpacketOutCurr
  /\ enq = "wrap" => IRpacketOutCurr # Wrapped(IRpacketOutNext) \/ G_IRsend = 1

(* The reason no lock is needed between the main loop and the interrupt    *)
(* handlers (ir.c:113-116): the inductive invariant of the link.           *)
NoLockNeeded == TypeOK /\ IndexInv /\ ControlInv /\ TestedInv

(* The receive queue is a mailbox: each packet that Timer2Handler keeps is *)
(* handed to IRhandler's dispatch once, unaltered and in order, without a  *)
(* lock, as the comment in IRhandler claims (ir.c:113-116), and only       *)
(* packets for this badge are handed over.                                 *)
ReceiveQueueIsFifo == InFifo!Spec

(* The send queue is a mailbox: each packet IRqueueSend has room for is    *)
(* transmitted once, unaltered and in order, whatever Timer2Handler does   *)
(* while IRqueueSend is half way.                                          *)
SendQueueIsFifo == OutFifo!Spec

(* A packet waiting in the receive queue is consumed: a send_delay set by  *)
(* ir_ping runs down and other traffic cannot keep IRhandler from it.      *)
ReceivedIsHandled ==
  \A s \in Slot : IRpacketInCurr = s /\ IRpacketInNext # s ~> IRpacketInCurr # s

(* A packet waiting in the send queue goes on the air, although receiving  *)
(* has precedence over sending in Timer2Handler.                           *)
QueuedIsSent ==
  \A s \in Slot : IRpacketOutCurr = s /\ Wrapped(IRpacketOutNext) # s ~> IRpacketOutCurr # s

(* A frame in which every bit was a proper Manchester transition is stored *)
(* as it was sent: "overwrite if error" (timer1_int.c:127).                *)
GoodFrameIsKept ==
  [][frame # NoPacket /\ frame.errs = 0 /\ IRpacketInNext' # IRpacketInNext
       => IRpacketsIn'[IRpacketInNext] = frame.pkt]_vars
=============================================================================
