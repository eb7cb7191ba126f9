--------------------------- MODULE MsgRelayProofs ---------------------------
(***************************************************************************)
(* The safety properties of MsgRelay for every number of badges, length of *)
(* text, relay count and loss of packets.                                  *)
(***************************************************************************)
EXTENDS MsgRelay, TLAPS

-----------------------------------------------------------------------------
(* Lemmas about packets.                                                   *)

(* What a packet carries is typed, and changes a text into a text.         *)
LEMMA WithPacketIsText ==
  ASSUME NEW text \in Text, NEW p \in Packet
  PROVE  WithPacket(text, p) \in Text
<1>1. MSG_NULL_TERM \in Chars /\ p.ch \in Chars /\ p.ch2 \in Chars /\ \A k \in Pos : text[k] \in Chars
  BY TextAssumption DEF Packet, Text
<1>2. \A k \in Pos : (CASE k = p.idx -> p.ch [] k = p.idx + 1 -> p.ch2 [] OTHER -> text[k]) \in Chars
  <2>1. p.idx \in Int BY DEF Packet, Pos
  <2> QED BY <1>1, <2>1 DEF Pos
<1> QED BY <1>1, <1>2 DEF WithPacket, Text

(* A broadcast leaves every mailbox as it was or adds the packet to it,    *)
(* and the sender's own as it was.                                         *)
LEMMA BroadcastAdds ==
  ASSUME NEW b \in Badges, NEW pkt \in Packet, inbox \in [Badges -> Seq(Packet)], Broadcast(b, pkt)
  PROVE  /\ inbox' \in [Badges -> Seq(Packet)]
         /\ inbox'[b] = inbox[b]
         /\ \A c \in Badges : inbox'[c] = inbox[c] \/ inbox'[c] = Append(inbox[c], pkt)
<1>1. PICK heard \in SUBSET (Badges \ {b}) :
        inbox' = [c \in Badges |-> IF c \in heard /\ Len(inbox[c]) < InboxRoom
                                   THEN Append(inbox[c], pkt) ELSE inbox[c]]
  BY DEF Broadcast
<1>2. \A c \in Badges : inbox[c] \in Seq(Packet) /\ Append(inbox[c], pkt) \in Seq(Packet) OBVIOUS
<1> QED BY <1>1, <1>2

(* The position stays an unsigned char, and what is queued is a packet.    *)
LEMMA SendTyped ==
  ASSUME NEW b \in Badges, NEW text \in Text, NEW cnt \in Nat, NEW done \in BOOLEAN,
         i \in [Badges -> 0..(IndexRange - 1)], inbox \in [Badges -> Seq(Packet)],
         msg_send_msg(b, text, cnt, done)
  PROVE  /\ i' \in [Badges -> 0..(IndexRange - 1)]
         /\ inbox' \in [Badges -> Seq(Packet)]
         /\ inbox'[b] = inbox[b]
         /\ \/ inbox' = inbox
            \/ \E pkt \in Packet :
                 /\ pkt.relay = cnt /\ pkt.idx + 1 \in Pos
                 /\ \A c \in Badges : inbox'[c] = inbox[c] \/ inbox'[c] = Append(inbox[c], pkt)
<1>1. /\ IndexRange \in Nat /\ MAX_MSG_LENGTH \in Nat /\ IndexRange > 0 /\ i[b] \in Nat
  BY TextAssumption
<1>2. (IF done THEN 0 ELSE (i[b] + 2) % IndexRange) \in 0..(IndexRange - 1) BY <1>1
<1>3. i' \in [Badges -> 0..(IndexRange - 1)] BY <1>2 DEF msg_send_msg
<1>4. CASE i[b] < MAX_MSG_LENGTH - 1
  <2> DEFINE pkt == [idx |-> i[b], ch |-> text[i[b]], ch2 |-> text[i[b] + 1], relay |-> cnt]
  <2>1. i[b] \in Pos /\ i[b] + 1 \in Pos BY <1>1, <1>4 DEF Pos
  <2>2. text[i[b]] \in Chars /\ text[i[b] + 1] \in Chars BY <2>1 DEF Text
  <2>3. pkt \in Packet /\ pkt.relay = cnt /\ pkt.idx + 1 \in Pos BY <2>1, <2>2 DEF Packet
  <2>4. Broadcast(b, pkt) BY <1>4 DEF msg_send_msg
  <2> HIDE DEF pkt
  <2> QED BY <1>3, <2>3, <2>4, BroadcastAdds
<1>5. CASE ~(i[b] < MAX_MSG_LENGTH - 1) BY <1>3, <1>5 DEF msg_send_msg
<1> QED BY <1>4, <1>5

-----------------------------------------------------------------------------
(* Types.                                                                  *)

LEMMA InitTypeOK == Init => TypeOK
<1> SUFFICES ASSUME Init PROVE TypeOK OBVIOUS
<1> USE DEF Init
<1>1. i \in [Badges -> 0..(IndexRange - 1)] BY TextAssumption
<1>2. incoming_message \in [Badges -> Text] BY TextAssumption DEF Text
<1>3. presses \in 0..MaxSends BY RelayAssumption
<1> QED BY <1>1, <1>2, <1>3 DEF TypeOK

(* The steps of the user keep the types.                                   *)
LEMMA UserTypeOK ==
  ASSUME TypeOK, NEW b \in Badges, User(b)
  PROVE  TypeOK'
<1>1. MaxSends \in Nat /\ IndexRange \in Nat /\ IndexRange > 0 BY RelayAssumption, TextAssumption
<1>2. CASE OpenApp(b) BY <1>2 DEF TypeOK, OpenApp, textVars
<1>3. CASE CloseApp(b) BY <1>3 DEF TypeOK, CloseApp, textVars
<1>4. CASE msg_begin_send(b) BY <1>1, <1>4 DEF TypeOK, msg_begin_send
<1>5. CASE clear_msg_cb(b)
  <2>1. [k \in Pos |-> BlankChar] \in Text BY TextAssumption DEF Text
  <2>2. incoming_message' \in [Badges -> Text] BY <1>5, <2>1 DEF TypeOK, clear_msg_cb
  <2> QED BY <1>1, <1>5, <2>2 DEF TypeOK, clear_msg_cb
<1> QED BY <1>2, <1>3, <1>4, <1>5 DEF User

(* A packet of the messenger: what it queues carries the user's count.     *)
LEMMA AppPacketStep ==
  ASSUME TypeOK, NEW b \in Badges, AppPacket(b)
  PROVE  /\ TypeOK'
         /\ inbox'[b] = inbox[b]
         /\ \/ inbox' = inbox
            \/ \E pkt \in Packet :
                 /\ pkt.relay = relay_amount[b] /\ pkt.idx + 1 \in Pos
                 /\ \A c \in Badges : inbox'[c] = inbox[c] \/ inbox'[c] = Append(inbox[c], pkt)
<1>1. PICK done \in BOOLEAN : /\ msg_send_msg(b, outgoing_message[b], relay_amount[b], done)
                              /\ app' = [app EXCEPT ![b] = IF done THEN "app" ELSE @]
  BY DEF AppPacket
<1>2. outgoing_message[b] \in Text /\ relay_amount[b] \in Nat BY TextAssumption, RelayAssumption
<1>3. i \in [Badges -> 0..(IndexRange - 1)] /\ inbox \in [Badges -> Seq(Packet)] BY DEF TypeOK
<1>4. /\ i' \in [Badges -> 0..(IndexRange - 1)] /\ inbox' \in [Badges -> Seq(Packet)]
      /\ inbox'[b] = inbox[b]
      /\ \/ inbox' = inbox
         \/ \E pkt \in Packet :
              /\ pkt.relay = relay_amount[b] /\ pkt.idx + 1 \in Pos
              /\ \A c \in Badges : inbox'[c] = inbox[c] \/ inbox'[c] = Append(inbox[c], pkt)
  BY <1>1, <1>2, <1>3, SendTyped
<1>5. app' \in [Badges -> {"menus", "app", "sending"}] BY <1>1 DEF TypeOK
<1>6. TypeOK' BY <1>4, <1>5 DEF AppPacket, TypeOK, textVars
<1> QED BY <1>4, <1>6

(* A packet of the relay: what it queues carries one less than is left.    *)
LEMMA RelayPacketStep ==
  ASSUME TypeOK, NEW b \in Badges, RelayPacket(b)
  PROVE  /\ TypeOK'
         /\ msg_relay_remaining[b] \in Nat /\ msg_relay_remaining[b] > 0
         /\ inbox'[b] = inbox[b]
         /\ \/ inbox' = inbox
            \/ \E pkt \in Packet :
                 /\ pkt.relay = msg_relay_remaining[b] - 1 /\ pkt.idx + 1 \in Pos
                 /\ \A c \in Badges : inbox'[c] = inbox[c] \/ inbox'[c] = Append(inbox[c], pkt)
<1>1. PICK done \in BOOLEAN :
        /\ msg_send_msg(b, incoming_message[b], RelayCount(b), done)
        /\ msg_relay_remaining' = [msg_relay_remaining EXCEPT ![b] = IF done THEN @ - 1 ELSE @]
  BY DEF RelayPacket
<1>2. msg_relay_remaining[b] \in Nat /\ msg_relay_remaining[b] > 0 BY DEF TypeOK, RelayPacket, Relaying
<1>3. incoming_message[b] \in Text /\ RelayCount(b) \in Nat BY <1>2 DEF TypeOK, RelayCount
<1>4. i \in [Badges -> 0..(IndexRange - 1)] /\ inbox \in [Badges -> Seq(Packet)] BY DEF TypeOK
<1>5. /\ i' \in [Badges -> 0..(IndexRange - 1)] /\ inbox' \in [Badges -> Seq(Packet)]
      /\ inbox'[b] = inbox[b]
      /\ \/ inbox' = inbox
         \/ \E pkt \in Packet :
              /\ pkt.relay = RelayCount(b) /\ pkt.idx + 1 \in Pos
              /\ \A c \in Badges : inbox'[c] = inbox[c] \/ inbox'[c] = Append(inbox[c], pkt)
  BY <1>1, <1>3, <1>4, SendTyped
<1>6. msg_relay_remaining' \in [Badges -> Nat] BY <1>1, <1>2 DEF TypeOK
<1>7. TypeOK' BY <1>5, <1>6 DEF RelayPacket, TypeOK
<1> QED BY <1>2, <1>5, <1>7 DEF RelayCount

LEMMA RelayStartTypeOK ==
  ASSUME TypeOK, NEW b \in Badges, RelayStart(b)
  PROVE  TypeOK'
BY DEF TypeOK, RelayStart

(* ir_livetext keeps the types.                                            *)
LEMMA ReceiveTypeOK ==
  ASSUME TypeOK, NEW b \in Badges, ir_livetext(b)
  PROVE  /\ TypeOK'
         /\ Head(inbox[b]) \in Packet
         /\ inbox'[b] = Tail(inbox[b]) /\ \A c \in Badges \ {b} : inbox'[c] = inbox[c]
<1> DEFINE p == Head(inbox[b])
<1>1. inbox[b] \in Seq(Packet) /\ inbox[b] # <<>> BY DEF TypeOK, ir_livetext
<1>2. p \in Packet /\ Tail(inbox[b]) \in Seq(Packet) BY <1>1
<1>3. inbox' = [inbox EXCEPT ![b] = Tail(@)] BY DEF ir_livetext
<1>4. inbox' \in [Badges -> Seq(Packet)] BY <1>2, <1>3 DEF TypeOK
<1>5. incoming_message' \in [Badges -> Text] /\ new_message' \in [Badges -> 0..2]
      /\ msg_relay_remaining' \in [Badges -> Nat]
  <2>1. CASE Deaf(b) BY <2>1 DEF ir_livetext, textVars, TypeOK
  <2>2. CASE ~Deaf(b)
    <3>1. /\ new_message' = [new_message EXCEPT ![b] = IF Terminates(p) THEN 1 ELSE 0]
          /\ msg_relay_remaining' = [msg_relay_remaining EXCEPT ![b] = p.relay]
          /\ incoming_message' = [incoming_message EXCEPT ![b] = WithPacket(@, p)]
      BY <2>2 DEF ir_livetext
    <3>2. incoming_message[b] \in Text BY DEF TypeOK
    <3>3. WithPacket(incoming_message[b], p) \in Text BY <1>2, <3>2, WithPacketIsText
    <3>4. p.relay \in Nat BY <1>2 DEF Packet
    <3> HIDE DEF p
    <3> QED BY <3>1, <3>3, <3>4 DEF TypeOK
  <2> QED BY <2>1, <2>2
<1>6. TypeOK' BY <1>4, <1>5 DEF ir_livetext, TypeOK
<1> QED BY <1>2, <1>3, <1>6 DEF TypeOK

LEMMA StepTypeOK == TypeOK /\ [Next]_vars => TypeOK'
<1> SUFFICES ASSUME TypeOK, [Next]_vars PROVE TypeOK' OBVIOUS
<1>1. ASSUME NEW b \in Badges, User(b) PROVE TypeOK' BY <1>1, UserTypeOK
<1>2. ASSUME NEW b \in Badges, AppPacket(b) PROVE TypeOK' BY <1>2, AppPacketStep
<1>3. ASSUME NEW b \in Badges, RelayStep(b) PROVE TypeOK'
  BY <1>3, RelayStartTypeOK, RelayPacketStep DEF RelayStep
<1>4. ASSUME NEW b \in Badges, ir_livetext(b) PROVE TypeOK' BY <1>4, ReceiveTypeOK
<1>5. CASE UNCHANGED vars BY <1>5 DEF vars, textVars, TypeOK
<1> QED BY <1>1, <1>2, <1>3, <1>4, <1>5 DEF Next

(* Every variable of the relay keeps its range; in particular no position  *)
(* leaves the unsigned char and no count goes below zero (messenger.c:131, *)
(* menu.c:1078, ir.c:288).                                                 *)
THEOREM RelayTypeCorrect == Spec => []TypeOK
<1> QED BY InitTypeOK, StepTypeOK, PTL DEF Spec

-----------------------------------------------------------------------------
(* The relay count goes down at every hop.                                 *)

\* No packet on its way to a badge carries more.
Cap(b, c) == IF c = b THEN relay_amount[b] - 1 ELSE relay_amount[b]

\* If b alone writes, b alone sends with the user's count, and every packet on
\* its way to another badge carries at most that count, to b itself less.
EchoInv(b) ==
  /\ \A c \in Badges : app[c] = "sending" => c \in Writers
  /\ Writers = {b} =>
       \A c \in Badges : /\ msg_relay_remaining[c] <= relay_amount[b]
                         /\ \A k \in 1..Len(inbox[c]) : inbox[c][k].relay <= Cap(b, c)

(* A packet that respects the caps keeps them when it is added.            *)
LEMMA CapKept ==
  ASSUME TypeOK, NEW b \in Badges, NEW c \in Badges, NEW pkt \in Packet, pkt.relay <= Cap(b, c),
         \A k \in 1..Len(inbox[c]) : inbox[c][k].relay <= Cap(b, c),
         inbox'[c] = inbox[c] \/ inbox'[c] = Append(inbox[c], pkt)
  PROVE  \A k \in 1..Len(inbox'[c]) : inbox'[c][k].relay <= Cap(b, c)
<1>1. inbox[c] \in Seq(Packet) BY DEF TypeOK
<1> HIDE DEF Cap
<1>2. CASE inbox'[c] = inbox[c] BY <1>2
<1>3. CASE inbox'[c] = Append(inbox[c], pkt)
  <2>1. Len(inbox'[c]) = Len(inbox[c]) + 1 /\ Len(inbox[c]) \in Nat BY <1>1, <1>3
  <2>2. \A k \in 1..Len(inbox[c]) : inbox'[c][k] = inbox[c][k] BY <1>1, <1>3
  <2>3. inbox'[c][Len(inbox[c]) + 1] = pkt BY <1>1, <1>3
  <2> QED BY <2>1, <2>2, <2>3
<1> QED BY <1>2, <1>3

LEMMA StepEchoInv ==
  ASSUME TypeOK, NEW b \in Badges, EchoInv(b), [Next]_vars
  PROVE  EchoInv(b)'
<1>1. relay_amount[b] \in Nat /\ \A c \in Badges : Cap(b, c) <= relay_amount[b]
  BY RelayAssumption DEF Cap
<1>2. ASSUME NEW d \in Badges, User(d) PROVE EchoInv(b)'
  <2>1. inbox' = inbox BY <1>2 DEF User, OpenApp, CloseApp, msg_begin_send, clear_msg_cb
  <2>2. \A c \in Badges : app'[c] = "sending" => c \in Writers
    BY <1>2 DEF User, OpenApp, CloseApp, msg_begin_send, clear_msg_cb, EchoInv, TypeOK
  <2>3. \A c \in Badges : msg_relay_remaining'[c] \in {0, msg_relay_remaining[c]}
    BY <1>2 DEF User, OpenApp, CloseApp, msg_begin_send, clear_msg_cb, textVars, TypeOK
  <2> HIDE DEF Cap
  <2> QED BY <1>1, <2>1, <2>2, <2>3 DEF EchoInv
<1>3. ASSUME NEW d \in Badges, AppPacket(d) PROVE EchoInv(b)'
  <2>1. /\ inbox'[d] = inbox[d]
        /\ \/ inbox' = inbox
           \/ \E pkt \in Packet :
                /\ pkt.relay = relay_amount[d]
                /\ \A c \in Badges : inbox'[c] = inbox[c] \/ inbox'[c] = Append(inbox[c], pkt)
    BY <1>3, AppPacketStep
  <2>2. d \in Writers BY <1>3 DEF AppPacket, EchoInv
  <2>3. msg_relay_remaining' = msg_relay_remaining BY <1>3 DEF AppPacket, textVars
  <2>4. \A c \in Badges : app'[c] = "sending" => c \in Writers BY <1>3 DEF AppPacket, EchoInv, TypeOK
  <2>5. ASSUME Writers = {b}, NEW c \in Badges
        PROVE  \A k \in 1..Len(inbox'[c]) : inbox'[c][k].relay <= Cap(b, c)
    <3>1. d = b BY <2>2, <2>5
    <3>2. \A k \in 1..Len(inbox[c]) : inbox[c][k].relay <= Cap(b, c) BY <2>5 DEF EchoInv
    <3>3. CASE c = b \/ inbox' = inbox BY <2>1, <3>1, <3>2, <3>3
    <3>4. CASE c # b /\ inbox' # inbox
      <4>1. Cap(b, c) = relay_amount[b] BY <3>4 DEF Cap
      <4>2. PICK pkt \in Packet : /\ pkt.relay = relay_amount[b]
                                  /\ inbox'[c] = inbox[c] \/ inbox'[c] = Append(inbox[c], pkt)
        BY <2>1, <3>1, <3>4
      <4> QED BY <1>1, <3>2, <4>1, <4>2, CapKept
    <3> QED BY <3>3, <3>4
  <2> QED BY <2>3, <2>4, <2>5 DEF EchoInv
<1>4. ASSUME NEW d \in Badges, RelayPacket(d) PROVE EchoInv(b)'
  <2>1. /\ msg_relay_remaining[d] \in Nat
        /\ \/ inbox' = inbox
           \/ \E pkt \in Packet :
                /\ pkt.relay = msg_relay_remaining[d] - 1
                /\ \A c \in Badges : inbox'[c] = inbox[c] \/ inbox'[c] = Append(inbox[c], pkt)
    BY <1>4, RelayPacketStep
  <2>2. app' = app BY <1>4 DEF RelayPacket
  <2>3. \A c \in Badges : msg_relay_remaining'[c] <= msg_relay_remaining[c] /\ msg_relay_remaining[c] \in Nat
                          /\ msg_relay_remaining'[c] \in Int
    BY <1>4 DEF RelayPacket, TypeOK
  <2>4. ASSUME Writers = {b}, NEW c \in Badges
        PROVE  \A k \in 1..Len(inbox'[c]) : inbox'[c][k].relay <= Cap(b, c)
    <3>1. \A k \in 1..Len(inbox[c]) : inbox[c][k].relay <= Cap(b, c) BY <2>4 DEF EchoInv
    <3>2. CASE inbox' = inbox BY <3>1, <3>2
    <3>3. CASE inbox' # inbox
      <4>1. PICK pkt \in Packet : /\ pkt.relay = msg_relay_remaining[d] - 1
                                  /\ inbox'[c] = inbox[c] \/ inbox'[c] = Append(inbox[c], pkt)
        BY <2>1, <3>3
      <4>2. msg_relay_remaining[d] <= relay_amount[b] BY <2>4 DEF EchoInv
      <4>3. pkt.relay <= Cap(b, c) BY <1>1, <2>1, <4>1, <4>2 DEF Cap
      <4> QED BY <3>1, <4>1, <4>3, CapKept
    <3> QED BY <3>2, <3>3
  <2>5. ASSUME Writers = {b}, NEW c \in Badges
        PROVE  msg_relay_remaining'[c] <= relay_amount[b]
    <3>1. msg_relay_remaining[c] <= relay_amount[b] BY <2>5 DEF EchoInv
    <3> QED BY <1>1, <2>3, <3>1
  <2> QED BY <2>2, <2>4, <2>5 DEF EchoInv
<1>5. ASSUME NEW d \in Badges, ir_livetext(d) PROVE EchoInv(b)'
  <2>1. /\ Head(inbox[d]) \in Packet
        /\ inbox'[d] = Tail(inbox[d]) /\ \A c \in Badges \ {d} : inbox'[c] = inbox[c]
    BY <1>5, ReceiveTypeOK
  <2>2. app' = app /\ inbox[d] # <<>> /\ inbox[d] \in Seq(Packet) BY <1>5 DEF ir_livetext, TypeOK
  <2>3. \A c \in Badges : \/ msg_relay_remaining'[c] = msg_relay_remaining[c]
                          \/ c = d /\ msg_relay_remaining'[c] = Head(inbox[d]).relay
    BY <1>5 DEF ir_livetext, textVars, TypeOK
  <2>4. ASSUME Writers = {b}, NEW c \in Badges
        PROVE  /\ msg_relay_remaining'[c] <= relay_amount[b]
               /\ \A k \in 1..Len(inbox'[c]) : inbox'[c][k].relay <= Cap(b, c)
    <3>1. /\ msg_relay_remaining[c] <= relay_amount[b]
          /\ \A k \in 1..Len(inbox[c]) : inbox[c][k].relay <= Cap(b, c)
      BY <2>4 DEF EchoInv
    <3>2. CASE c # d BY <2>1, <2>3, <3>1, <3>2
    <3>3. CASE c = d
      <4>1. Head(inbox[d]) = inbox[d][1] /\ 1 \in 1..Len(inbox[d]) BY <2>2
      <4>2. Head(inbox[d]).relay <= Cap(b, c) BY <3>1, <3>3, <4>1
      <4>3. Head(inbox[d]).relay \in Nat BY <2>1 DEF Packet
      <4>4. msg_relay_remaining'[c] <= relay_amount[b]
        BY <1>1, <2>3, <3>1, <4>2, <4>3, RelayAssumption DEF Cap
      <4>5. \A k \in 1..Len(Tail(inbox[d])) : Tail(inbox[d])[k] = inbox[d][k + 1] /\ k + 1 \in 1..Len(inbox[d])
        BY <2>2
      <4> QED BY <2>1, <3>1, <3>3, <4>4, <4>5
    <3> QED BY <3>2, <3>3
  <2> QED BY <2>2, <2>4 DEF EchoInv
<1>6. ASSUME NEW d \in Badges, RelayStart(d) PROVE EchoInv(b)' BY <1>6 DEF RelayStart, EchoInv
<1>7. CASE UNCHANGED vars BY <1>7 DEF vars, textVars, EchoInv
<1> QED BY <1>2, <1>3, <1>4, <1>5, <1>6, <1>7 DEF Next, RelayStep

(* A badge whose user alone wrote hears its message only with a smaller    *)
(* count than it sent, whatever is lost and however the relays interleave  *)
(* (menu.c:1078, ir.c:288).                                                *)
THEOREM EchoesAreLower == Spec => []EchoIsLower
<1> DEFINE Inv == \A b \in Badges : EchoInv(b)
<1>1. Init => Inv
  <2> SUFFICES ASSUME Init, NEW b \in Badges PROVE EchoInv(b) OBVIOUS
  <2>1. \A c \in Badges : app[c] = "menus" /\ msg_relay_remaining[c] = 0 /\ inbox[c] = <<>> BY DEF Init
  <2>2. relay_amount[b] \in Nat BY RelayAssumption
  <2> QED BY <2>1, <2>2 DEF EchoInv
<1>2. TypeOK /\ Inv /\ [Next]_vars => Inv' BY StepEchoInv
<1>3. TypeOK /\ Inv => EchoIsLower
  <2> SUFFICES ASSUME TypeOK, Inv, NEW b \in Badges, Writers = {b}, NEW k \in 1..Len(inbox[b])
               PROVE  inbox[b][k].relay < relay_amount[b]
    BY DEF EchoIsLower
  <2>1. inbox[b][k].relay <= Cap(b, b) BY DEF EchoInv
  <2>2. inbox[b][k] \in Packet BY DEF TypeOK
  <2>3. inbox[b][k].relay \in Nat /\ relay_amount[b] \in Nat BY <2>2, RelayAssumption DEF Packet
  <2> QED BY <2>1, <2>3 DEF Cap
<1> HIDE DEF Inv
<1> QED BY <1>1, <1>2, <1>3, RelayTypeCorrect, PTL DEF Spec

-----------------------------------------------------------------------------
(* A message that is being relayed.                                        *)

(* Only the user stops a relay, and packets that are heard meanwhile do    *)
(* not touch it (ir.c:288, menu.c:1069-1083).                              *)
THEOREM RelayIsUndisturbed == Spec => RelayUndisturbed
<1>1. TypeOK /\ [Next]_vars =>
        [\A b \in Badges : Relaying(b) /\ ~msg_begin_send(b) /\ ~clear_msg_cb(b)
           => /\ incoming_message'[b] = incoming_message[b]
              /\ new_message'[b] # 0
              /\ msg_relay_remaining'[b] \in {msg_relay_remaining[b], msg_relay_remaining[b] - 1}]_vars
  <2> SUFFICES ASSUME TypeOK, Next, NEW b \in Badges, Relaying(b),
                      ~msg_begin_send(b), ~clear_msg_cb(b)
               PROVE  /\ incoming_message'[b] = incoming_message[b]
                      /\ new_message'[b] # 0
                      /\ msg_relay_remaining'[b] \in {msg_relay_remaining[b], msg_relay_remaining[b] - 1}
    BY DEF vars
  <2>1. new_message[b] # 0 BY DEF Relaying
  <2>2. PICK d \in Badges : User(d) \/ AppPacket(d) \/ RelayStep(d) \/ ir_livetext(d) BY DEF Next
  <2>3. CASE OpenApp(d) \/ CloseApp(d) \/ AppPacket(d)
    BY <2>1, <2>3 DEF OpenApp, CloseApp, AppPacket, textVars
  <2>4. CASE msg_begin_send(d) BY <2>1, <2>4 DEF msg_begin_send, TypeOK
  <2>5. CASE clear_msg_cb(d) BY <2>1, <2>5 DEF clear_msg_cb, TypeOK
  <2>6. CASE RelayStart(d) BY <2>1, <2>6 DEF RelayStart, TypeOK
  <2>7. CASE RelayPacket(d) BY <2>1, <2>7 DEF RelayPacket, TypeOK
  <2>8. CASE ir_livetext(d)
    <3>1. CASE Deaf(d) BY <2>1, <2>8, <3>1 DEF ir_livetext, textVars
    <3>2. CASE ~Deaf(d)
      <4>1. d # b BY <3>2 DEF Deaf
      <4> QED BY <2>1, <2>8, <3>2, <4>1 DEF ir_livetext, TypeOK
    <3> QED BY <3>1, <3>2
  <2> QED BY <2>2, <2>3, <2>4, <2>5, <2>6, <2>7, <2>8 DEF User, RelayStep
<1> QED BY <1>1, RelayTypeCorrect, PTL DEF Spec, RelayUndisturbed

-----------------------------------------------------------------------------
(* The position that messenger and relay share.                            *)

\* The position is at the first character of a packet, packets have two
\* characters of the text, and a complete message has a terminator.
TextInv ==
  /\ RelayInText
  /\ \A b \in Badges : i[b] % 2 = 0
  /\ \A b \in Badges : new_message[b] # 0 => AmidText(incoming_message[b], 0)
  /\ \A b \in Badges : \A k \in 1..Len(inbox[b]) : inbox[b][k].idx + 1 \in Pos

(* The next position: the first character of a packet again, and in a text *)
(* that has its terminator ahead it is ahead of the next one, too, unless  *)
(* this packet was the last.                                               *)
LEMMA NextPosition ==
  ASSUME TypeOK, NEW b \in Badges, NEW text \in Text, NEW cnt \in Nat, NEW done \in BOOLEAN,
         i[b] % 2 = 0, msg_send_msg(b, text, cnt, done)
  PROVE  /\ i'[b] % 2 = 0
         /\ \A c \in Badges \ {b} : i'[c] = i[c]
         /\ done => i'[b] = 0
         /\ AmidText(text, i[b]) /\ ~done => AmidText(text, i'[b])
<1>1. /\ i[b] \in 0..(IndexRange - 1) /\ IndexRange \in Nat /\ IndexRange % 2 = 0
      /\ MAX_MSG_LENGTH \in Nat /\ MAX_MSG_LENGTH % 2 = 0 /\ IndexRange >= MAX_MSG_LENGTH
  BY TextAssumption DEF TypeOK
<1>2. i' = [i EXCEPT ![b] = IF done THEN 0 ELSE (@ + 2) % IndexRange] BY DEF msg_send_msg
<1>3. /\ i'[b] = IF done THEN 0 ELSE (i[b] + 2) % IndexRange
      /\ \A c \in Badges \ {b} : i'[c] = i[c]
  BY <1>2 DEF TypeOK
<1>4. i[b] + 2 < IndexRange \/ i[b] + 2 = IndexRange BY <1>1
<1>5. (i[b] + 2) % IndexRange = IF i[b] + 2 < IndexRange THEN i[b] + 2 ELSE 0 BY <1>1, <1>4
<1>6. i'[b] % 2 = 0 BY <1>1, <1>3, <1>5
<1>7. ASSUME AmidText(text, i[b]), ~done PROVE AmidText(text, i'[b])
  <2>1. PICK n \in Pos : i[b] <= n /\ text[n] = MSG_NULL_TERM BY <1>7 DEF AmidText
  <2>2. i[b] < MAX_MSG_LENGTH - 1 /\ i[b] \in Pos /\ i[b] + 1 \in Pos BY <1>1, <2>1 DEF Pos
  <2>3. text[i[b]] # MSG_NULL_TERM /\ text[i[b] + 1] # MSG_NULL_TERM
    BY <1>7, <2>2 DEF msg_send_msg, AtEnd
  <2>4. i[b] + 2 <= n /\ n < MAX_MSG_LENGTH BY <1>1, <2>1, <2>3 DEF Pos
  <2>5. i'[b] = i[b] + 2 BY <1>1, <1>3, <1>5, <1>7, <2>4 DEF Pos
  <2>6. \A k \in Pos : k < i[b] + 2 => k < i[b] \/ k = i[b] \/ k = i[b] + 1 BY <1>1 DEF Pos
  <2> QED BY <1>7, <2>1, <2>3, <2>4, <2>5, <2>6 DEF AmidText
<1> QED BY <1>3, <1>6, <1>7

(* A packet with a terminator leaves one in the text.                      *)
LEMMA TerminatorArrives ==
  ASSUME NEW text \in Text, NEW p \in Packet, Terminates(p),
         p.idx + 1 \in Pos
  PROVE  AmidText(WithPacket(text, p), 0)
<1>1. p.idx \in Pos /\ NullIdx(p) \in Pos BY DEF Packet, NullIdx
<1>2. \A k \in Pos : ~(k < 0) /\ 0 <= k BY DEF Pos
<1>3. WithPacket(text, p)[NullIdx(p)] = MSG_NULL_TERM
  <2>1. CASE NullIdx(p) > 0 BY <1>1, <2>1 DEF WithPacket, Pos
  <2>2. CASE ~(NullIdx(p) > 0)
    <3>1. NullIdx(p) = p.idx /\ p.ch = MSG_NULL_TERM
      BY <1>1, <2>2 DEF NullIdx, Terminates, Pos
    <3>2. p.idx \in Int BY <1>1 DEF Pos
    <3> QED BY <1>1, <2>2, <3>1, <3>2 DEF WithPacket
  <2> QED BY <2>1, <2>2
<1> QED BY <1>1, <1>2, <1>3 DEF AmidText

(* What is true of one badge, for the steps that leave the others alone.   *)
TextInvOf(b) ==
  /\ app[b] # "sending" /\ i[b] # 0 =>
       Relaying(b) /\ new_message[b] = 2 /\ AmidText(incoming_message[b], i[b])
  /\ i[b] % 2 = 0
  /\ new_message[b] # 0 => AmidText(incoming_message[b], 0)

MailInv == \A b \in Badges : \A k \in 1..Len(inbox[b]) : inbox[b][k].idx + 1 \in Pos

LEMMA TextInvIs == TextInv <=> (MailInv /\ \A b \in Badges : TextInvOf(b))
BY DEF TextInv, RelayInText, TextInvOf, MailInv

(* Packets that are added or taken out leave the others as they are.       *)
LEMMA MailKept ==
  ASSUME TypeOK, MailInv,
         \/ inbox' = inbox
         \/ \E pkt \in Packet :
              /\ pkt.idx + 1 \in Pos
              /\ \A c \in Badges : inbox'[c] = inbox[c] \/ inbox'[c] = Append(inbox[c], pkt)
         \/ \A c \in Badges : inbox'[c] = inbox[c] \/ (inbox[c] # <<>> /\ inbox'[c] = Tail(inbox[c]))
  PROVE  MailInv'
<1> SUFFICES ASSUME NEW c \in Badges, NEW k \in 1..Len(inbox'[c]) PROVE inbox'[c][k].idx + 1 \in Pos
  BY DEF MailInv
<1>1. inbox[c] \in Seq(Packet) /\ \A n \in 1..Len(inbox[c]) : inbox[c][n].idx + 1 \in Pos
  BY DEF TypeOK, MailInv
<1>2. CASE inbox'[c] = inbox[c] BY <1>1, <1>2
<1>3. CASE \E pkt \in Packet : pkt.idx + 1 \in Pos /\ inbox'[c] = Append(inbox[c], pkt)
  <2>1. PICK pkt \in Packet : pkt.idx + 1 \in Pos /\ inbox'[c] = Append(inbox[c], pkt) BY <1>3
  <2>2. k \in 1..Len(inbox[c]) \/ k = Len(inbox[c]) + 1 BY <1>1, <2>1
  <2>3. inbox'[c][k] = IF k = Len(inbox[c]) + 1 THEN pkt ELSE inbox[c][k] BY <1>1, <2>1, <2>2
  <2> QED BY <1>1, <2>1, <2>2, <2>3
<1>4. CASE inbox[c] # <<>> /\ inbox'[c] = Tail(inbox[c])
  <2>1. k + 1 \in 1..Len(inbox[c]) /\ inbox'[c][k] = inbox[c][k + 1] BY <1>1, <1>4
  <2> QED BY <1>1, <2>1
<1> QED BY <1>2, <1>3, <1>4

LEMMA UserTextInv ==
  ASSUME TypeOK, TextInv, NEW b \in Badges, User(b)
  PROVE  TextInv'
<1>1. MailInv /\ \A c \in Badges : TextInvOf(c) BY TextInvIs
<1>2. inbox' = inbox BY DEF User, OpenApp, CloseApp, msg_begin_send, clear_msg_cb
<1>3. MailInv' BY <1>1, <1>2, MailKept
<1>4. ASSUME NEW c \in Badges PROVE TextInvOf(c)'
  <2>1. TextInvOf(c) BY <1>1
  <2>2. CASE OpenApp(b) \/ CloseApp(b)
    BY <2>1, <2>2 DEF OpenApp, CloseApp, textVars, TypeOK, TextInvOf, Relaying
  <2>3. CASE msg_begin_send(b) BY <2>1, <2>3 DEF msg_begin_send, TypeOK, TextInvOf, Relaying
  <2>4. CASE clear_msg_cb(b)
    <3>1. CASE c = b
      <4>1. i'[c] = 0 /\ new_message'[c] = 0 BY <2>4, <3>1 DEF clear_msg_cb, TypeOK
      <4>2. 0 % 2 = 0 OBVIOUS
      <4> QED BY <4>1, <4>2 DEF TextInvOf
    <3>2. CASE c # b BY <2>1, <2>4, <3>2 DEF clear_msg_cb, TypeOK, TextInvOf, Relaying
    <3> QED BY <3>1, <3>2
  <2> QED BY <2>2, <2>3, <2>4 DEF User
<1> QED BY <1>3, <1>4, TextInvIs DEF TextInv, RelayInText, TextInvOf, MailInv

(* A packet of the messenger leaves every position where it may be: after  *)
(* the last one the relay finds it at the beginning.                       *)
LEMMA AppPacketTextInv ==
  ASSUME TypeOK, TextInv, NEW b \in Badges, AppPacket(b)
  PROVE  TextInv'
<1>1. MailInv /\ \A c \in Badges : TextInvOf(c) BY TextInvIs
<1>2. MailInv' BY <1>1, AppPacketStep, MailKept
<1>3. PICK done \in BOOLEAN : /\ msg_send_msg(b, outgoing_message[b], relay_amount[b], done)
                              /\ app' = [app EXCEPT ![b] = IF done THEN "app" ELSE @]
  BY DEF AppPacket
<1>4. outgoing_message[b] \in Text /\ relay_amount[b] \in Nat BY TextAssumption, RelayAssumption
<1>5. /\ i'[b] % 2 = 0
      /\ \A c \in Badges \ {b} : i'[c] = i[c]
      /\ done => i'[b] = 0
  BY <1>1, <1>3, <1>4, NextPosition DEF TextInvOf
<1>6. UNCHANGED textVars /\ app[b] = "sending" BY DEF AppPacket
<1>7. ASSUME NEW c \in Badges PROVE TextInvOf(c)'
  <2>1. TextInvOf(c) BY <1>1
  <2>2. CASE c = b BY <1>3, <1>5, <1>6, <2>1, <2>2 DEF TextInvOf, TypeOK, textVars
  <2>3. CASE c # b BY <1>3, <1>5, <1>6, <2>1, <2>3 DEF TextInvOf, TypeOK, textVars, Relaying
  <2> QED BY <2>2, <2>3
<1> QED BY <1>2, <1>7 DEF TextInv, RelayInText, TextInvOf, MailInv

(* A packet of the relay goes on in the text or, with the terminator, back *)
(* to its beginning.                                                       *)
LEMMA RelayPacketTextInv ==
  ASSUME TypeOK, TextInv, NEW b \in Badges, RelayPacket(b)
  PROVE  TextInv'
<1>1. MailInv /\ \A c \in Badges : TextInvOf(c) BY TextInvIs
<1>2. MailInv' BY <1>1, RelayPacketStep, MailKept
<1>3. PICK done \in BOOLEAN :
        /\ msg_send_msg(b, incoming_message[b], RelayCount(b), done)
        /\ msg_relay_remaining' = [msg_relay_remaining EXCEPT ![b] = IF done THEN @ - 1 ELSE @]
  BY DEF RelayPacket
<1>4. incoming_message[b] \in Text /\ RelayCount(b) \in Nat
  BY RelayPacketStep DEF TypeOK, RelayCount
<1>5. /\ app[b] = "menus" /\ Relaying(b) /\ new_message[b] = 2
      /\ UNCHANGED <<app, incoming_message, new_message>>
  BY DEF RelayPacket
<1>6. AmidText(incoming_message[b], i[b]) BY <1>1, <1>5 DEF TextInvOf
<1>7. /\ i'[b] % 2 = 0
      /\ \A c \in Badges \ {b} : i'[c] = i[c]
      /\ done => i'[b] = 0
      /\ ~done => AmidText(incoming_message[b], i'[b])
  BY <1>1, <1>3, <1>4, <1>6, NextPosition DEF TextInvOf
<1>8. ASSUME NEW c \in Badges PROVE TextInvOf(c)'
  <2>1. TextInvOf(c) BY <1>1
  <2>2. CASE c = b
    <3>1. ~done => msg_relay_remaining'[b] = msg_relay_remaining[b] BY <1>3 DEF TypeOK
    <3> QED BY <1>5, <1>7, <2>1, <2>2, <3>1 DEF TextInvOf, Relaying, AmidText
  <2>3. CASE c # b
    <3>1. msg_relay_remaining'[c] = msg_relay_remaining[c] BY <1>3, <2>3 DEF TypeOK
    <3> QED BY <1>5, <1>7, <2>1, <2>3, <3>1 DEF TextInvOf, Relaying, AmidText
  <2> QED BY <2>2, <2>3
<1> QED BY <1>2, <1>8 DEF TextInv, RelayInText, TextInvOf, MailInv

LEMMA RelayStartTextInv ==
  ASSUME TypeOK, TextInv, NEW b \in Badges, RelayStart(b)
  PROVE  TextInv'
<1>1. \A c \in Badges : TextInvOf(c) BY TextInvIs
<1>2. ASSUME NEW c \in Badges PROVE TextInvOf(c)'
  BY <1>1 DEF TextInvOf, RelayStart, TypeOK, Relaying, AmidText
<1>3. MailInv' BY TextInvIs DEF MailInv, RelayStart
<1> QED BY <1>2, <1>3 DEF TextInv, RelayInText, TextInvOf, MailInv

(* A packet that is heard meets a position in a text only where a relay is *)
(* deaf to it; a message that it completes has its terminator.             *)
LEMMA ReceiveTextInv ==
  ASSUME TypeOK, TextInv, NEW b \in Badges, ir_livetext(b)
  PROVE  TextInv'
<1> DEFINE p == Head(inbox[b])
<1>1. MailInv /\ \A c \in Badges : TextInvOf(c) BY TextInvIs
<1>2. inbox[b] # <<>> /\ inbox[b] \in Seq(Packet) BY DEF ir_livetext, TypeOK
<1>3. MailInv'
  <2>1. inbox'[b] = Tail(inbox[b]) /\ \A c \in Badges \ {b} : inbox'[c] = inbox[c] BY ReceiveTypeOK
  <2>2. \A c \in Badges : inbox'[c] = inbox[c] \/ (inbox[c] # <<>> /\ inbox'[c] = Tail(inbox[c]))
    BY <1>2, <2>1
  <2> QED BY <1>1, <2>2, MailKept
<1>4. p \in Packet /\ p.idx + 1 \in Pos
  <2>1. p = inbox[b][1] /\ 1 \in 1..Len(inbox[b]) BY <1>2
  <2> QED BY <1>1, <2>1, ReceiveTypeOK DEF MailInv
<1>5. UNCHANGED <<app, i>> BY DEF ir_livetext
<1>6. CASE Deaf(b)
  <2>1. UNCHANGED textVars BY <1>6 DEF ir_livetext
  <2> QED BY <1>1, <1>3, <1>5, <2>1 DEF TextInv, RelayInText, TextInvOf, MailInv, Relaying, textVars, AmidText
<1>7. CASE ~Deaf(b)
  <2>1. /\ new_message' = [new_message EXCEPT ![b] = IF Terminates(p) THEN 1 ELSE 0]
        /\ msg_relay_remaining' = [msg_relay_remaining EXCEPT ![b] = p.relay]
        /\ incoming_message' = [incoming_message EXCEPT ![b] = WithPacket(@, p)]
    BY <1>7 DEF ir_livetext
  <2>2. incoming_message[b] \in Text BY DEF TypeOK
  <2>3. Terminates(p) => AmidText(WithPacket(incoming_message[b], p), 0)
    BY <1>4, <2>2, TerminatorArrives
  <2> HIDE DEF p
  <2>4. ASSUME NEW c \in Badges PROVE TextInvOf(c)'
    <3>1. TextInvOf(c) BY <1>1
    <3>2. CASE c = b
      <4>1. ~(app[b] # "sending" /\ i[b] # 0) BY <1>7, <3>1, <3>2 DEF TextInvOf, Deaf
      <4>2. new_message'[b] # 0 => AmidText(incoming_message'[b], 0) BY <2>1, <2>3 DEF TypeOK
      <4> QED BY <1>5, <3>1, <3>2, <4>1, <4>2 DEF TextInvOf, AmidText
    <3>3. CASE c # b
      <4>1. /\ new_message'[c] = new_message[c] /\ msg_relay_remaining'[c] = msg_relay_remaining[c]
            /\ incoming_message'[c] = incoming_message[c]
        BY <2>1, <3>3 DEF TypeOK
      <4> QED BY <1>5, <3>1, <4>1 DEF TextInvOf, Relaying, AmidText
    <3> QED BY <3>2, <3>3
  <2> QED BY <1>3, <2>4 DEF TextInv, RelayInText, TextInvOf, MailInv
<1> QED BY <1>6, <1>7

LEMMA TextInvInit == Init => TextInv
<1> SUFFICES ASSUME Init PROVE TextInv OBVIOUS
<1>1. 0 % 2 = 0 OBVIOUS
<1>2. \A b \in Badges : i[b] = 0 /\ new_message[b] = 0 /\ inbox[b] = <<>> BY DEF Init
<1> QED BY <1>1, <1>2 DEF TextInv, RelayInText

LEMMA StepTextInv == TypeOK /\ TextInv /\ [Next]_vars => TextInv'
<1> SUFFICES ASSUME TypeOK, TextInv, [Next]_vars PROVE TextInv' OBVIOUS
<1>1. ASSUME NEW b \in Badges, User(b) PROVE TextInv' BY <1>1, UserTextInv
<1>2. ASSUME NEW b \in Badges, AppPacket(b) PROVE TextInv' BY <1>2, AppPacketTextInv
<1>3. ASSUME NEW b \in Badges, RelayStep(b) PROVE TextInv'
  BY <1>3, RelayStartTextInv, RelayPacketTextInv DEF RelayStep
<1>4. ASSUME NEW b \in Badges, ir_livetext(b) PROVE TextInv' BY <1>4, ReceiveTextInv
<1>5. CASE UNCHANGED vars
  BY <1>5 DEF vars, textVars, TextInv, RelayInText, Relaying, AmidText
<1> QED BY <1>1, <1>2, <1>3, <1>4, <1>5 DEF Next

(* Unless the messenger is writing, the shared position is at a beginning  *)
(* or where a relay has come to in its text, the terminator ahead: neither *)
(* a message broken off by the user nor one heard meanwhile makes a relay  *)
(* begin in the middle, run past its terminator or past the array          *)
(* (messenger.c:81, 131; menu.c:1069-1083).                                *)
THEOREM RelayKeepsToText == Spec => []RelayInText
<1>1. TextInv => RelayInText BY DEF TextInv
<1> QED BY <1>1, TextInvInit, StepTextInv, RelayTypeCorrect, PTL DEF Spec

-----------------------------------------------------------------------------
(* Where a send runs past its text.                                        *)

\* What msg_begin_send leaves out: "Stop any relaying of a recieved message
\* that may be occuring" (messenger.c:85).
BegunAtStart == \A b \in Badges : msg_begin_send(b) => i[b] = 0

\* A message that is being written is at the end of its text or before it.
SendInv == \A b \in Badges : app[b] = "sending" => AmidText(outgoing_message[b], i[b])

LEMMA SendStep ==
  ASSUME \A b \in Badges : AmidText(outgoing_message[b], 0), TypeOK, TextInv, SendInv,
         Next, BegunAtStart
  PROVE  SendInv'
<1>1. PICK d \in Badges : User(d) \/ AppPacket(d) \/ RelayStep(d) \/ ir_livetext(d) BY DEF Next
<1>2. \A b \in Badges : i[b] % 2 = 0 BY DEF TextInv
<1> SUFFICES ASSUME NEW b \in Badges, app'[b] = "sending" PROVE AmidText(outgoing_message[b], i'[b])
  BY DEF SendInv, AmidText
<1>3. app[b] = "sending" => AmidText(outgoing_message[b], i[b]) BY DEF SendInv
<1>4. CASE OpenApp(d) \/ CloseApp(d) \/ RelayStart(d) \/ ir_livetext(d)
  BY <1>3, <1>4 DEF OpenApp, CloseApp, RelayStart, ir_livetext, TypeOK
<1>5. CASE msg_begin_send(d)
  <2>1. i' = i /\ (b = d \/ app[b] = "sending") BY <1>5 DEF msg_begin_send, TypeOK
  <2> QED BY <1>3, <1>5, <2>1 DEF BegunAtStart
<1>6. CASE clear_msg_cb(d)
  <2>1. b # d /\ app[b] = "sending" /\ i'[b] = i[b] BY <1>6 DEF clear_msg_cb, TypeOK
  <2> QED BY <1>3, <2>1
<1>7. CASE AppPacket(d)
  <2>1. PICK done \in BOOLEAN : /\ msg_send_msg(d, outgoing_message[d], relay_amount[d], done)
                                /\ app' = [app EXCEPT ![d] = IF done THEN "app" ELSE @]
    BY <1>7 DEF AppPacket
  <2>2. outgoing_message[d] \in Text /\ relay_amount[d] \in Nat BY TextAssumption, RelayAssumption
  <2>3. /\ \A c \in Badges \ {d} : i'[c] = i[c]
        /\ AmidText(outgoing_message[d], i[d]) /\ ~done => AmidText(outgoing_message[d], i'[d])
    BY <1>2, <2>1, <2>2, NextPosition
  <2>4. app[b] = "sending" /\ (b = d => ~done) BY <1>7, <2>1 DEF AppPacket, TypeOK
  <2> QED BY <1>3, <2>3, <2>4
<1>8. CASE RelayPacket(d)
  <2>1. PICK done \in BOOLEAN : msg_send_msg(d, incoming_message[d], RelayCount(d), done)
    BY <1>8 DEF RelayPacket
  <2>2. i' = [i EXCEPT ![d] = IF done THEN 0 ELSE (@ + 2) % IndexRange] BY <2>1 DEF msg_send_msg
  <2>3. app' = app /\ app[d] = "menus" BY <1>8 DEF RelayPacket
  <2>4. b # d /\ app[b] = "sending" /\ i'[b] = i[b] BY <2>2, <2>3 DEF TypeOK
  <2> QED BY <1>3, <2>4
<1> QED BY <1>1, <1>4, <1>5, <1>6, <1>7, <1>8 DEF User, RelayStep

(* The position that msg_begin_send does not reset is the only way in      *)
(* which a send runs past its terminator, or past the array: if all texts  *)
(* have a terminator and no send begins while a relay is half way through, *)
(* every send ends with it (messenger.c:85, 131).                          *)
THEOREM SendsFromTheStartEnd ==
  ASSUME \A b \in Badges : AmidText(outgoing_message[b], 0)
  PROVE  Spec /\ [][BegunAtStart]_vars
           => [](NothingAfterNull /\ \A b \in Badges : app[b] = "sending" => i[b] \in Pos)
<1> DEFINE Sending == NothingAfterNull /\ \A b \in Badges : app[b] = "sending" => i[b] \in Pos
<1>1. Init => SendInv BY DEF Init, SendInv
<1>2. TypeOK /\ TextInv /\ SendInv /\ [Next]_vars /\ [BegunAtStart]_vars => SendInv'
  <2>1. CASE Next /\ BegunAtStart BY <2>1, SendStep
  <2>2. CASE UNCHANGED vars BY <2>2 DEF vars, SendInv, AmidText
  <2> QED BY <2>1, <2>2
<1>3. TypeOK /\ SendInv => Sending
  <2> SUFFICES ASSUME TypeOK, SendInv, NEW b \in Badges, app[b] = "sending"
               PROVE  /\ i[b] \in Pos
                      /\ \A k \in Pos : k < i[b] => outgoing_message[b][k] # MSG_NULL_TERM
    BY DEF NothingAfterNull
  <2>1. AmidText(outgoing_message[b], i[b]) BY DEF SendInv
  <2>2. i[b] \in Nat BY TextAssumption DEF TypeOK
  <2> QED BY <2>1, <2>2, TextAssumption DEF AmidText, Pos
<1>4. Spec => []TextInv
  BY TextInvInit, StepTextInv, RelayTypeCorrect, PTL DEF Spec
<1> HIDE DEF Sending
<1>5. Spec /\ [][BegunAtStart]_vars => []Sending
  BY <1>1, <1>2, <1>3, <1>4, RelayTypeCorrect, PTL DEF Spec
<1> QED BY <1>5 DEF Sending
=============================================================================
