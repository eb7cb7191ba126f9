------------------------------ MODULE MsgRelay ------------------------------
(***************************************************************************)
(* "Bweets": text messages that a badge broadcasts over infra-red two      *)
(* characters at a time and that the badges which hear them send again,    *)
(* with a smaller relay count, while they are idle.                        *)
(*                                                                         *)
(* Each badge runs one main loop: IRhandler hands it the oldest packet of  *)
(* its receive queue (a mailbox, see IrLink), then menus() runs either the *)
(* application the user opened or one step of the relay.  Both the         *)
(* messenger and the relay send through msg_send_msg, whose position in    *)
(* the text is a static variable that they share.                          *)
(*                                                                         *)
(* Abstraction.  The pauses between packets (count, MSG_PACKET_DELTA) and  *)
(* before a relay (long_relay_counter, RELAY_WAIT, badgeId * 75) only      *)
(* delay a step: it may be taken in any later pass.  Characters are        *)
(* members of Chars.  A packet may be missed by any badge.                 *)
(***************************************************************************)
EXTENDS Integers, Sequences, FiniteSets

CONSTANTS
  Badges,
  Writers,            \* badges whose user presses Send
  MAX_MSG_LENGTH,     \* an even number (64 in the code)
  IndexRange,         \* values of the position, an unsigned char
  Chars, MSG_NULL_TERM,
  BlankChar,          \* the 0 that incoming_message starts with
  outgoing_message,   \* the text each badge's user has written
  relay_amount,       \* the relay count each user has chosen
  InboxRoom,          \* packets the receive queue has room for
  MaxSends            \* bound: times Send is pressed, all badges together

Pos == 0..(MAX_MSG_LENGTH - 1)
Text == [Pos -> Chars]

ASSUME TextAssumption ==
  /\ MAX_MSG_LENGTH \in Nat \ {0} /\ MAX_MSG_LENGTH % 2 = 0
  /\ IndexRange \in Nat /\ IndexRange >= MAX_MSG_LENGTH /\ IndexRange % 2 = 0
  /\ MSG_NULL_TERM \in Chars /\ BlankChar \in Chars
  /\ outgoing_message \in [Badges -> Text]
ASSUME RelayAssumption ==
  /\ Writers \subseteq Badges
  /\ relay_amount \in [Badges -> Nat]
  /\ InboxRoom \in Nat /\ MaxSends \in Nat

VARIABLES
  app,                  \* "menus": none runs; "app"; "sending": messenger, MSG_SENDING
  i,                    \* msg_send_msg's position in the text
  incoming_message, new_message, msg_relay_remaining,
  inbox,                \* packets received and not yet handled
  presses               \* times Send was pressed, for the bound only

textVars == <<incoming_message, new_message, msg_relay_remaining>>
vars == <<app, i, textVars, inbox, presses>>

\* An IR_LIVETEXT packet: two characters, their place and the relay count.
Packet == [idx : Pos, ch : Chars, ch2 : Chars, relay : Nat]

Init ==
  /\ app = [b \in Badges |-> "menus"]
  /\ i = [b \in Badges |-> 0]
  /\ incoming_message = [b \in Badges |-> [k \in Pos |-> BlankChar]]
  /\ new_message = [b \in Badges |-> 0]
  /\ msg_relay_remaining = [b \in Badges |-> 0]
  /\ inbox = [b \in Badges |-> <<>>]
  /\ presses = 0

(***************************************************************************)
(* msg_send_msg: queue the next two characters; TRUE for the last ones.    *)
(***************************************************************************)
Broadcast(b, pkt) ==
  \E heard \in SUBSET (Badges \ {b}) :
    inbox' = [c \in Badges |-> IF c \in heard /\ Len(inbox[c]) < InboxRoom
                               THEN Append(inbox[c], pkt) ELSE inbox[c]]

AtEndSeenFirstOnly(text, k) == IF k < MAX_MSG_LENGTH - 1 THEN {text[k] = MSG_NULL_TERM}
                                                         ELSE {TRUE, FALSE}

\* Past the end of the array nothing is queued, and what is read there may or
\* may not be the terminator.
AtEnd(text, k) ==
  IF k < MAX_MSG_LENGTH - 1 THEN {text[k] = MSG_NULL_TERM \/ text[k + 1] = MSG_NULL_TERM}
                            ELSE {TRUE, FALSE}

msg_send_msg(b, text, relay_cnt, done) ==
  /\ IF i[b] < MAX_MSG_LENGTH - 1
     THEN Broadcast(b, [idx |-> i[b], ch |-> text[i[b]], ch2 |-> text[i[b] + 1],
                        relay |-> relay_cnt])
     ELSE UNCHANGED inbox
  /\ done \in AtEnd(text, i[b])
  /\ i' = [i EXCEPT ![b] = IF done THEN 0 ELSE (@ + 2) % IndexRange]

(***************************************************************************)
(* The messenger.                                                          *)
(***************************************************************************)
OpenApp(b) ==
  /\ app[b] = "menus"
  /\ app' = [app EXCEPT ![b] = "app"]
  /\ UNCHANGED <<i, textVars, inbox, presses>>

CloseApp(b) ==
  /\ app[b] = "app"
  /\ app' = [app EXCEPT ![b] = "menus"]
  /\ UNCHANGED <<i, textVars, inbox, presses>>

msg_begin_send(b) ==
  /\ b \in Writers /\ app[b] = "app" /\ presses < MaxSends
  /\ new_message' = [new_message EXCEPT ![b] = 0]
  /\ msg_relay_remaining' = [msg_relay_remaining EXCEPT ![b] = 0]
  /\ app' = [app EXCEPT ![b] = "sending"]
  /\ presses' = presses + 1
  /\ UNCHANGED <<i, incoming_message, inbox>>

AppPacket(b) ==
  /\ app[b] = "sending"
  /\ \E done \in BOOLEAN :
       /\ msg_send_msg(b, outgoing_message[b], relay_amount[b], done)
       /\ app' = [app EXCEPT ![b] = IF done THEN "app" ELSE @]
  /\ UNCHANGED <<textVars, presses>>

(***************************************************************************)
(* menus(), while no application runs, and the menu item Clear Message.    *)
(***************************************************************************)
RelayingAnyCount(b) == new_message[b] # 0
Relaying(b) == new_message[b] # 0 /\ msg_relay_remaining[b] # 0

RelayStart(b) ==
  /\ app[b] = "menus" /\ Relaying(b) /\ new_message[b] = 1
  /\ new_message' = [new_message EXCEPT ![b] = 2]
  /\ UNCHANGED <<app, i, incoming_message, msg_relay_remaining, inbox, presses>>

\* The relay count that goes with the relayed packets.
KeptCount(b) == msg_relay_remaining[b]
RelayCount(b) == msg_relay_remaining[b] - 1

RelayPacket(b) ==
  /\ app[b] = "menus" /\ Relaying(b) /\ new_message[b] = 2
  /\ \E done \in BOOLEAN :
       /\ msg_send_msg(b, incoming_message[b], RelayCount(b), done)
       /\ msg_relay_remaining' = [msg_relay_remaining EXCEPT ![b] = IF done THEN @ - 1 ELSE @]
  /\ UNCHANGED <<app, incoming_message, new_message, presses>>

clear_msg_cb(b) ==
  /\ app[b] = "menus"
  /\ incoming_message' = [incoming_message EXCEPT ![b] = [k \in Pos |-> BlankChar]]
  /\ new_message' = [new_message EXCEPT ![b] = 0]
  /\ msg_relay_remaining' = [msg_relay_remaining EXCEPT ![b] = 0]
  /\ i' = [i EXCEPT ![b] = 0]
  /\ UNCHANGED <<app, inbox, presses>>

(***************************************************************************)
(* ir_livetext, called by IRhandler with the oldest packet.                *)
(***************************************************************************)
Terminates(p) == p.ch = MSG_NULL_TERM \/ p.ch2 = MSG_NULL_TERM

\* The place of the terminator; the second character is looked at last.
NullIdx(p) == IF p.ch2 = MSG_NULL_TERM THEN p.idx + 1 ELSE p.idx

WithPacket(text, p) ==
  [k \in Pos |->
     IF Terminates(p) /\ NullIdx(p) > 0 /\ k >= NullIdx(p) THEN MSG_NULL_TERM
     ELSE CASE k = p.idx     -> p.ch
            [] k = p.idx + 1 -> p.ch2
            [] OTHER         -> text[k]]

NeverDeaf(b) == FALSE

\* Do not listen to new messages while relaying one.
Deaf(b) == Relaying(b)

ir_livetext(b) ==
  /\ inbox[b] # <<>>
  /\ inbox' = [inbox EXCEPT ![b] = Tail(@)]
  /\ LET p == Head(inbox[b]) IN
       IF Deaf(b) THEN UNCHANGED textVars
       ELSE /\ new_message' = [new_message EXCEPT ![b] = IF Terminates(p) THEN 1 ELSE 0]
            /\ msg_relay_remaining' = [msg_relay_remaining EXCEPT ![b] = p.relay]
            /\ incoming_message' = [incoming_message EXCEPT ![b] = WithPacket(@, p)]
  /\ UNCHANGED <<app, i, presses>>

RelayStep(b) == RelayStart(b) \/ RelayPacket(b)

User(b) == OpenApp(b) \/ CloseApp(b) \/ msg_begin_send(b) \/ clear_msg_cb(b)

Next == \E b \in Badges : User(b) \/ AppPacket(b) \/ RelayStep(b) \/ ir_livetext(b)

Spec == Init /\ [][Next]_vars

(***************************************************************************)
(* Fairness.  The main loop of a badge never stops: what each pass does is *)
(* done again and again.  An open application keeps menus() from relaying, *)
(* so the relay moves if there is no end to the passes without one.  The   *)
(* user promises nothing.                                                  *)
(***************************************************************************)
Fairness ==
  \A b \in Badges : /\ WF_vars(ir_livetext(b)) /\ WF_vars(AppPacket(b))
                    /\ SF_vars(RelayStep(b))

FairSpec == Spec /\ Fairness

-----------------------------------------------------------------------------
(* Properties.                                                             *)

TypeOK ==
  /\ app \in [Badges -> {"menus", "app", "sending"}]
  /\ i \in [Badges -> 0..(IndexRange - 1)]
  /\ incoming_message \in [Badges -> Text]
  /\ new_message \in [Badges -> 0..2]
  /\ msg_relay_remaining \in [Badges -> Nat]
  /\ inbox \in [Badges -> Seq(Packet)]
  /\ presses \in 0..MaxSends

(* The relay count goes down at every hop: a badge whose user alone wrote  *)
(* hears its message only with a smaller count than it sent.               *)
EchoIsLower ==
  \A b \in Badges : Writers = {b} =>
    \A k \in 1..Len(inbox[b]) : inbox[b][k].relay < relay_amount[b]

(* What is being relayed stays what was received, and is relayed to the   *)
(* end unless the user stops it: "If we are still relaying a message,     *)
(* don't listen to new messages" (ir.c:288).                              *)
RelayUndisturbed ==
  [][\A b \in Badges : Relaying(b) /\ ~msg_begin_send(b) /\ ~clear_msg_cb(b)
       => /\ incoming_message'[b] = incoming_message[b]
          /\ new_message'[b] # 0
          /\ msg_relay_remaining'[b] \in {msg_relay_remaining[b], msg_relay_remaining[b] - 1}
    ]_vars

(* A message is relayed for a while only: once the users write no more,    *)
(* the air falls silent, although the badges hear each other's relays.     *)
FloodEnds == <>[][UNCHANGED <<i, msg_relay_remaining, inbox>>]_vars

(* A relay goes through all its rounds if the badge is left alone often    *)
(* enough, whatever it hears meanwhile.                                    *)
RelayCompletes ==
  \A b \in Badges : []<>(app[b] = "menus") => (Relaying(b) ~> ~Relaying(b))

\* The terminator of the text is at position k or after it.
AmidText(text, k) ==
  /\ \E n \in Pos : k <= n /\ text[n] = MSG_NULL_TERM
  /\ \A n \in Pos : n < k => text[n] # MSG_NULL_TERM

(* A relay keeps to its text.  Messenger and relay share the position of   *)
(* msg_send_msg (messenger.c:81), and either may be left in the middle of  *)
(* a text; but unless a message is being written, a position other than    *)
(* the beginning is one that a relay has come to, and the terminator is    *)
(* still ahead of it.                                                      *)
RelayInText ==
  \A b \in Badges : app[b] # "sending" /\ i[b] # 0 =>
    Relaying(b) /\ new_message[b] = 2 /\ AmidText(incoming_message[b], i[b])

(* msg_send_msg never goes past a terminator: "If we've sent our NULL      *)
(* term, we're done" (messenger.c:131).                                    *)
NothingAfterNull ==
  \A b \in Badges : app[b] = "sending" =>
    \A k \in Pos : k < i[b] => outgoing_message[b][k] # MSG_NULL_TERM
=============================================================================
