----------------------------- MODULE Messenger -----------------------------
(***************************************************************************)
(* The messenger as an application (apps/messenger.c): its menu, the       *)
(* editor of the text and the relay amount.  What it sends is in MsgRelay; *)
(* here a message takes any number of passes.  A character is a number, an *)
(* unsigned char; the sliders are independent, several can be reported in  *)
(* one pass.                                                               *)
(***************************************************************************)
EXTENDS GenericMenu

CONSTANTS
  MAX_MSG_LENGTH,       \* 64
  LAST_CHAR,            \* the blank, the last that can be chosen (41)
  MSG_NULL_TERM,        \* 50
  CHAR_RANGE,           \* 256: an unsigned char wraps around
  max_configurable_relay_amount,    \* 15, so that a badge starts with 3
  FirstText             \* the text of a badge that is switched on

Cells == 0..(MAX_MSG_LENGTH - 1)
Chars == 0..(CHAR_RANGE - 1)

ASSUME MessengerAssumption ==
  /\ MAX_MSG_LENGTH \in Nat \ {0, 1} /\ LAST_CHAR \in Nat
  /\ MSG_NULL_TERM \in Nat /\ CHAR_RANGE \in Nat
  /\ MSG_NULL_TERM > LAST_CHAR + 1 /\ MSG_NULL_TERM + 1 < CHAR_RANGE
  /\ max_configurable_relay_amount \in Nat
  /\ FirstText \in [Cells -> 0..LAST_CHAR \cup {MSG_NULL_TERM}]
  /\ FirstText[0] # MSG_NULL_TERM

VARIABLES
  badge_messenger_state,
  outgoing_message,
  char_under_edit,
  relay_amount

textVars == <<outgoing_message, char_under_edit>>
messengerVars == <<badge_messenger_state, textVars, relay_amount>>

MessengerInit ==
  /\ badge_messenger_state = "MSG_INIT"
  /\ outgoing_message = FirstText
  /\ char_under_edit = 0
  /\ relay_amount = Min({3, max_configurable_relay_amount})

\* What the items of the menu do: the ones that are left over open a screen.
msg_quit ==
  /\ genericMenuRuns("quit")
  /\ runningApp' = NoApp /\ badge_messenger_state' = "MSG_INIT"
  /\ UNCHANGED <<textVars, relay_amount>>

msg_clear ==
  /\ genericMenuRuns("clear")
  /\ outgoing_message' = [c \in Cells |-> MSG_NULL_TERM]
  /\ char_under_edit' = 0
  /\ UNCHANGED <<runningApp, badge_messenger_state, relay_amount>>

msg_open(screen) ==
  /\ genericMenuRuns(screen)
  /\ badge_messenger_state' = screen
  /\ UNCHANGED <<runningApp, textVars, relay_amount>>

MessengerMenu ==
  \/ /\ badge_messenger_state = "MSG_INIT"
     /\ badge_messenger_state' = "MSG_SHOW_MENU"
     /\ UNCHANGED <<runningApp, menuVars, textVars, relay_amount>>
  \/ /\ badge_messenger_state = "MSG_SHOW_MENU"
     /\ \/ genericMenu("messenger_m") /\ UNCHANGED <<runningApp, messengerVars>>
        \/ msg_quit \/ msg_clear
        \/ \E screen \in {"MSG_SENDING", "MSG_CONFIG_MSG_TEXT", "MSG_CONFIG_RELAY_AMOUNT"} :
             msg_open(screen)

\* The last packet was sent.
MessengerSent ==
  /\ badge_messenger_state = "MSG_SENDING"
  /\ badge_messenger_state' = "MSG_SHOW_MENU"
  /\ UNCHANGED <<runningApp, menuVars, textVars, relay_amount>>

Left(pressed) ==
  badge_messenger_state' = IF pressed THEN "MSG_SHOW_MENU" ELSE badge_messenger_state

ConfigRelay ==
  /\ badge_messenger_state = "MSG_CONFIG_RELAY_AMOUNT"
  /\ \E pressed, top, bottom \in BOOLEAN :
       LET more == IF top /\ relay_amount < max_configurable_relay_amount
                   THEN relay_amount + 1 ELSE relay_amount
       IN  /\ relay_amount' = IF bottom /\ more > 0 THEN more - 1 ELSE more
           /\ Left(pressed)
  /\ UNCHANGED <<runningApp, menuVars, textVars>>

\* The cursor stays off the last cell, "needed for null term".
Cursor(right, left) ==
  LET moved == IF right /\ char_under_edit < MAX_MSG_LENGTH - 2
               THEN char_under_edit + 1 ELSE char_under_edit
  IN  IF left /\ moved > 0 THEN moved - 1 ELSE moved

Turned(char, top, bottom) ==
  (char + (IF top THEN 1 ELSE 0) + CHAR_RANGE - (IF bottom THEN 1 ELSE 0)) % CHAR_RANGE

\* The terminator is overwritten and not put back.
EditedOver(text, cursor) ==
  CASE text[cursor] = MSG_NULL_TERM -> [text EXCEPT ![cursor] = LAST_CHAR]
    [] text[cursor] > LAST_CHAR /\ text[cursor] # MSG_NULL_TERM -> [text EXCEPT ![cursor] = 0]
    [] OTHER -> text

\* The terminator under the cursor becomes a blank and moves on to the next
\* cell.  Whatever cannot be chosen becomes the first character: "< 0", which
\* should give the blank, is never true of an unsigned char.
Edited(text, cursor) ==
  CASE text[cursor] = MSG_NULL_TERM ->
         [text EXCEPT ![cursor] = LAST_CHAR, ![cursor + 1] = MSG_NULL_TERM]
    [] text[cursor] > LAST_CHAR /\ text[cursor] # MSG_NULL_TERM -> [text EXCEPT ![cursor] = 0]
    [] OTHER -> text

ConfigText ==
  /\ badge_messenger_state = "MSG_CONFIG_MSG_TEXT"
  /\ \E pressed, right, left, top, bottom \in BOOLEAN :
       LET cursor == Cursor(right, left) IN
       /\ Left(pressed)
       /\ char_under_edit' = cursor
       /\ outgoing_message' =
            Edited([outgoing_message EXCEPT ![cursor] = Turned(@, top, bottom)], cursor)
  /\ UNCHANGED <<runningApp, menuVars, relay_amount>>

badge_messenger_cb ==
  /\ runningApp = "messenger"
  /\ MessengerMenu \/ MessengerSent \/ ConfigRelay \/ ConfigText

MessengerStates == {"MSG_INIT", "MSG_SHOW_MENU", "MSG_SENDING", "MSG_CONFIG_RELAY_AMOUNT",
                    "MSG_CONFIG_MSG_TEXT"}
MessengerShows == IF badge_messenger_state = "MSG_SHOW_MENU" THEN "messenger_m" ELSE NoMenu
Terminated(text) == \E c \in Cells : text[c] = MSG_NULL_TERM
=============================================================================
