-------------------------------- MODULE CTF --------------------------------
(***************************************************************************)
(* The capture-the-flag game of the badge (CTF.c): ten levels, each with a *)
(* menu that leads to pages, some of which are left by the button and some *)
(* by themselves.  Three challenges are answered on the serial console,    *)
(* which is modelled in Console; here is what the pages do to it.          *)
(***************************************************************************)
EXTENDS GenericMenu

CONSTANT ctf_lightme_message       \* what the LED blinks (1,0,1,0,1,0,1,0)

ASSUME LightAssumption == ctf_lightme_message \in Seq({0, 1}) /\ ctf_lightme_message # <<>>

VARIABLES
  ctf_state,               \* the page
  ctf_menu_state,          \* the level
  ctf_lightme_index,
  sw_ctf_test,             \* the stopwatch: 1 while it runs, whatever its 10ths
  g_ctf_server_enable,
  g_ctf_serial_state,
  \* History, for the properties only:
  granted,                 \* the console accepted an answer since it was started
  followed                 \* blinks answered since the light was started

serverVars == <<g_ctf_server_enable, g_ctf_serial_state, granted>>
lightVars == <<ctf_lightme_index, sw_ctf_test, followed>>
ctfVars == <<ctf_state, ctf_menu_state, lightVars, serverVars>>

CtfInit ==
  /\ ctf_state = "CTF_INIT" /\ ctf_menu_state = 1
  /\ ctf_lightme_index = 0 /\ sw_ctf_test = 0
  /\ g_ctf_server_enable = FALSE /\ g_ctf_serial_state = "LOGIN"
  /\ granted = FALSE /\ followed = 0

(***************************************************************************)
(* The pages.                                                              *)
(***************************************************************************)
\* Pages that a pass draws and leaves.
DrawnThen ==
  [CTF_INIT |-> "MENU",
   HELLO_WORLD |-> "RETURN_TO_MENU",
   MYSTORY |-> "MYSTORY_BP", MYSTORY2 |-> "MYSTORY2_BP", MYSTORY3 |-> "MYSTORY3_BP",
   MYSTORY4 |-> "MYSTORY4_BP", MYSTORY5 |-> "MYSTORY5_BP", MYSTORY6 |-> "MYSTORY6_BP",
   MYSTORY6_BP |-> "RETURN_TO_MENU",
   GROUNDED |-> "GROUNDED_BP",
   GROUNDED_PASS |-> "RETURN_TO_MENU", GROUNDED_FAIL |-> "RETURN_TO_MENU",
   LIGHT_ME |-> "LIGHT_ME_BP",
   LIGHT_ME_PASS |-> "RETURN_TO_MENU", LIGHT_ME_FAIL |-> "RETURN_TO_MENU",
   SERIALKILLER |-> "SERIALKILLER_BP", SERIALKILLER2 |-> "SERIALKILLER2_BP",
   EYECOLOR |-> "EYECOLOR_BP", EYECOLOR2 |-> "EYECOLOR2_BP", EYECOLOR3 |-> "EYECOLOR3_BP",
   EYECOLOR_DIGIT1 |-> "EYECOLOR_DIGIT1_BP", EYECOLOR_DIGIT2 |-> "EYECOLOR_DIGIT2_BP",
   EYECOLOR_DIGIT3 |-> "EYECOLOR_DIGIT3_BP",
   EYECOLOR_SERIAL |-> "EYECOLOR_SERIAL_BP", EYECOLOR_SERIAL2 |-> "EYECOLOR_SERIAL2_BP",
   BITBANGING |-> "BITBANGING_BP", BITBANGING2 |-> "BITBANGING2_BP",
   BITBANGING_TEST |-> "BITBANGING_TEST_BP", BITBANGING_CHALLENGE |-> "BITBANGING_CHALLENGE_BP",
   SUCCESS |-> "SUCCESS_BP", SUCCESS2 |-> "SUCCESS2_BP"]

\* Pages that the button leaves.  The DIGIT pages look at its contact.
PressedThen ==
  [MYSTORY_BP |-> "MYSTORY2", MYSTORY2_BP |-> "MYSTORY3", MYSTORY3_BP |-> "MYSTORY4",
   MYSTORY4_BP |-> "MYSTORY5", MYSTORY5_BP |-> "MYSTORY6",
   GROUNDED_BP |-> "GROUNDED2",
   LIGHT_ME_BP |-> "LIGHT_ME2",
   SERIALKILLER_BP |-> "SERIALKILLER2", SERIALKILLER2_BP |-> "MENU",
   EYECOLOR_BP |-> "EYECOLOR2", EYECOLOR2_BP |-> "EYECOLOR3", EYECOLOR3_BP |-> "MENU",
   EYECOLOR_DIGIT1_BP |-> "EYECOLOR_DIGIT2", EYECOLOR_DIGIT2_BP |-> "EYECOLOR_DIGIT3",
   EYECOLOR_DIGIT3_BP |-> "MENU",
   EYECOLOR_SERIAL_BP |-> "EYECOLOR_SERIAL2", EYECOLOR_SERIAL2_BP |-> "MENU",
   BITBANGING_BP |-> "BITBANGING2", BITBANGING2_BP |-> "MENU",
   BITBANGING_TEST_BP |-> "MENU", BITBANGING_CHALLENGE_BP |-> "MENU",
   SUCCESS_BP |-> "SUCCESS2", SUCCESS2_BP |-> "MENU",
   RETURN_TO_MENU |-> "MENU"]

\* A level is left out.
ReachedPast ==
  [HELLO_WORLD |-> 2, MYSTORY6_BP |-> 3, GROUNDED_PASS |-> 5, LIGHT_ME_PASS |-> 5,
   SERIALKILLER2_BP |-> 6, EYECOLOR3_BP |-> 7, EYECOLOR_SERIAL2_BP |-> 8,
   BITBANGING2_BP |-> 9, BITBANGING_CHALLENGE_BP |-> 10]
\* DONE, a success in the first challenge, is asked for in all of them.
AskedDone == [p \in {"SERIALKILLER2_BP", "EYECOLOR_SERIAL2_BP", "BITBANGING_CHALLENGE_BP"} |-> "DONE"]

\* The level that leaving a page leads to, if the console is in the state asked for.
Reached ==
  [HELLO_WORLD |-> 2, MYSTORY6_BP |-> 3, GROUNDED_PASS |-> 4, LIGHT_ME_PASS |-> 5,
   SERIALKILLER2_BP |-> 6, EYECOLOR3_BP |-> 7, EYECOLOR_SERIAL2_BP |-> 8,
   BITBANGING2_BP |-> 9, BITBANGING_CHALLENGE_BP |-> 10]
Asked ==
  [SERIALKILLER2_BP |-> "DONE", EYECOLOR_SERIAL2_BP |-> "EYECOLOR_PASS",
   BITBANGING_CHALLENGE_BP |-> "BITBANGING_PASS"]

\* Pages that start the console, and where; pages that stop it.
Started ==
  [SERIALKILLER_BP |-> "LOGIN", EYECOLOR_SERIAL_BP |-> "EYECOLOR_SER",
   BITBANGING_TEST |-> "BITBANGING_SER", BITBANGING_CHALLENGE |-> "BITBANGING_CHAL_SER"]
Stopped == {"SERIALKILLER2_BP", "EYECOLOR_SERIAL2_BP", "BITBANGING_TEST_BP",
            "BITBANGING_CHALLENGE_BP", "SUCCESS_BP", "SUCCESS2_BP"}

Level(page) ==
  ctf_menu_state' =
    IF page \in DOMAIN Reached
       /\ (page \in DOMAIN Asked => g_ctf_serial_state = Asked[page])
    THEN Reached[page] ELSE ctf_menu_state

\* The test page forgets to stop the console.
ServerLeftOn(page) ==
  IF page \in DOMAIN Started
  THEN g_ctf_server_enable' = TRUE /\ g_ctf_serial_state' = Started[page] /\ granted' = FALSE
  ELSE /\ g_ctf_server_enable' = (g_ctf_server_enable /\ page \notin Stopped \ {"BITBANGING_TEST_BP"})
       /\ granted' = (granted /\ page \notin Stopped) /\ UNCHANGED g_ctf_serial_state

Server(page) ==
  CASE page \in DOMAIN Started ->
         g_ctf_server_enable' = TRUE /\ g_ctf_serial_state' = Started[page] /\ granted' = FALSE
    [] page \in Stopped ->
         g_ctf_server_enable' = FALSE /\ granted' = FALSE /\ UNCHANGED g_ctf_serial_state
    [] OTHER -> UNCHANGED serverVars

Leave(page, then) ==
  /\ ctf_state' = then
  /\ Level(page) /\ Server(page)
  /\ followed' = IF page \in {"LIGHT_ME_BP", "LIGHT_ME_PASS", "LIGHT_ME_FAIL"} THEN 0 ELSE followed
  /\ UNCHANGED <<runningApp, menuVars, ctf_lightme_index, sw_ctf_test>>

ctf_draw == ctf_state \in DOMAIN DrawnThen /\ Leave(ctf_state, DrawnThen[ctf_state])
ctf_press == ctf_state \in DOMAIN PressedThen /\ Leave(ctf_state, PressedThen[ctf_state])

\* Two contacts of the badge are joined, or not.
ctf_grounded2 ==
  /\ ctf_state = "GROUNDED2"
  /\ \E RB14 \in BOOLEAN : Leave(ctf_state, IF RB14 THEN "GROUNDED_PASS" ELSE "GROUNDED_FAIL")

(***************************************************************************)
(* Light Me: every second the LED takes the next value of the message, and *)
(* the button must have been pressed while it was lit.  The index is never *)
(* reset, and counts a blink that was answered wrong.                      *)
(***************************************************************************)
LightIndexKept(i) == i
LightIndex(i) == i + 1

ctf_light_me2 ==
  /\ ctf_state = "LIGHT_ME2" /\ sw_ctf_test = 0
  /\ sw_ctf_test' = 1
  /\ IF ctf_lightme_index < Len(ctf_lightme_message)
     THEN /\ \E pressed \in {0, 1} :
               LET right == \/ ctf_lightme_index = 0
                            \/ pressed = ctf_lightme_message[ctf_lightme_index]
               IN  /\ ctf_state' = IF right THEN ctf_state ELSE "LIGHT_ME_FAIL"
                   /\ followed' = IF right THEN Min({followed + 1, Len(ctf_lightme_message)})
                                ELSE followed
          /\ ctf_lightme_index' = LightIndex(ctf_lightme_index)
     ELSE ctf_state' = "LIGHT_ME_PASS" /\ UNCHANGED <<ctf_lightme_index, followed>>
  /\ UNCHANGED <<runningApp, menuVars, ctf_menu_state, serverVars>>

Stopwatch ==
  /\ sw_ctf_test = 1
  /\ sw_ctf_test' = 0
  /\ UNCHANGED <<runningApp, menuVars, ctf_state, ctf_menu_state, ctf_lightme_index, followed, serverVars>>

(***************************************************************************)
(* The menu of the level.                                                  *)
(***************************************************************************)
CtfPages == DOMAIN DrawnThen \cup DOMAIN PressedThen \cup {"GROUNDED2", "LIGHT_ME2", "MENU"}

ctf_quit_cb == genericMenuRuns("quit") /\ runningApp' = NoApp /\ UNCHANGED ctf_state

\* The other items open a page.
ctf_page_cb ==
  /\ \E page \in CtfPages : genericMenuRuns(page) /\ ctf_state' = page
  /\ UNCHANGED runningApp

ctf_menus ==
  /\ ctf_state = "MENU"
  /\ \/ genericMenu(CtfMenu[ctf_menu_state]) /\ UNCHANGED <<runningApp, ctf_state>>
     \/ ctf_quit_cb \/ ctf_page_cb
  /\ UNCHANGED <<ctf_menu_state, lightVars, serverVars>>

ctf_app ==
  /\ runningApp = "ctf"
  /\ ctf_draw \/ ctf_press \/ ctf_grounded2 \/ ctf_light_me2 \/ ctf_menus

CtfShows == IF ctf_state = "MENU" THEN CtfMenu[ctf_menu_state] ELSE NoMenu
=============================================================================
