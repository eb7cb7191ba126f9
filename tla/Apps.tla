-------------------------------- MODULE Apps --------------------------------
(***************************************************************************)
(* The applications of a badge that share genericMenu, with the console:   *)
(* menus() starts one, calls it in every pass, and it ends by              *)
(* returnToMenus.  A pass of the application and the console's part of the *)
(* pass are two actions; the stopwatch is an interrupt.                    *)
(***************************************************************************)
EXTENDS Lander, Messenger, Console

AppNames == {"lander", "messenger", "ctf"}

ASSUME NoAppAssumption == NoApp \notin AppNames

vars == <<runningApp, menuVars, badge_lander_state, messengerVars, ctfVars, usb_console>>

Init == MenuInit /\ LanderInit /\ MessengerInit /\ CtfInit /\ usb_console \in BOOLEAN

\* The item of the application in the menus of the badge was pressed.
Start(app) ==
  /\ runningApp = NoApp
  /\ runningApp' = app
  /\ UNCHANGED <<menuVars, badge_lander_state, messengerVars, ctfVars, usb_console>>

LanderPass == badge_lander_cb /\ UNCHANGED <<messengerVars, ctfVars, usb_console>>
MessengerPass == badge_messenger_cb /\ UNCHANGED <<badge_lander_state, ctfVars, usb_console>>
CtfPass == ctf_app /\ UNCHANGED <<badge_lander_state, messengerVars, usb_console>>

Printed == ConsolePass(Continue) /\ UNCHANGED <<badge_lander_state, messengerVars>>
Typed == ConsolePass(Received) /\ UNCHANGED <<badge_lander_state, messengerVars>>
Usb == UsbChanges /\ UNCHANGED <<badge_lander_state, messengerVars>>
Time == Stopwatch /\ UNCHANGED <<badge_lander_state, messengerVars, usb_console>>

Next ==
  \/ \E app \in AppNames : Start(app)
  \/ LanderPass \/ MessengerPass \/ CtfPass
  \/ Printed \/ Typed \/ Usb \/ Time

Spec == Init /\ [][Next]_vars

\* What happens in a pass without the user, and the stopwatch.  A pass runs the
\* console only while usb_console holds, and nobody has to plug the cable in.
LightPass == CtfPass /\ ctf_state = "LIGHT_ME2"
FairSpec == Spec /\ WF_vars(Printed) /\ WF_vars(LightPass) /\ WF_vars(Time)

(***************************************************************************)
(* Properties.                                                             *)
(***************************************************************************)
\* Every variable keeps its range; the menu stack of four entries is enough.
TypeOK ==
  /\ MenuTypeOK
  /\ runningApp \in AppNames \cup {NoApp}
  /\ badge_lander_state \in LanderStates
  /\ badge_messenger_state \in MessengerStates
  /\ outgoing_message \in [Cells -> Chars]
  /\ char_under_edit \in 0..(MAX_MSG_LENGTH - 2)
  /\ relay_amount \in 0..max_configurable_relay_amount
  /\ ctf_state \in CtfPages /\ ctf_menu_state \in 1..Len(CtfMenu)
  /\ ctf_lightme_index \in 0..Len(ctf_lightme_message)
  /\ followed \in 0..Len(ctf_lightme_message)
  /\ sw_ctf_test \in {0, 1}
  /\ g_ctf_server_enable \in BOOLEAN /\ g_ctf_serial_state \in ConsoleStates
  /\ granted \in BOOLEAN /\ usb_console \in BOOLEAN

\* The menu that the running application shows in its present state.
Shown ==
  CASE runningApp = "lander" -> LanderShows
    [] runningApp = "messenger" -> MessengerShows
    [] runningApp = "ctf" -> CtfShows
    [] OTHER -> NoMenu

\* The menu that genericMenu remembers is the one that the running application
\* asks for now, or one opened from it: never one of an application that was
\* left, or of a level that was passed.
NoStaleMenu ==
  L_currMenu # NoMenu =>
    /\ L_menuStack[0] = Shown
    /\ IF L_menuCnt = 0 THEN L_currMenu = Shown
       ELSE \E k \in DOMAIN AppMenu[L_menuStack[L_menuCnt - 1]] :
              AppMenu[L_menuStack[L_menuCnt - 1]][k].goes = L_currMenu

\* The button always finds an item that can be selected, after any taps.
CursorStops == L_currMenu # NoMenu => ~AppMenu[L_currMenu][L_selectedMenu].skip

\* The editor loses the terminator of the text in one case only: a pass that
\* moves the cursor onto it and also turns the character.  The first character
\* then stands in its place.
TerminatorKept ==
  [][Terminated(outgoing_message) /\ ~Terminated(outgoing_message') =>
       /\ outgoing_message[char_under_edit'] = MSG_NULL_TERM
       /\ char_under_edit' = char_under_edit + 1
       /\ outgoing_message'[char_under_edit'] = 0]_vars

\* Levels are passed one by one, and none is lost by leaving the game.
LevelsInOrder ==
  [][ctf_menu_state' \in {ctf_menu_state, ctf_menu_state + 1}]_vars

\* A level whose challenge is answered on the console is passed only by an
\* answer accepted since this challenge was started: the state of the console
\* outlives the challenges, DONE stands for a success in one and a failure in
\* the others.
LevelIsEarned ==
  [][ctf_menu_state' # ctf_menu_state /\ ctf_menu_state' \in {6, 8, 10} => granted]_vars

\* The console takes the characters away from the badge's commands only while
\* a challenge is on the screen.
ServerOnlyInChallenge ==
  g_ctf_server_enable =>
    /\ runningApp = "ctf"
    /\ ctf_state \in {"SERIALKILLER2", "SERIALKILLER2_BP", "EYECOLOR_SERIAL2", "EYECOLOR_SERIAL2_BP",
                      "BITBANGING_TEST_BP", "BITBANGING_CHALLENGE_BP"}

\* The injection that was started reaches its question, by the stopwatch it
\* shares with Light Me, unless the user leaves the challenge: however often the
\* cable is pulled or Forth mode is entered on the way, if in the end the passes
\* reach the console again.
InjectionEnds ==
  <>[]usb_console =>
    (g_ctf_serial_state = "INJECTION1" ~>
       g_ctf_serial_state = "INJECTION6" \/ ~g_ctf_server_enable)

\* Light Me, which has no way out by the button, ends.
LightMeEnds == ctf_state = "LIGHT_ME2" ~> ctf_state \in {"LIGHT_ME_PASS", "LIGHT_ME_FAIL"}

\* "Press the button when the LED turns on and let go when the LED turns off":
\* every blink but the last, which is not compared, is answered in one go.
LightMeIsEarned ==
  ctf_state = "LIGHT_ME_PASS" => followed = Len(ctf_lightme_message)
=============================================================================
