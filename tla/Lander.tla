------------------------------- MODULE Lander -------------------------------
(***************************************************************************)
(* The lander game (apps/lander.c): its menu, its help and its rounds.     *)
(* Ships, pads and fuel are left out: a pass of the game ends the round by *)
(* a landing, ends the game by a crash, or goes on.                        *)
(***************************************************************************)
EXTENDS GenericMenu

VARIABLE badge_lander_state

LanderInit == badge_lander_state = "LANDER_SHOW_MENU"

\* returnToMenus (menu.c).
returnToMenus == runningApp' = NoApp

lander_menu_exit ==
  genericMenuRuns("quit") /\ returnToMenus /\ badge_lander_state' = "LANDER_SHOW_MENU"
lander_menu_play ==
  genericMenuRuns("INIT") /\ badge_lander_state' = "INIT" /\ UNCHANGED runningApp

LanderMenu ==
  /\ badge_lander_state = "LANDER_SHOW_MENU"
  /\ \/ genericMenu("lander_main_m") /\ UNCHANGED <<runningApp, badge_lander_state>>
     \/ lander_menu_exit \/ lander_menu_play

LanderStart ==
  /\ badge_lander_state \in {"INIT", "INIT_LEVEL"}
  /\ badge_lander_state' = IF badge_lander_state = "INIT" THEN "INIT_LEVEL" ELSE "RUN"
  /\ UNCHANGED <<runningApp, menuVars>>

\* lander_update: landed, crashed or still flying; a press has the last word.
LanderRun ==
  /\ badge_lander_state = "RUN"
  /\ \E update \in {"INIT_LEVEL", "INIT", "RUN"}, pressed \in BOOLEAN :
       badge_lander_state' = IF pressed THEN "LANDER_SHOW_MENU" ELSE update
  /\ UNCHANGED <<runningApp, menuVars>>

badge_lander_cb == runningApp = "lander" /\ (LanderMenu \/ LanderStart \/ LanderRun)

LanderStates == {"LANDER_SHOW_MENU", "INIT", "INIT_LEVEL", "RUN"}
LanderShows == IF badge_lander_state = "LANDER_SHOW_MENU" THEN "lander_main_m" ELSE NoMenu
=============================================================================
