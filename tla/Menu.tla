-------------------------------- MODULE Menu --------------------------------
(***************************************************************************)
(* The badge's menus: a tree of item arrays, a cursor, a stack of the      *)
(* menus left behind, and the redraw that a text message asks for from the *)
(* IR handler whatever the user is doing.                                  *)
(*                                                                         *)
(* The main loop calls menus() and then IRhandler.  A call of menus() runs *)
(* the application if there is one; otherwise it obeys redraw_main_menu    *)
(* and then one press or tap.  A call that does both is Redraw followed by *)
(* that press: presses wait for the redraw.                                *)
(*                                                                         *)
(* A pointer into an array is an index from 1, NULL is 0 or NoMenu.  What  *)
(* is drawn, names and notes are left out, and so are items of type MORE   *)
(* (no menu has one) and TEXT (all of them are skipped).                   *)
(***************************************************************************)
EXTENDS Integers, Sequences, FiniteSetsExt

CONSTANTS
  MAX_MENU_DEPTH,   \* entries of G_menuStack
  Menus, NoMenu,
  main_m,           \* the main menu
  ClearItem,        \* index in main_m of "Clear Message", shown with a message
  Items             \* the array of each menu, [type, menu, app, skip, dflt, hidden, last]

ASSUME DepthAssumption == MAX_MENU_DEPTH \in Nat \ {0, 1}
menu_t == [type : {"MENU", "BACK", "FUNCTION", "TEXT"}, menu : Menus \cup {NoMenu},
           app : {"none", "app", "setting", "clear"},
           skip : BOOLEAN, dflt : BOOLEAN, hidden : BOOLEAN, last : BOOLEAN]

ASSUME MenuAssumption ==
  main_m \in Menus /\ NoMenu \notin Menus /\ Items \in [Menus -> Seq(menu_t)]

IsClear(m, k) == m = main_m /\ k = ClearItem

\* What the code relies on in an item, and never tests.
ItemIsSound(m, k) ==
  LET item == Items[m][k]
  IN  /\ item.skip => ~(item.dflt \/ item.hidden \/ item.last \/ IsClear(m, k))
      /\ item.type = "MENU" /\ ~item.skip => item.menu \in Menus
      /\ item.type = "FUNCTION" => item.app # "none"
      /\ item.app = "setting" => m # main_m

\* The cursor has an item to start from: the first one, or a default.
HasStart(m, end) ==
  Items[m][1].skip => \E k \in 1..end : Items[m][k].dflt /\ ~Items[m][k].hidden /\ ~IsClear(m, k)

\* The scans of display_menu and menus() end at an item marked last.  In the
\* main menu "Clear Message", which is so marked now and then, is followed by
\* another last item, always hidden, and by nothing else.
IsEnd(m, end) ==
  /\ IF m = main_m
     THEN /\ end = ClearItem /\ Len(Items[m]) = end + 1
          /\ Items[m][end + 1].last /\ Items[m][end + 1].hidden
     ELSE Items[m][end].last
  /\ \A k \in 1..(end - 1) : ~Items[m][k].last

MenuIsSound(m) ==
  /\ \A k \in 1..Len(Items[m]) : ItemIsSound(m, k)
  /\ \E end \in 1..Len(Items[m]) : IsEnd(m, end) /\ HasStart(m, end)

WellFormed == \A m \in Menus : MenuIsSound(m)

ASSUME TreeAssumption == WellFormed

Level == 0..(MAX_MENU_DEPTH - 1)

VARIABLES
  G_menuCnt, stackMenu, stackSel,   \* G_menuStack: currMenu and selectedMenu
  G_currMenu, G_selectedMenu,
  runningApp,
  clearShown,                       \* main_m[ClearItem] is neither HIDDEN nor LAST
  redraw_main_menu, new_message

stackVars == <<G_menuCnt, stackMenu, stackSel>>
cursorVars == <<G_currMenu, G_selectedMenu>>
msgVars == <<redraw_main_menu, new_message>>
vars == <<stackVars, cursorVars, runningApp, clearShown, msgVars>>

(***************************************************************************)
(* Attributes and display_menu.                                            *)
(***************************************************************************)
Hidden(m, k) == IF IsClear(m, k) THEN ~clearShown ELSE Items[m][k].hidden
IsLast(m, k) == IF IsClear(m, k) THEN ~clearShown ELSE Items[m][k].last
Passed(m, k) == Items[m][k].skip \/ Hidden(m, k)

LastOf(m) == Min({k \in 1..Len(Items[m]) : IsLast(m, k)})
Displayed(m) == {k \in 1..LastOf(m) : ~Hidden(m, k)}

SelectionKept(m, s) == s
SelectionOfSkipped(m, s) ==
  IF s = 0 THEN Min({k \in Displayed(m) : Items[m][k].dflt}) ELSE s

\* display_menu's return value: the default item when nothing is selected, and
\* the next item when the selected one is a SKIP_ITEM.
Selection(m, s) ==
  IF s = 0
  THEN LET defaults == {k \in Displayed(m) : Items[m][k].dflt}
       IN  IF defaults = {} THEN 1 ELSE Min(defaults)
  ELSE Min({k \in s..(LastOf(m) + 1) : ~(k \in Displayed(m) /\ Items[m][k].skip)})

\* The cursor, and what display_menu does to the item "Clear Message".
Display(m, s) ==
  /\ G_currMenu' = m
  /\ G_selectedMenu' = Selection(m, s)
  /\ clearShown' = IF stackMenu'[G_menuCnt'] = main_m
                   THEN new_message' /\ runningApp' = "none"
                   ELSE clearShown

\* The splash screen has ended and called returnToMenus, with nothing selected.
Init ==
  /\ G_menuCnt = 0
  /\ stackMenu = [k \in Level |-> IF k = 0 THEN main_m ELSE NoMenu]
  /\ stackSel = [k \in Level |-> 0]
  /\ runningApp = "none" /\ clearShown = FALSE
  /\ G_currMenu = main_m
  /\ G_selectedMenu = Selection(main_m, 0)
  /\ redraw_main_menu = FALSE /\ new_message = FALSE

Idle == runningApp = "none" /\ ~redraw_main_menu

(***************************************************************************)
(* menus(): the forced redraw, and the button on each kind of item.        *)
(***************************************************************************)
Redraw ==
  /\ runningApp = "none" /\ redraw_main_menu
  /\ redraw_main_menu' = FALSE
  /\ stackMenu' = [stackMenu EXCEPT ![G_menuCnt] = main_m]
  /\ stackSel' = [stackSel EXCEPT ![G_menuCnt] = 0]
  /\ UNCHANGED <<G_menuCnt, runningApp, new_message>>
  /\ Display(main_m, 0)

Pressed(type) == Idle /\ Items[G_currMenu][G_selectedMenu].type = type

\* "Too deep, undo": the last entry is used again.
DeeperWraps(cnt) == (cnt + 1) % MAX_MENU_DEPTH
Deeper(cnt) == IF cnt + 1 = MAX_MENU_DEPTH THEN cnt ELSE cnt + 1

PressMenu ==
  /\ Pressed("MENU")
  /\ stackMenu' = [stackMenu EXCEPT ![G_menuCnt] = G_currMenu]
  /\ stackSel' = [stackSel EXCEPT ![G_menuCnt] = G_selectedMenu]
  /\ G_menuCnt' = Deeper(G_menuCnt)
  /\ UNCHANGED <<runningApp, msgVars>>
  /\ Display(Items[G_currMenu][G_selectedMenu].menu, 0)

PressBack ==
  /\ Pressed("BACK") /\ G_menuCnt > 0
  /\ G_menuCnt' = G_menuCnt - 1
  /\ UNCHANGED <<stackMenu, stackSel, runningApp, msgVars>>
  /\ Display(stackMenu[G_menuCnt - 1], stackSel[G_menuCnt - 1])

PressFunction ==
  /\ Pressed("FUNCTION")
  /\ runningApp' = Items[G_currMenu][G_selectedMenu].app
  /\ UNCHANGED <<stackVars, msgVars>>
  /\ Display(G_currMenu, G_selectedMenu)

(***************************************************************************)
(* menus(): the taps.                                                      *)
(***************************************************************************)
TopTap ==
  /\ Idle /\ G_selectedMenu > 1
  /\ UNCHANGED <<stackVars, runningApp, msgVars>>
  /\ LET above == {k \in 1..(G_selectedMenu - 1) : ~Passed(G_currMenu, k)}
     IN  Display(G_currMenu, IF above = {} THEN 1 ELSE Max(above))

\* Stop at the first item to stop at, or at the last; leave a hidden last one.
BottomTap ==
  /\ Idle /\ ~IsLast(G_currMenu, G_selectedMenu)
  /\ UNCHANGED <<stackVars, runningApp, msgVars>>
  /\ LET stops == {k \in (G_selectedMenu + 1)..Len(Items[G_currMenu]) :
                     ~Passed(G_currMenu, k) \/ IsLast(G_currMenu, k)}
         stop == Min(stops)
         hiddenLast == IsLast(G_currMenu, stop) /\ Hidden(G_currMenu, stop)
     IN  Display(G_currMenu, IF hiddenLast THEN stop - 1 ELSE stop)

(***************************************************************************)
(* Applications.  A setting's callback runs for one pass and writes its    *)
(* value over the name of the item getSelectedMenuStack(1), for show.      *)
(***************************************************************************)
returnToMenus ==
  /\ runningApp = "app"
  /\ runningApp' = "none"
  /\ UNCHANGED <<stackVars, msgVars>>
  /\ Display(G_currMenu, G_selectedMenu)

clear_msg_cb ==
  /\ runningApp = "clear"
  /\ runningApp' = "none"
  /\ new_message' = FALSE
  /\ UNCHANGED <<stackVars, redraw_main_menu>>
  /\ Display(G_currMenu, 0)

\* closeMenuAndReturn draws before it clears runningApp, so a message that
\* waits is not announced: clearShown is set as if the application ran on.
closeMenuAndReturn ==
  /\ runningApp = "setting"
  /\ G_menuCnt > 0
  /\ G_menuCnt' = G_menuCnt - 1
  /\ G_currMenu' = stackMenu[G_menuCnt - 1]
  /\ G_selectedMenu' = Selection(stackMenu[G_menuCnt - 1], stackSel[G_menuCnt - 1])
  /\ clearShown' = IF stackMenu[G_menuCnt - 1] = main_m THEN FALSE ELSE clearShown
  /\ runningApp' = "none"
  /\ UNCHANGED <<stackMenu, stackSel, msgVars>>

(***************************************************************************)
(* IRhandler and the relay (MsgRelay): a packet begins or completes a      *)
(* message; a round of the relay ends.                                     *)
(***************************************************************************)
ir_livetext ==
  /\ \E complete \in BOOLEAN : /\ new_message' = complete
                               /\ redraw_main_menu' = (redraw_main_menu \/ complete)
  /\ UNCHANGED <<stackVars, cursorVars, runningApp, clearShown>>

RelayRound ==
  /\ runningApp = "none" /\ new_message
  /\ redraw_main_menu' = TRUE
  /\ UNCHANGED <<stackVars, cursorVars, runningApp, clearShown, new_message>>

Press == PressMenu \/ PressBack \/ PressFunction
Tap == TopTap \/ BottomTap
AppEnds == returnToMenus \/ clear_msg_cb \/ closeMenuAndReturn

Next == Redraw \/ Press \/ Tap \/ AppEnds \/ ir_livetext \/ RelayRound

Spec == Init /\ [][Next]_vars

-----------------------------------------------------------------------------
(* Properties.                                                             *)

TypeOK ==
  /\ G_menuCnt \in Level
  /\ stackMenu \in [Level -> Menus \cup {NoMenu}]
  /\ stackSel \in [Level -> Nat]
  /\ G_currMenu \in Menus /\ G_selectedMenu \in 1..Len(Items[G_currMenu])
  /\ runningApp \in {"none", "app", "setting", "clear"}
  /\ clearShown \in BOOLEAN /\ redraw_main_menu \in BOOLEAN /\ new_message \in BOOLEAN

(* The cursor never rests on a SKIP_ITEM: most of them are of type MENU    *)
(* with no menu behind them, and a press would enter it.                   *)
CursorIsSelectable == ~Items[G_currMenu][G_selectedMenu].skip

\* The item of entry k of the stack leads to menu m.
LeadsTo(k, m) ==
  stackMenu[k] # NoMenu /\ m = Items[stackMenu[k]][stackSel[k]].menu

\* The menu at level k of the path from the bottom of the stack to the screen.
MenuAt(k) == IF k = G_menuCnt THEN G_currMenu ELSE stackMenu[k]

(* Below each menu on the path lies the item it was entered by, or the     *)
(* menu is the main one (put there by a redraw).  So BACK has somewhere to *)
(* go, and getSelectedMenuStack(1) is the item that led to the setting.    *)
(* At the last entry, which is used again when the user goes on (menu.c:   *)
(* 1141), this need not hold.                                              *)
PathIsStacked ==
  \A k \in 0..G_menuCnt :
    MenuAt(k) = main_m \/ k = MAX_MENU_DEPTH - 1 \/ (k > 0 /\ LeadsTo(k - 1, MenuAt(k)))

(* A setting's callback always finds a menu to return to: otherwise        *)
(* closeMenuAndReturn leaves runningApp set and the badge stays in it.     *)
SettingCanReturn == runningApp = "setting" => G_menuCnt > 0
=============================================================================
