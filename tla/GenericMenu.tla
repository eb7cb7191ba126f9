---------------------------- MODULE GenericMenu ----------------------------
(***************************************************************************)
(* genericMenu (menu.c): the menus of the applications.  Its cursor and    *)
(* stack are static variables that all applications share: an application  *)
(* passes its menu in every pass, and genericMenu goes on with the one it  *)
(* was showing.  Whether the button or a slider is reported in a pass is   *)
(* up to the user (Touch says what the driver promises).  No menu of an    *)
(* application has a HIDDEN_ITEM or an item of type MORE.                  *)
(***************************************************************************)
EXTENDS AppMenus, FiniteSetsExt

CONSTANTS NoMenu, NoApp

ASSUME NoMenuAssumption == NoMenu \notin DOMAIN AppMenu

\* L_menuStack[4] is compared with MAX_MENU_DEPTH, 8.
STACK_SIZE == 4
MAX_MENU_DEPTH == 8

VARIABLES
  runningApp,                            \* NoApp while menus() shows the menus
  L_currMenu, L_selectedMenu,            \* the menu shown, the item selected
  L_menuCnt, L_menuStack

menuVars == <<L_currMenu, L_selectedMenu, L_menuCnt, L_menuStack>>

MenuInit ==
  /\ runningApp = NoApp
  /\ L_currMenu = NoMenu /\ L_selectedMenu = 0
  /\ L_menuCnt = 0
  /\ L_menuStack = [k \in 0..(STACK_SIZE - 1) |-> NoMenu]

(***************************************************************************)
(* display_menu: the default item, or the first, when nothing is selected; *)
(* else the next item to stop at.                                          *)
(***************************************************************************)
SelectedAsIs(m, s) == IF s = 0 THEN 1 ELSE s
Selected(m, s) ==
  LET items == AppMenu[m]
      defaults == {k \in DOMAIN items : items[k].dflt}
  IN  IF s # 0 THEN Min({k \in s..Len(items) : ~items[k].skip})
      ELSE IF defaults = {} THEN 1 ELSE Min(defaults)

ShowMenu(m, s) == L_currMenu' = m /\ L_selectedMenu' = Selected(m, s)

Selection == AppMenu[L_currMenu][L_selectedMenu]

\* The press or tap that found the menu closed is not consumed.
OpenMenu(m) ==
  /\ L_menuCnt' = 0
  /\ L_menuStack' = [L_menuStack EXCEPT ![0] = m]
  /\ ShowMenu(m, 0)

\* The cursor is not reset after the function was called.
PressFunctionKept == Selection.type = "FUNCTION" /\ UNCHANGED menuVars

PressFunction ==
  /\ Selection.type = "FUNCTION"
  /\ L_currMenu' = NoMenu /\ L_selectedMenu' = 0
  /\ L_menuCnt' = 0
  /\ L_menuStack' = [L_menuStack EXCEPT ![0] = NoMenu]

PressSubmenu ==
  /\ Selection.type = "MENU"
  /\ L_menuStack' = [L_menuStack EXCEPT ![L_menuCnt] = L_currMenu]
  /\ L_menuCnt' = IF L_menuCnt + 1 = MAX_MENU_DEPTH THEN L_menuCnt ELSE L_menuCnt + 1
  /\ ShowMenu(Selection.goes, 0)

\* BACK shows the menu below but leaves it on the stack.
PressReturnKept ==
  /\ Selection.type = "BACK" /\ L_menuCnt > 0
  /\ UNCHANGED <<L_menuCnt, L_menuStack>>
  /\ ShowMenu(L_menuStack[L_menuCnt - 1], 1)

PressReturn ==
  /\ Selection.type = "BACK" /\ L_menuCnt > 0
  /\ L_menuCnt' = L_menuCnt - 1
  /\ UNCHANGED L_menuStack
  /\ ShowMenu(L_menuStack[L_menuCnt - 1], 1)

Stops(from, to) == {k \in from..to : ~AppMenu[L_currMenu][k].skip}

MenuUp ==
  /\ L_selectedMenu > 1
  /\ UNCHANGED <<L_menuCnt, L_menuStack>>
  /\ LET above == Stops(1, L_selectedMenu - 1)
     IN  ShowMenu(L_currMenu, IF above = {} THEN 1 ELSE Max(above))

MenuDown ==
  /\ L_selectedMenu < Len(AppMenu[L_currMenu])
  /\ UNCHANGED <<L_menuCnt, L_menuStack>>
  /\ ShowMenu(L_currMenu, Min(Stops(L_selectedMenu + 1, Len(AppMenu[L_currMenu]))))

\* A call with menu m that runs no function.  A call without input, or with
\* one that nothing answers, changes nothing.
genericMenu(m) ==
  \/ L_currMenu = NoMenu /\ OpenMenu(m)
  \/ L_currMenu # NoMenu /\ (PressSubmenu \/ PressReturn \/ MenuUp \/ MenuDown)

\* A call that runs function f.
genericMenuRuns(f) == L_currMenu # NoMenu /\ PressFunction /\ Selection.goes = f

(***************************************************************************)
(* Parts of properties of the applications.                                *)
(***************************************************************************)
MenuTypeOK ==
  /\ L_currMenu \in DOMAIN AppMenu \cup {NoMenu}
  /\ L_selectedMenu \in IF L_currMenu = NoMenu THEN {0} ELSE DOMAIN AppMenu[L_currMenu]
  /\ L_menuCnt \in 0..(STACK_SIZE - 1)
  /\ L_menuStack \in [0..(STACK_SIZE - 1) -> DOMAIN AppMenu \cup {NoMenu}]
=============================================================================
