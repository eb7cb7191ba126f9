----------------------------- MODULE MenuProofs -----------------------------
(***************************************************************************)
(* The invariants of Menu for every tree of menus that meets the           *)
(* assumptions of Menu, and every depth of the stack.  MCMenu evaluates    *)
(* these assumptions for the badge's own tree.                             *)
(***************************************************************************)
EXTENDS Menu, LeastTheorems

-----------------------------------------------------------------------------
(* The shape of a menu.                                                    *)

\* The last index the cursor may rest on.
End(m) == CHOOSE end \in 1..Len(Items[m]) : IsEnd(m, end) /\ HasStart(m, end)

(* What the assumptions say of the items of a menu and of its end.         *)
LEMMA MenuShape ==
  ASSUME NEW m \in Menus
  PROVE  /\ Len(Items[m]) \in Nat
         /\ End(m) \in 1..Len(Items[m])
         /\ IsEnd(m, End(m)) /\ HasStart(m, End(m))
         /\ \A k \in 1..Len(Items[m]) : ItemIsSound(m, k)
<1>1. MenuIsSound(m) BY TreeAssumption DEF WellFormed
<1>2. \E end \in 1..Len(Items[m]) : IsEnd(m, end) /\ HasStart(m, end) BY <1>1 DEF MenuIsSound
<1>3. Len(Items[m]) \in Nat BY MenuAssumption
<1> QED BY <1>1, <1>2, <1>3 DEF MenuIsSound, End

(* Whether "Clear Message" is shown or not, no item before the end is      *)
(* last, the end is not skipped, the menu stops at or right behind it, and *)
(* nothing behind it is displayed.                                         *)
LEMMA EndShape ==
  ASSUME NEW m \in Menus, clearShown \in BOOLEAN
  PROVE  /\ \A k \in 1..(End(m) - 1) : ~IsLast(m, k)
         /\ ~Items[m][End(m)].skip
         /\ LastOf(m) \in Nat /\ End(m) <= LastOf(m) /\ LastOf(m) <= Len(Items[m])
         /\ Displayed(m) \subseteq 1..End(m)
<1> DEFINE e == End(m)
           n == Len(Items[m])
           lasts == {k \in 1..n : IsLast(m, k)}
<1>1. n \in Nat /\ e \in 1..n /\ IsEnd(m, e) /\ \A k \in 1..n : ItemIsSound(m, k) BY MenuShape
<1> HIDE DEF e, n
<1>2. \A k \in 1..(e - 1) : ~IsLast(m, k) BY <1>1 DEF IsEnd, IsLast, IsClear
<1>3. ~Items[m][e].skip BY <1>1 DEF IsEnd, ItemIsSound, IsClear
<1>4. lasts # {} /\ \A k \in lasts : k >= e
  <2>1. \A k \in lasts : k >= e BY <1>1, <1>2
  <2>2. CASE m = main_m
    <3>1. e + 1 \in 1..n /\ IsLast(m, e + 1) BY <1>1, <2>2 DEF IsEnd, IsLast, IsClear, n
    <3> QED BY <2>1, <3>1
  <2>3. CASE m # main_m
    <3>1. IsLast(m, e) BY <1>1, <2>3 DEF IsEnd, IsLast, IsClear
    <3> QED BY <1>1, <2>1, <3>1
  <2> QED BY <2>2, <2>3
<1>5. LastOf(m) \in lasts /\ \A k \in lasts : LastOf(m) <= k
  <2>1. lasts \in SUBSET Nat BY <1>1
  <2> QED BY <1>4, <2>1, MinIsLeast DEF LastOf, n
<1>6. LastOf(m) \in Nat /\ e <= LastOf(m) /\ LastOf(m) <= n BY <1>1, <1>4, <1>5
<1>7. ASSUME NEW k \in Displayed(m) PROVE k \in 1..e
  <2>1. k \in 1..LastOf(m) /\ ~Hidden(m, k) BY DEF Displayed
  <2>2. CASE m = main_m
    <3>1. k # e + 1 BY <1>1, <2>1, <2>2 DEF IsEnd, Hidden, IsClear
    <3>2. n = e + 1 BY <1>1, <2>2 DEF IsEnd, n
    <3> QED BY <1>1, <1>6, <2>1, <3>1, <3>2
  <2>3. CASE m # main_m
    <3>1. e \in lasts BY <1>1, <2>3 DEF IsEnd, IsLast, IsClear
    <3> QED BY <1>1, <1>5, <1>6, <2>1, <3>1
  <2> QED BY <2>2, <2>3
<1> QED BY <1>2, <1>3, <1>6, <1>7 DEF e, n

(* display_menu returns an item the cursor may rest on, whether it is      *)
(* given none or any item up to the end of the menu.                       *)
LEMMA SelectionIsItem ==
  ASSUME NEW m \in Menus, clearShown \in BOOLEAN, NEW s \in 0..End(m)
  PROVE  Selection(m, s) \in 1..End(m) /\ ~Items[m][Selection(m, s)].skip
<1> DEFINE e == End(m)
           n == Len(Items[m])
<1>1. n \in Nat /\ e \in 1..n /\ HasStart(m, e) /\ \A k \in 1..n : ItemIsSound(m, k) BY MenuShape
<1>2. /\ ~Items[m][e].skip
      /\ LastOf(m) \in Nat /\ e <= LastOf(m) /\ LastOf(m) <= n
      /\ Displayed(m) \subseteq 1..e
  BY EndShape
<1> HIDE DEF e, n
<1>3. CASE s = 0
  <2> DEFINE defaults == {k \in Displayed(m) : Items[m][k].dflt}
  <2>1. CASE defaults = {}
    <3>1. ~Items[m][1].skip
      <4> SUFFICES ASSUME Items[m][1].skip PROVE FALSE OBVIOUS
      <4>1. PICK k \in 1..e : Items[m][k].dflt /\ ~Items[m][k].hidden /\ ~IsClear(m, k)
        BY <1>1 DEF HasStart
      <4>2. k \in Displayed(m) BY <1>1, <1>2, <4>1 DEF Displayed, Hidden
      <4> QED BY <2>1, <4>1, <4>2
    <3>2. Selection(m, s) = 1 BY <1>3, <2>1 DEF Selection
    <3> QED BY <1>1, <3>1, <3>2 DEF e
  <2>2. CASE defaults # {}
    <3>1. defaults \in SUBSET Nat BY <1>1, <1>2
    <3>2. Min(defaults) \in defaults BY <2>2, <3>1, MinIsLeast
    <3>3. Selection(m, s) = Min(defaults) BY <1>3, <2>2 DEF Selection
    <3>4. Selection(m, s) \in 1..e /\ Items[m][Selection(m, s)].dflt BY <1>2, <3>2, <3>3
    <3> QED BY <1>1, <3>4 DEF ItemIsSound, e
  <2> QED BY <2>1, <2>2
<1>4. CASE s # 0
  <2> DEFINE rest == {k \in s..(LastOf(m) + 1) : ~(k \in Displayed(m) /\ Items[m][k].skip)}
             k0 == Min(rest)
  <2>1. s \in 1..e BY <1>1, <1>4 DEF e
  <2>2. e \in rest BY <1>1, <1>2, <2>1
  <2>3. rest \in SUBSET Nat BY <1>2, <2>1
  <2>4. k0 \in rest /\ k0 <= e BY <2>2, <2>3, MinIsLeast
  <2>5. Selection(m, s) = k0 BY <1>4 DEF Selection
  <2> HIDE DEF k0
  <2>6. k0 \in 1..e BY <1>1, <1>2, <2>1, <2>4
  <2>7. ~Items[m][k0].skip
    <3> SUFFICES ASSUME Items[m][k0].skip PROVE FALSE OBVIOUS
    <3>1. k0 \notin Displayed(m) BY <2>4
    <3>2. Hidden(m, k0) BY <1>1, <1>2, <2>6, <3>1 DEF Displayed
    <3> QED BY <1>1, <2>6, <3>2 DEF ItemIsSound, Hidden
  <2> QED BY <2>5, <2>6, <2>7 DEF e
<1> QED BY <1>3, <1>4

-----------------------------------------------------------------------------
(* The inductive invariant.                                                *)

\* The cursor, or an entry of the stack, rests on an item of the menu m.
OnItem(m, s) == m \in Menus /\ s \in 1..End(m) /\ ~Items[m][s].skip

Ranges ==
  /\ G_menuCnt \in Level
  /\ stackMenu \in [Level -> Menus \cup {NoMenu}]
  /\ stackSel \in [Level -> Nat]
  /\ runningApp \in {"none", "app", "setting", "clear"}
  /\ clearShown \in BOOLEAN /\ redraw_main_menu \in BOOLEAN /\ new_message \in BOOLEAN

CursorInv == OnItem(G_currMenu, G_selectedMenu)
StackInv == \A k \in Level : k < G_menuCnt => OnItem(stackMenu[k], stackSel[k])
SettingInv == runningApp = "setting" => G_currMenu # main_m

IInv == Ranges /\ CursorInv /\ StackInv /\ PathIsStacked /\ SettingInv

(* Whatever display_menu is given, if it is NULL or an index up to the end *)
(* of a menu, the cursor rests on an item afterwards.                      *)
LEMMA DisplayRests ==
  ASSUME NEW m \in Menus, NEW s \in 0..End(m), clearShown \in BOOLEAN,
         G_currMenu' = m, G_selectedMenu' = Selection(m, s)
  PROVE  CursorInv'
<1>1. Selection(m, s) \in 1..End(m) /\ ~Items[m][Selection(m, s)].skip BY SelectionIsItem
<1> HIDE DEF Selection, End
<1>2. OnItem(m, Selection(m, s)) BY <1>1 DEF OnItem
<1>3. CursorInv' = OnItem(G_currMenu', G_selectedMenu') BY DEF CursorInv
<1> QED BY <1>2, <1>3

(* The type of an item the cursor rests on.                                *)
LEMMA ItemTyped ==
  ASSUME NEW m, NEW s, OnItem(m, s)
  PROVE  /\ m \in Menus /\ m # NoMenu /\ s \in 1..Len(Items[m]) /\ s \in 0..End(m) /\ s \in Nat
         /\ Items[m][s].app \in {"none", "app", "setting", "clear"}
         /\ Items[m][s].type = "MENU" => Items[m][s].menu \in Menus
         /\ Items[m][s].app = "setting" => m # main_m
<1>1. m \in Menus /\ s \in 1..End(m) /\ ~Items[m][s].skip BY DEF OnItem
<1>2. End(m) \in 1..Len(Items[m]) /\ Len(Items[m]) \in Nat /\ \A k \in 1..Len(Items[m]) : ItemIsSound(m, k)
  BY <1>1, MenuShape
<1>3. s \in 1..Len(Items[m]) /\ s \in 0..End(m) BY <1>1, <1>2
<1>4. ItemIsSound(m, s) BY <1>2, <1>3
<1>5. Items[m] \in Seq(menu_t) BY <1>1, MenuAssumption
<1>6. Items[m][s] \in menu_t BY <1>3, <1>5
<1>7. Items[m][s].app \in {"none", "app", "setting", "clear"} BY <1>6 DEF menu_t
<1> QED BY <1>1, <1>2, <1>3, <1>4, <1>7, MenuAssumption DEF ItemIsSound

(* The initial state satisfies the invariant.                              *)
LEMMA InitIInv == Init => IInv
<1> SUFFICES ASSUME Init PROVE IInv OBVIOUS
<1> USE DEF Init
<1>1. 0 \in Level BY DepthAssumption DEF Level
<1>2. Ranges BY <1>1, MenuAssumption DEF Ranges
<1>3. CursorInv
  <2>1. main_m \in Menus BY MenuAssumption
  <2>2. End(main_m) \in Nat BY <2>1, MenuShape
  <2>3. 0 \in 0..End(main_m)
    <3> HIDE DEF Init
    <3> QED BY <2>2
  <2>4. /\ Selection(main_m, 0) \in 1..End(main_m)
        /\ ~Items[main_m][Selection(main_m, 0)].skip
    BY <2>1, <2>3, SelectionIsItem, clearShown \in BOOLEAN
  <2> QED BY <2>1, <2>4 DEF CursorInv, OnItem
<1>4. StackInv BY DEF StackInv, Level
<1>5. PathIsStacked BY DEF PathIsStacked, MenuAt
<1>6. SettingInv BY DEF SettingInv
<1> QED BY <1>2, <1>3, <1>4, <1>5, <1>6 DEF IInv

-----------------------------------------------------------------------------
(* What the steps share.                                                   *)

(* A cursor that stays where it is rests on an item whatever becomes of    *)
(* "Clear Message".                                                        *)
LEMMA CursorKept ==
  ASSUME CursorInv, UNCHANGED cursorVars
  PROVE  CursorInv'
<1>1. G_currMenu' = G_currMenu /\ G_selectedMenu' = G_selectedMenu BY DEF cursorVars
<1> QED BY <1>1 DEF CursorInv

(* Steps that leave the stack and the menu alone keep the path.            *)
LEMMA PathKept ==
  ASSUME PathIsStacked, UNCHANGED stackVars, G_currMenu' = G_currMenu
  PROVE  PathIsStacked'
<1>1. G_menuCnt' = G_menuCnt /\ stackMenu' = stackMenu /\ stackSel' = stackSel BY DEF stackVars
<1> QED BY <1>1 DEF PathIsStacked, MenuAt, LeadsTo

LEMMA StackKept ==
  ASSUME StackInv, UNCHANGED stackVars
  PROVE  StackInv'
<1>1. G_menuCnt' = G_menuCnt /\ stackMenu' = stackMenu /\ stackSel' = stackSel BY DEF stackVars
<1> QED BY <1>1 DEF StackInv

(* A step on the same menu, to an index display_menu has chosen, keeps the *)
(* invariant if it leaves the stack alone and starts a setting only from a *)
(* setting's list.                                                         *)
LEMMA SameMenu ==
  ASSUME IInv, NEW s \in 0..End(G_currMenu), UNCHANGED stackVars, Display(G_currMenu, s),
         runningApp' \in {"none", "app", "setting", "clear"},
         redraw_main_menu' \in BOOLEAN, new_message' \in BOOLEAN,
         runningApp' = "setting" => G_currMenu # main_m
  PROVE  IInv'
<1>1. Ranges /\ CursorInv /\ StackInv /\ PathIsStacked BY DEF IInv
<1>2. G_currMenu \in Menus /\ clearShown \in BOOLEAN BY <1>1 DEF Ranges, CursorInv, OnItem
<1>3. /\ G_currMenu' = G_currMenu /\ G_selectedMenu' = Selection(G_currMenu, s)
      /\ clearShown' \in BOOLEAN
  BY <1>2 DEF Display
<1>4. Ranges' BY <1>1, <1>3 DEF Ranges, stackVars, Level
<1>5. CursorInv' BY <1>2, <1>3, DisplayRests
<1>6. StackInv' BY <1>1, StackKept
<1>7. PathIsStacked' BY <1>1, <1>3, PathKept
<1>8. SettingInv' BY <1>3 DEF SettingInv
<1> QED BY <1>4, <1>5, <1>6, <1>7, <1>8 DEF IInv

(* Going up one entry of the stack keeps the invariant.                    *)
LEMMA Up ==
  ASSUME IInv, G_menuCnt > 0, G_menuCnt' = G_menuCnt - 1, UNCHANGED <<stackMenu, stackSel, msgVars>>,
         G_currMenu' = stackMenu[G_menuCnt - 1],
         G_selectedMenu' = Selection(stackMenu[G_menuCnt - 1], stackSel[G_menuCnt - 1]),
         clearShown' \in BOOLEAN, runningApp' = "none"
  PROVE  IInv'
<1> DEFINE k0 == G_menuCnt - 1
<1>1. Ranges /\ CursorInv /\ StackInv /\ PathIsStacked BY DEF IInv
<1>2. k0 \in Level /\ G_menuCnt \in Level /\ MAX_MENU_DEPTH \in Nat
  BY <1>1, DepthAssumption DEF Ranges, Level
<1>3. OnItem(stackMenu[k0], stackSel[k0]) BY <1>1, <1>2 DEF StackInv, Level
<1>4. stackMenu[k0] \in Menus /\ stackSel[k0] \in 0..End(stackMenu[k0]) BY <1>3, ItemTyped
<1>5. Ranges' BY <1>1, <1>2 DEF Ranges, msgVars
<1>6. CursorInv'
  <2>1. clearShown \in BOOLEAN BY <1>1 DEF Ranges
  <2> QED BY <1>4, <2>1, DisplayRests
<1>7. StackInv'
  <2>1. \A k \in Level : k < G_menuCnt' => k < G_menuCnt BY <1>2 DEF Level
  <2> QED BY <1>1, <2>1 DEF StackInv
<1>8. PathIsStacked'
  <2> SUFFICES ASSUME NEW k \in 0..k0
               PROVE  \/ MenuAt(k)' = main_m \/ k = MAX_MENU_DEPTH - 1
                      \/ k > 0 /\ LeadsTo(k - 1, MenuAt(k))'
    BY DEF PathIsStacked
  <2>1. MenuAt(k)' = MenuAt(k) BY <1>2 DEF MenuAt, Level
  <2>2. LeadsTo(k - 1, MenuAt(k))' <=> LeadsTo(k - 1, MenuAt(k)) BY <2>1 DEF LeadsTo
  <2>3. k \in 0..G_menuCnt BY <1>2 DEF Level
  <2> QED BY <1>1, <2>1, <2>2, <2>3 DEF PathIsStacked
<1>9. SettingInv' BY DEF SettingInv
<1> QED BY <1>5, <1>6, <1>7, <1>8, <1>9 DEF IInv

-----------------------------------------------------------------------------
(* The steps.                                                              *)

(* The forced redraw writes over the entry above the path.                 *)
LEMMA RedrawIInv == IInv /\ Redraw => IInv'
<1> SUFFICES ASSUME IInv, Redraw PROVE IInv' OBVIOUS
<1>1. Ranges /\ CursorInv /\ StackInv /\ PathIsStacked BY DEF IInv
<1>2. main_m \in Menus /\ 0 \in 0..End(main_m) BY MenuAssumption, MenuShape
<1>3. /\ G_menuCnt' = G_menuCnt /\ G_currMenu' = main_m /\ G_selectedMenu' = Selection(main_m, 0)
      /\ stackMenu' = [stackMenu EXCEPT ![G_menuCnt] = main_m]
      /\ stackSel' = [stackSel EXCEPT ![G_menuCnt] = 0]
      /\ runningApp' = "none"
  BY DEF Redraw, Display
<1>4. clearShown' \in BOOLEAN /\ redraw_main_menu' \in BOOLEAN /\ new_message' \in BOOLEAN
  BY <1>1 DEF Redraw, Display, Ranges
<1>5. Ranges' BY <1>1, <1>2, <1>3, <1>4 DEF Ranges
<1>6. CursorInv'
  <2>1. clearShown \in BOOLEAN BY <1>1 DEF Ranges
  <2> QED BY <1>2, <1>3, <2>1, DisplayRests
<1>7. \A k \in Level : k # G_menuCnt => stackMenu'[k] = stackMenu[k] /\ stackSel'[k] = stackSel[k]
  BY <1>1, <1>3 DEF Ranges
<1>8. StackInv' BY <1>1, <1>3, <1>7 DEF StackInv, Ranges, Level
<1>9. PathIsStacked'
  <2> SUFFICES ASSUME NEW k \in 0..G_menuCnt
               PROVE  \/ MenuAt(k)' = main_m \/ k = MAX_MENU_DEPTH - 1
                      \/ k > 0 /\ LeadsTo(k - 1, MenuAt(k))'
    BY <1>3 DEF PathIsStacked
  <2>1. G_menuCnt \in Nat /\ G_menuCnt < MAX_MENU_DEPTH /\ MAX_MENU_DEPTH \in Nat
    BY <1>1, DepthAssumption DEF Ranges, Level
  <2>2. CASE k = G_menuCnt BY <1>3, <2>2 DEF MenuAt
  <2>3. CASE k # G_menuCnt
    <3>1. k \in Level /\ k < G_menuCnt /\ (k > 0 => k - 1 \in Level /\ k - 1 # G_menuCnt)
      BY <2>1, <2>3 DEF Level
    <3>2. MenuAt(k)' = MenuAt(k) BY <1>3, <1>7, <2>3, <3>1 DEF MenuAt
    <3>3. k > 0 => (LeadsTo(k - 1, MenuAt(k))' <=> LeadsTo(k - 1, MenuAt(k)))
      BY <1>7, <3>1, <3>2 DEF LeadsTo
    <3> QED BY <1>1, <3>2, <3>3 DEF PathIsStacked
  <2> QED BY <2>2, <2>3
<1>10. SettingInv' BY <1>3 DEF SettingInv
<1> QED BY <1>5, <1>6, <1>8, <1>9, <1>10 DEF IInv

(* Going down pushes the item that leads to the new menu, or writes it     *)
(* over the last entry.                                                    *)
LEMMA PressMenuIInv == IInv /\ PressMenu => IInv'
<1> SUFFICES ASSUME IInv, PressMenu PROVE IInv' OBVIOUS
<1> DEFINE below == Items[G_currMenu][G_selectedMenu].menu
<1>1. Ranges /\ CursorInv /\ StackInv /\ PathIsStacked BY DEF IInv
<1>2. OnItem(G_currMenu, G_selectedMenu) BY <1>1 DEF CursorInv
<1>3. /\ G_currMenu \in Menus /\ G_currMenu # NoMenu /\ G_selectedMenu \in Nat
      /\ below \in Menus
  BY <1>2, ItemTyped DEF PressMenu, Pressed
<1>4. 0 \in 0..End(below) BY <1>3, MenuShape
<1>5. /\ G_menuCnt' = Deeper(G_menuCnt) /\ G_currMenu' = below /\ G_selectedMenu' = Selection(below, 0)
      /\ stackMenu' = [stackMenu EXCEPT ![G_menuCnt] = G_currMenu]
      /\ stackSel' = [stackSel EXCEPT ![G_menuCnt] = G_selectedMenu]
      /\ runningApp' = "none" /\ UNCHANGED msgVars
  BY DEF PressMenu, Pressed, Idle, Display
<1> HIDE DEF below
<1>6. /\ G_menuCnt \in Nat /\ G_menuCnt < MAX_MENU_DEPTH /\ MAX_MENU_DEPTH \in Nat
      /\ G_menuCnt' \in Level
      /\ G_menuCnt' = G_menuCnt + 1 \/ (G_menuCnt' = G_menuCnt /\ G_menuCnt = MAX_MENU_DEPTH - 1)
  BY <1>1, <1>5, DepthAssumption DEF Ranges, Level, Deeper
<1>7. Ranges'
  <2>1. clearShown' \in BOOLEAN BY <1>1 DEF PressMenu, Display, Ranges
  <2> QED BY <1>1, <1>3, <1>5, <1>6, <2>1 DEF Ranges, Level, msgVars
<1>8. CursorInv'
  <2>1. clearShown \in BOOLEAN BY <1>1 DEF Ranges
  <2> QED BY <1>3, <1>4, <1>5, <2>1, DisplayRests
<1>9. /\ \A k \in Level : k # G_menuCnt => stackMenu'[k] = stackMenu[k] /\ stackSel'[k] = stackSel[k]
      /\ stackMenu'[G_menuCnt] = G_currMenu /\ stackSel'[G_menuCnt] = G_selectedMenu
  BY <1>1, <1>5 DEF Ranges
<1>10. StackInv'
  <2> SUFFICES ASSUME NEW k \in Level, k < G_menuCnt' PROVE OnItem(stackMenu'[k], stackSel'[k])
    BY DEF StackInv
  <2>1. CASE k = G_menuCnt BY <1>2, <1>9, <2>1
  <2>2. CASE k # G_menuCnt
    <3>1. k < G_menuCnt BY <1>6, <2>2 DEF Level
    <3> QED BY <1>1, <1>9, <2>2, <3>1 DEF StackInv
  <2> QED BY <2>1, <2>2
<1>11. PathIsStacked'
  <2> SUFFICES ASSUME NEW k \in 0..G_menuCnt'
               PROVE  \/ MenuAt(k)' = main_m \/ k = MAX_MENU_DEPTH - 1
                      \/ k > 0 /\ LeadsTo(k - 1, MenuAt(k))'
    BY DEF PathIsStacked
  <2>1. CASE k = G_menuCnt + 1
    <3>1. MenuAt(k)' = below BY <1>5, <1>6, <2>1 DEF MenuAt
    <3>2. k - 1 = G_menuCnt /\ k > 0 BY <1>6, <2>1
    <3>3. LeadsTo(k - 1, MenuAt(k))' BY <1>3, <1>9, <3>1, <3>2 DEF LeadsTo, below
    <3> QED BY <3>2, <3>3
  <2>2. CASE k # G_menuCnt + 1 /\ k = G_menuCnt'
    BY <1>6, <2>2
  <2>3. CASE k # G_menuCnt + 1 /\ k # G_menuCnt'
    <3>1. k \in Level /\ k <= G_menuCnt /\ (k > 0 => k - 1 \in Level /\ k - 1 # G_menuCnt)
      BY <1>6, <2>3 DEF Level
    <3>2. MenuAt(k)' = MenuAt(k) BY <1>9, <2>3, <3>1 DEF MenuAt
    <3>3. k > 0 => (LeadsTo(k - 1, MenuAt(k))' <=> LeadsTo(k - 1, MenuAt(k)))
      BY <1>9, <3>1, <3>2 DEF LeadsTo
    <3>4. k \in 0..G_menuCnt BY <1>6, <3>1
    <3> QED BY <1>1, <3>2, <3>3, <3>4 DEF PathIsStacked
  <2> QED BY <2>1, <2>2, <2>3
<1>12. SettingInv' BY <1>5 DEF SettingInv
<1> QED BY <1>7, <1>8, <1>10, <1>11, <1>12 DEF IInv

(* BACK, and a setting that closes its list, go up.                        *)
LEMMA UpIInv == IInv /\ (PressBack \/ closeMenuAndReturn) => IInv'
<1> SUFFICES ASSUME IInv, PressBack \/ closeMenuAndReturn PROVE IInv' OBVIOUS
<1>1. clearShown \in BOOLEAN /\ new_message' \in BOOLEAN
  BY DEF IInv, Ranges, PressBack, closeMenuAndReturn, msgVars
<1>2. CASE PressBack
  <2>1. clearShown' \in BOOLEAN BY <1>1, <1>2 DEF PressBack, Display
  <2>2. /\ G_currMenu' = stackMenu[G_menuCnt - 1]
        /\ G_selectedMenu' = Selection(stackMenu[G_menuCnt - 1], stackSel[G_menuCnt - 1])
        /\ runningApp' = "none" /\ G_menuCnt > 0 /\ G_menuCnt' = G_menuCnt - 1
        /\ UNCHANGED <<stackMenu, stackSel, msgVars>>
    BY <1>2 DEF PressBack, Pressed, Idle, Display
  <2> QED BY <2>1, <2>2, Up
<1>3. CASE closeMenuAndReturn
  <2>1. clearShown' \in BOOLEAN BY <1>1, <1>3 DEF closeMenuAndReturn
  <2>2. /\ G_currMenu' = stackMenu[G_menuCnt - 1]
        /\ G_selectedMenu' = Selection(stackMenu[G_menuCnt - 1], stackSel[G_menuCnt - 1])
        /\ runningApp' = "none" /\ G_menuCnt > 0 /\ G_menuCnt' = G_menuCnt - 1
        /\ UNCHANGED <<stackMenu, stackSel, msgVars>>
    BY <1>3 DEF closeMenuAndReturn
  <2> QED BY <2>1, <2>2, Up
<1> QED BY <1>2, <1>3

(* A tap upwards stops at an item that is not passed, or at the first.     *)
LEMMA TopTapIInv == IInv /\ TopTap => IInv'
<1> SUFFICES ASSUME IInv, TopTap PROVE IInv' OBVIOUS
<1> DEFINE above == {k \in 1..(G_selectedMenu - 1) : ~Passed(G_currMenu, k)}
           stop == IF above = {} THEN 1 ELSE Max(above)
<1>1. OnItem(G_currMenu, G_selectedMenu) BY DEF IInv, CursorInv
<1>2. G_currMenu \in Menus /\ G_selectedMenu \in 1..End(G_currMenu) /\ End(G_currMenu) \in Nat
  BY <1>1, MenuShape DEF OnItem
<1>3. stop \in 0..End(G_currMenu)
  <2>1. CASE above = {} BY <1>2, <2>1
  <2>2. CASE above # {}
    <3>1. above \in SUBSET (1..(G_selectedMenu - 1)) /\ G_selectedMenu - 1 \in Nat BY <1>2
    <3>2. Max(above) \in 1..(G_selectedMenu - 1) BY <2>2, <3>1, MaxIsGreatest
    <3> QED BY <1>2, <2>2, <3>2
  <2> QED BY <2>1, <2>2
<1>4. Display(G_currMenu, stop) BY DEF TopTap
<1> HIDE DEF stop
<1>5. UNCHANGED <<stackVars, runningApp, msgVars>> /\ runningApp = "none" BY DEF TopTap, Idle
<1>6. redraw_main_menu' \in BOOLEAN /\ new_message' \in BOOLEAN /\ runningApp' = "none"
  BY <1>5 DEF IInv, Ranges, msgVars
<1> QED BY <1>3, <1>4, <1>5, <1>6, SameMenu

(* A tap downwards stops at the end of the menu at the latest: behind it   *)
(* lies only a hidden last item, which the code backs off.                 *)
LEMMA BottomTapIInv == IInv /\ BottomTap => IInv'
<1> SUFFICES ASSUME IInv, BottomTap PROVE IInv' OBVIOUS
<1> DEFINE m == G_currMenu
           sel == G_selectedMenu
           e == End(m)
           n == Len(Items[m])
           stops == {k \in (sel + 1)..n : ~Passed(m, k) \/ IsLast(m, k)}
           stop == Min(stops)
           target == IF IsLast(m, stop) /\ Hidden(m, stop) THEN stop - 1 ELSE stop
<1>1. OnItem(m, sel) /\ clearShown \in BOOLEAN BY DEF IInv, CursorInv, Ranges
<1>2. m \in Menus /\ sel \in 1..e BY <1>1 DEF OnItem
<1>3. n \in Nat /\ e \in 1..n /\ IsEnd(m, e) BY <1>2, MenuShape
<1>4. ~Items[m][e].skip BY <1>1, <1>2, EndShape
<1>5. Display(m, target) /\ ~IsLast(m, sel) BY DEF BottomTap
<1>6. UNCHANGED <<stackVars, runningApp, msgVars>> /\ runningApp = "none" BY DEF BottomTap, Idle
<1> HIDE DEF m, sel, e, n
<1>7. stops \in SUBSET Nat BY <1>2, <1>3
<1>8. target \in 0..e
  <2>1. CASE sel # e
    <3>1. e \in (sel + 1)..n BY <1>2, <1>3, <2>1
    <3>2. ~Passed(m, e) \/ IsLast(m, e)
      BY <1>1, <1>3, <1>4 DEF IsEnd, Passed, Hidden, IsLast, IsClear
    <3>3. e \in stops BY <3>1, <3>2
    <3>4. stop \in stops /\ stop <= e BY <1>7, <3>3, MinIsLeast
    <3>5. stop \in 2..e BY <1>2, <1>3, <3>4
    <3> HIDE DEF stop
    <3> QED BY <1>3, <3>5
  <2>2. CASE sel = e
    <3>1. m = main_m BY <1>5, <2>2, <1>3 DEF IsEnd, IsLast, IsClear
    <3>2. n = e + 1 /\ IsLast(m, e + 1) /\ Hidden(m, e + 1)
      BY <1>3, <3>1 DEF IsEnd, IsLast, Hidden, IsClear, n
    <3>3. stops = {e + 1} BY <1>2, <1>3, <2>2, <3>2
    <3>4. stop = e + 1 BY <1>7, <3>3, MinIsLeast
    <3> HIDE DEF stop
    <3> QED BY <1>3, <3>2, <3>4
  <2> QED BY <2>1, <2>2
<1> HIDE DEF target
<1>9. redraw_main_menu' \in BOOLEAN /\ new_message' \in BOOLEAN /\ runningApp' = "none"
  BY <1>6 DEF IInv, Ranges, msgVars
<1> QED BY <1>5, <1>6, <1>8, <1>9, SameMenu DEF m, e

(* Starting an application, and its end, draw the same menu.               *)
LEMMA AppIInv == IInv /\ (PressFunction \/ returnToMenus \/ clear_msg_cb) => IInv'
<1> SUFFICES ASSUME IInv, PressFunction \/ returnToMenus \/ clear_msg_cb PROVE IInv' OBVIOUS
<1>1. OnItem(G_currMenu, G_selectedMenu) /\ Ranges BY DEF IInv, CursorInv
<1>2. /\ G_currMenu \in Menus /\ G_selectedMenu \in 0..End(G_currMenu) /\ 0 \in 0..End(G_currMenu)
      /\ Items[G_currMenu][G_selectedMenu].app \in {"none", "app", "setting", "clear"}
      /\ Items[G_currMenu][G_selectedMenu].app = "setting" => G_currMenu # main_m
  BY <1>1, ItemTyped, MenuShape
<1>3. CASE PressFunction
  <2>1. /\ runningApp' = Items[G_currMenu][G_selectedMenu].app
        /\ UNCHANGED <<stackVars, msgVars>> /\ Display(G_currMenu, G_selectedMenu)
    BY <1>3 DEF PressFunction
  <2>2. redraw_main_menu' \in BOOLEAN /\ new_message' \in BOOLEAN BY <1>1, <2>1 DEF Ranges, msgVars
  <2> QED BY <1>2, <2>1, <2>2, SameMenu
<1>4. CASE returnToMenus
  <2>1. runningApp' = "none" /\ UNCHANGED <<stackVars, msgVars>> /\ Display(G_currMenu, G_selectedMenu)
    BY <1>4 DEF returnToMenus
  <2>2. redraw_main_menu' \in BOOLEAN /\ new_message' \in BOOLEAN BY <1>1, <2>1 DEF Ranges, msgVars
  <2> QED BY <1>2, <2>1, <2>2, SameMenu
<1>5. CASE clear_msg_cb
  <2>1. runningApp' = "none" /\ UNCHANGED stackVars /\ Display(G_currMenu, 0)
    BY <1>5 DEF clear_msg_cb
  <2>2. redraw_main_menu' \in BOOLEAN /\ new_message' \in BOOLEAN BY <1>1, <1>5 DEF Ranges, clear_msg_cb
  <2> QED BY <1>2, <2>1, <2>2, SameMenu
<1> QED BY <1>3, <1>4, <1>5

(* The IR handler and the relay touch neither the stack nor the cursor.    *)
LEMMA MessageIInv == IInv /\ (ir_livetext \/ RelayRound) => IInv'
<1> SUFFICES ASSUME IInv, ir_livetext \/ RelayRound PROVE IInv' OBVIOUS
<1>1. Ranges /\ CursorInv /\ StackInv /\ PathIsStacked /\ SettingInv BY DEF IInv
<1>2. /\ UNCHANGED <<stackVars, cursorVars, runningApp, clearShown>>
      /\ redraw_main_menu' \in BOOLEAN /\ new_message' \in BOOLEAN
  BY <1>1 DEF ir_livetext, RelayRound, Ranges
<1>3. G_currMenu' = G_currMenu BY <1>2 DEF cursorVars
<1>4. Ranges' BY <1>1, <1>2 DEF Ranges, stackVars, Level
<1>5. CursorInv' BY <1>1, <1>2, CursorKept
<1>6. StackInv' BY <1>1, <1>2, StackKept
<1>7. PathIsStacked' BY <1>1, <1>2, <1>3, PathKept
<1>8. SettingInv' BY <1>1, <1>2, <1>3 DEF SettingInv
<1> QED BY <1>4, <1>5, <1>6, <1>7, <1>8 DEF IInv

-----------------------------------------------------------------------------
(* The theorems.                                                           *)

(* The invariant holds in every reachable state.                           *)
THEOREM MenuInvariant == Spec => []IInv
<1>1. Init => IInv BY InitIInv
<1>2. IInv /\ [Next]_vars => IInv'
  <2> SUFFICES ASSUME IInv, [Next]_vars PROVE IInv' OBVIOUS
  <2>1. CASE Redraw BY <2>1, RedrawIInv
  <2>2. CASE Press BY <2>2, PressMenuIInv, UpIInv, AppIInv DEF Press
  <2>3. CASE Tap BY <2>3, TopTapIInv, BottomTapIInv DEF Tap
  <2>4. CASE AppEnds BY <2>4, AppIInv, UpIInv DEF AppEnds
  <2>5. CASE ir_livetext \/ RelayRound BY <2>5, MessageIInv
  <2>6. CASE UNCHANGED vars
    <3>1. /\ UNCHANGED stackVars /\ UNCHANGED cursorVars /\ UNCHANGED runningApp
          /\ UNCHANGED clearShown /\ UNCHANGED msgVars /\ G_currMenu' = G_currMenu
      BY <2>6 DEF vars, cursorVars
    <3>2. Ranges' /\ SettingInv' BY <3>1 DEF IInv, Ranges, SettingInv, stackVars, msgVars, Level
    <3> QED BY <3>1, <3>2, CursorKept, StackKept, PathKept DEF IInv
  <2> QED BY <2>1, <2>2, <2>3, <2>4, <2>5, <2>6 DEF Next
<1> QED BY <1>1, <1>2, PTL DEF Spec

(* The stack index stays inside the stack and the cursor inside its menu   *)
(* (menus(), menu.c:1099-1195), for every tree and every depth.            *)
THEOREM MenuTypeCorrect == Spec => []TypeOK
<1>1. IInv => TypeOK
  <2> SUFFICES ASSUME IInv PROVE TypeOK OBVIOUS
  <2>1. OnItem(G_currMenu, G_selectedMenu) /\ Ranges BY DEF IInv, CursorInv
  <2>2. G_currMenu \in Menus /\ G_selectedMenu \in 1..Len(Items[G_currMenu]) BY <2>1, ItemTyped
  <2> QED BY <2>1, <2>2 DEF Ranges, TypeOK
<1> QED BY <1>1, MenuInvariant, PTL

(* The cursor never rests on an item that is to be skipped (menu.c:898,    *)
(* 1168, 1186), however the forced redraw and the item that comes and goes *)
(* interfere.                                                              *)
THEOREM CursorSelectable == Spec => []CursorIsSelectable
<1>1. IInv => CursorIsSelectable BY DEF IInv, CursorInv, OnItem, CursorIsSelectable
<1> QED BY <1>1, MenuInvariant, PTL

(* Below every menu on the path lies the item it was entered by, or the    *)
(* menu is the main one (menu.c:1099, 1124, 1137).                         *)
THEOREM PathStacked == Spec => []PathIsStacked
<1>1. IInv => PathIsStacked BY DEF IInv
<1> QED BY <1>1, MenuInvariant, PTL

(* The callback of a setting finds a menu to return to (menu.c:1032), so   *)
(* the badge never stays in it.                                            *)
THEOREM SettingReturns == Spec => []SettingCanReturn
<1>1. IInv => SettingCanReturn
  <2> SUFFICES ASSUME IInv, runningApp = "setting" PROVE G_menuCnt > 0 BY DEF SettingCanReturn
  <2>1. G_menuCnt \in Nat /\ MAX_MENU_DEPTH \in Nat /\ MAX_MENU_DEPTH > 1
    BY DepthAssumption DEF IInv, Ranges, Level
  <2>2. G_currMenu # main_m BY DEF IInv, SettingInv
  <2>3. MenuAt(G_menuCnt) = G_currMenu /\ G_menuCnt \in 0..G_menuCnt BY <2>1 DEF MenuAt
  <2> QED BY <2>1, <2>2, <2>3 DEF IInv, PathIsStacked
<1> QED BY <1>1, MenuInvariant, PTL
=============================================================================
