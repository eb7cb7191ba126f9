----------------------------- MODULE AppsProofs -----------------------------
(***************************************************************************)
(* The safety properties of Apps for every text, alphabet and light.  The  *)
(* inductive invariant has four parts: genericMenu shows a menu of the     *)
(* running application (MenuInv), the ranges of the applications           *)
(* (AppsInv), where the terminator of the text is (TextInv), and what a    *)
(* page of the capture-the-flag game says of the level and of the console  *)
(* (CtfInv).                                                               *)
(***************************************************************************)
EXTENDS Apps, LeastTheorems

-----------------------------------------------------------------------------
(* The menus of the applications.                                          *)

\* The menus of the game with two items.
Short == {"ctf_menu", "ctf_menu2", "ctf_menu3", "ctf_menu4", "ctf_menu5", "ctf_menu6",
          "ctf_menu8", "ctf_menu10"}
Menus == {"lander_main_m", "lander_help_m", "messenger_m", "ctf_menu7", "ctf_menu9"} \cup Short
Roots == Menus \ {"lander_help_m"}

(* Every menu of the applications.                                         *)
LEMMA MenuNames == DOMAIN AppMenu = Menus
BY DEF AppMenu, Menus, Short

\* An item with a function.
Choice(item) == item.type = "FUNCTION" /\ ~item.skip

(* The items of the menus, one lemma for each kind.                        *)
LEMMA LanderItems ==
  LET m == AppMenu["lander_main_m"]
  IN  /\ Len(m) = 3 /\ DOMAIN m = 1..3
      /\ m[1] = Default("INIT") /\ m[2] = Submenu("lander_help_m") /\ m[3] = Quit
BY DEF AppMenu

(* The lander's help: ten lines of text and BACK.                          *)
LEMMA HelpItems ==
  LET m == AppMenu["lander_help_m"]
  IN  /\ Len(m) = 11 /\ DOMAIN m = 1..11
      /\ \A k \in 1..10 : m[k] = Text
      /\ m[11] = Item("BACK", "nowhere", FALSE, TRUE)
BY DEF AppMenu

(* The messenger's menu: seven lines of text and five functions.           *)
LEMMA MessengerItems ==
  LET m == AppMenu["messenger_m"]
  IN  /\ Len(m) = 12 /\ DOMAIN m = 1..12
      /\ \A k \in 1..7 : m[k] = Text
      /\ m[8] = Default("MSG_SENDING") /\ m[9] = Function("MSG_CONFIG_MSG_TEXT")
      /\ m[10] = Function("clear") /\ m[11] = Function("MSG_CONFIG_RELAY_AMOUNT")
      /\ m[12] = Quit
BY DEF AppMenu

(* The levels with one page, and the page.                                 *)
LEMMA ShortItems ==
  /\ \A m \in Short : Len(AppMenu[m]) = 2 /\ DOMAIN AppMenu[m] = 1..2 /\ AppMenu[m][2] = Quit
  /\ AppMenu["ctf_menu"][1] = Default("HELLO_WORLD")
  /\ AppMenu["ctf_menu2"][1] = Default("MYSTORY")
  /\ AppMenu["ctf_menu3"][1] = Function("GROUNDED")
  /\ AppMenu["ctf_menu4"][1] = Default("LIGHT_ME")
  /\ AppMenu["ctf_menu5"][1] = Default("SERIALKILLER")
  /\ AppMenu["ctf_menu6"][1] = Default("EYECOLOR")
  /\ AppMenu["ctf_menu8"][1] = Default("BITBANGING")
  /\ AppMenu["ctf_menu10"][1] = Default("SUCCESS")
BY DEF AppMenu, Short, Stage

(* The levels with two pages.                                              *)
LEMMA LongItems ==
  /\ \A m \in {"ctf_menu7", "ctf_menu9"} :
        Len(AppMenu[m]) = 3 /\ DOMAIN AppMenu[m] = 1..3 /\ AppMenu[m][3] = Quit
  /\ AppMenu["ctf_menu7"][1] = Default("EYECOLOR_DIGIT1")
  /\ AppMenu["ctf_menu7"][2] = Function("EYECOLOR_SERIAL")
  /\ AppMenu["ctf_menu9"][1] = Default("BITBANGING_TEST")
  /\ AppMenu["ctf_menu9"][2] = Function("BITBANGING_CHALLENGE")
BY DEF AppMenu

(* The page of a level can be chosen.                                      *)
LEMMA ShortChoices == ASSUME NEW m \in Short PROVE Choice(AppMenu[m][1])
<1> DEFINE first(k) == AppMenu[k][1]
<1>1. \E d : first(m) = Default(d) \/ first(m) = Function(d) BY ShortItems DEF Short
<1> HIDE DEF first
<1>2. Choice(first(m)) BY <1>1 DEF Choice, Default, Function, Item
<1> QED BY <1>2 DEF first

\* What genericMenu and display_menu rely on: the last item and one to start
\* from are not skipped, and submenus are one level deep.
Sound(m) ==
  LET items == AppMenu[m] IN
  /\ Len(items) \in Nat /\ Len(items) > 0 /\ DOMAIN items = 1..Len(items)
  /\ ~items[Len(items)].skip
  /\ \A k \in 1..Len(items) : items[k].dflt => ~items[k].skip
  /\ ~items[1].skip \/ \E k \in 1..Len(items) : items[k].dflt
  /\ \A k \in 1..Len(items) :
       /\ items[k].type = "MENU" => m = "lander_main_m" /\ items[k].goes = "lander_help_m"
       /\ items[k].type = "BACK" => m = "lander_help_m"
       /\ items[k].type = "FUNCTION" => m \in Roots

(* Every menu is sound.                                                    *)
LEMMA MenuSound == ASSUME NEW m \in Menus PROVE Sound(m)
<1> DEFINE items == AppMenu[m]
<1>1. CASE m = "lander_main_m"
  <2>1. \A k \in 1..3 : k = 1 \/ k = 2 \/ k = 3 OBVIOUS
  <2>2. Len(items) = 3 /\ DOMAIN items = 1..3 BY <1>1, LanderItems
  <2>3. items[1] = Default("INIT") /\ items[2] = Submenu("lander_help_m") /\ items[3] = Quit
    BY <1>1, LanderItems
  <2>4. m \in Roots BY <1>1 DEF Roots, Menus
  <2> HIDE DEF items
  <2>5. \A k \in 1..3 : ~items[k].skip
    BY <2>1, <2>3 DEF Default, Submenu, Quit, Function, Item
  <2>6. \A k \in 1..3 : items[k].type # "BACK"
    BY <2>1, <2>3 DEF Default, Submenu, Quit, Function, Item
  <2>7. \A k \in 1..3 : items[k].type = "MENU" => items[k].goes = "lander_help_m"
    BY <2>1, <2>3 DEF Default, Submenu, Quit, Function, Item
  <2> QED BY <1>1, <2>2, <2>4, <2>5, <2>6, <2>7 DEF Sound, items
<1>2. CASE m = "lander_help_m"
  <2>1. Len(items) = 11 /\ DOMAIN items = 1..11 BY <1>2, HelpItems
  <2>2. \A k \in 1..10 : items[k] = Text BY <1>2, HelpItems
  <2>3. items[11] = Item("BACK", "nowhere", FALSE, TRUE) BY <1>2, HelpItems
  <2> HIDE DEF items
  <2>4. items[11].dflt BY <2>3 DEF Item
  <2>4a. ~items[11].skip BY <2>3 DEF Item
  <2>4b. items[11].type = "BACK" BY <2>3 DEF Item
  <2>5. \A k \in 1..10 : ~items[k].dflt BY <2>2 DEF Text, Item
  <2>5a. \A k \in 1..10 : items[k].type = "TEXT" BY <2>2 DEF Text, Item
  <2>6. \A k \in 1..11 : k \in 1..10 \/ k = 11 OBVIOUS
  <2> QED BY <1>2, <2>1, <2>4, <2>4a, <2>4b, <2>5, <2>5a, <2>6 DEF Sound, items
<1>3. CASE m = "messenger_m"
  <2>1. Len(items) = 12 /\ DOMAIN items = 1..12 BY <1>3, MessengerItems
  <2>2. \A k \in 1..7 : items[k] = Text BY <1>3, MessengerItems
  <2>3. \A k \in 8..12 : k = 8 \/ k = 9 \/ k = 10 \/ k = 11 \/ k = 12 OBVIOUS
  <2>4. \A k \in 8..12 : \E d : items[k] = Default(d) \/ items[k] = Function(d)
    BY <1>3, <2>3, MessengerItems DEF Quit
  <2>5. items[8] = Default("MSG_SENDING") BY <1>3, MessengerItems
  <2>6. m \in Roots BY <1>3 DEF Roots, Menus
  <2> HIDE DEF items
  <2>7. items[8].dflt BY <2>5 DEF Default, Item
  <2>8. \A k \in 8..12 : Choice(items[k])
    <3> SUFFICES ASSUME NEW k \in 8..12 PROVE Choice(items[k]) OBVIOUS
    <3>1. PICK d : items[k] = Default(d) \/ items[k] = Function(d) BY <2>4
    <3> QED BY <3>1 DEF Choice, Default, Function, Item
  <2>9. \A k \in 1..7 : ~items[k].dflt BY <2>2 DEF Text, Item
  <2>9a. \A k \in 1..7 : items[k].type = "TEXT" BY <2>2 DEF Text, Item
  <2>10. \A k \in 1..12 : k \in 1..7 \/ k \in 8..12 OBVIOUS
  <2> QED BY <2>1, <2>6, <2>7, <2>8, <2>9, <2>9a, <2>10 DEF Sound, Choice, items
<1>4. CASE m \in Short
  <2>1. \A k \in 1..2 : k = 1 \/ k = 2 OBVIOUS
  <2>2. Len(items) = 2 /\ DOMAIN items = 1..2 /\ items[2] = Quit BY <1>4, ShortItems
  <2>3. Choice(items[1]) BY <1>4, ShortChoices
  <2>4. m \in Roots BY <1>4 DEF Roots, Menus, Short
  <2> HIDE DEF items
  <2>5. Choice(items[2]) BY <2>2 DEF Choice, Quit, Function, Item
  <2> QED BY <2>1, <2>2, <2>3, <2>4, <2>5 DEF Sound, Choice, items
<1>5. CASE m \in {"ctf_menu7", "ctf_menu9"}
  <2>1. \A k \in 1..3 : k = 1 \/ k = 2 \/ k = 3 OBVIOUS
  <2>2. Len(items) = 3 /\ DOMAIN items = 1..3 /\ items[3] = Quit BY <1>5, LongItems
  <2>3. \E d : items[1] = Default(d) BY <1>5, LongItems
  <2>4. \E d : items[2] = Function(d) BY <1>5, LongItems
  <2>5. m \in Roots BY <1>5 DEF Roots, Menus
  <2> HIDE DEF items
  <2>6. \A k \in 1..3 : Choice(items[k])
    BY <2>1, <2>2, <2>3, <2>4 DEF Choice, Default, Quit, Function, Item
  <2> QED BY <2>2, <2>5, <2>6 DEF Sound, Choice, items
<1> QED BY <1>1, <1>2, <1>3, <1>4, <1>5 DEF Menus

(* The pages that the menu of a level opens.                               *)
Opened ==
  {<<1, "HELLO_WORLD">>, <<2, "MYSTORY">>, <<3, "GROUNDED">>, <<4, "LIGHT_ME">>,
   <<5, "SERIALKILLER">>, <<6, "EYECOLOR">>, <<7, "EYECOLOR_DIGIT1">>, <<7, "EYECOLOR_SERIAL">>,
   <<8, "BITBANGING">>, <<9, "BITBANGING_TEST">>, <<9, "BITBANGING_CHALLENGE">>, <<10, "SUCCESS">>}

\* Every item of m opens a page of level n or leaves.
LevelIs(n, m) ==
  \A k \in DOMAIN AppMenu[m] : AppMenu[m][k].goes # "quit" => <<n, AppMenu[m][k].goes>> \in Opened

\* The first item of m opens a page of level n.
Leads(n, m) ==
  \E d : <<n, d>> \in Opened /\ (AppMenu[m][1] = Default(d) \/ AppMenu[m][1] = Function(d))

(* A level with one page opens that page.                                  *)
LEMMA ShortOpens ==
  ASSUME NEW m \in Short, NEW n, NEW d, AppMenu[m][1] = Default(d) \/ AppMenu[m][1] = Function(d),
         <<n, d>> \in Opened
  PROVE  LevelIs(n, m)
<1> DEFINE items == AppMenu[m]
<1>1. DOMAIN items = 1..2 /\ items[2] = Quit BY ShortItems
<1>2. items[1] = Default(d) \/ items[1] = Function(d) OBVIOUS
<1>3. \A k \in 1..2 : k = 1 \/ k = 2 OBVIOUS
<1> HIDE DEF items
<1>4. items[1].goes = d /\ items[2].goes = "quit"
  BY <1>1, <1>2 DEF Default, Quit, Function, Item
<1> QED BY <1>1, <1>3, <1>4 DEF LevelIs, items

(* A level with two pages opens these.                                     *)
LEMMA LongOpens ==
  ASSUME NEW m \in {"ctf_menu7", "ctf_menu9"}, NEW n, NEW d, NEW e,
         AppMenu[m][1] = Default(d), AppMenu[m][2] = Function(e),
         <<n, d>> \in Opened, <<n, e>> \in Opened
  PROVE  LevelIs(n, m)
<1> DEFINE items == AppMenu[m]
<1>1. DOMAIN items = 1..3 /\ items[3] = Quit BY LongItems
<1>2. items[1] = Default(d) /\ items[2] = Function(e) OBVIOUS
<1>3. \A k \in 1..3 : k = 1 \/ k = 2 \/ k = 3 OBVIOUS
<1> HIDE DEF items
<1>4. items[1].goes = d /\ items[2].goes = e /\ items[3].goes = "quit"
  BY <1>1, <1>2 DEF Default, Quit, Function, Item
<1> QED BY <1>1, <1>3, <1>4 DEF LevelIs, items

(* The menu of each level.                                                 *)
LEMMA LevelMenus ==
  /\ CtfMenu[1] = "ctf_menu"
  /\ CtfMenu[2] = "ctf_menu2"
  /\ CtfMenu[3] = "ctf_menu3"
  /\ CtfMenu[4] = "ctf_menu4"
  /\ CtfMenu[5] = "ctf_menu5"
  /\ CtfMenu[6] = "ctf_menu6"
  /\ CtfMenu[7] = "ctf_menu7"
  /\ CtfMenu[8] = "ctf_menu8"
  /\ CtfMenu[9] = "ctf_menu9"
  /\ CtfMenu[10] = "ctf_menu10"
BY DEF CtfMenu

(* The menu of a level opens pages of the level only.                      *)
LEMMA LevelItems ==
  ASSUME NEW n \in 1..10
  PROVE  CtfMenu[n] \in Roots \ {"lander_main_m", "messenger_m"} /\ LevelIs(n, CtfMenu[n])
<1> DEFINE m == CtfMenu[n]
<1>0. m \in Roots \ {"lander_main_m", "messenger_m"}
  BY LevelMenus DEF Short, Roots, Menus
<1>1. CASE n = 1
  <2>1. m = "ctf_menu" BY <1>1, LevelMenus
  <2>2. Leads(n, m) BY <1>1, <2>1, ShortItems DEF Leads, Opened
  <2> QED BY <1>0, <2>1, <2>2, ShortOpens DEF Short, Leads
<1>2. CASE n = 2
  <2>1. m = "ctf_menu2" BY <1>2, LevelMenus
  <2>2. Leads(n, m) BY <1>2, <2>1, ShortItems DEF Leads, Opened
  <2> QED BY <1>0, <2>1, <2>2, ShortOpens DEF Short, Leads
<1>3. CASE n = 3
  <2>1. m = "ctf_menu3" BY <1>3, LevelMenus
  <2>2. Leads(n, m) BY <1>3, <2>1, ShortItems DEF Leads, Opened
  <2> QED BY <1>0, <2>1, <2>2, ShortOpens DEF Short, Leads
<1>4. CASE n = 4
  <2>1. m = "ctf_menu4" BY <1>4, LevelMenus
  <2>2. Leads(n, m) BY <1>4, <2>1, ShortItems DEF Leads, Opened
  <2> QED BY <1>0, <2>1, <2>2, ShortOpens DEF Short, Leads
<1>5. CASE n = 5
  <2>1. m = "ctf_menu5" BY <1>5, LevelMenus
  <2>2. Leads(n, m) BY <1>5, <2>1, ShortItems DEF Leads, Opened
  <2> QED BY <1>0, <2>1, <2>2, ShortOpens DEF Short, Leads
<1>6. CASE n = 6
  <2>1. m = "ctf_menu6" BY <1>6, LevelMenus
  <2>2. Leads(n, m) BY <1>6, <2>1, ShortItems DEF Leads, Opened
  <2> QED BY <1>0, <2>1, <2>2, ShortOpens DEF Short, Leads
<1>7. CASE n = 7
  <2>1. m = "ctf_menu7" BY <1>7, LevelMenus
  <2>2. m \in {"ctf_menu7", "ctf_menu9"} BY <2>1
  <2>3. AppMenu[m][1] = Default("EYECOLOR_DIGIT1") /\ AppMenu[m][2] = Function("EYECOLOR_SERIAL")
    BY <2>1, LongItems
  <2>4. <<n, "EYECOLOR_DIGIT1">> \in Opened /\ <<n, "EYECOLOR_SERIAL">> \in Opened
    BY <1>7 DEF Opened
  <2> QED BY <1>0, <2>2, <2>3, <2>4, LongOpens
<1>8. CASE n = 8
  <2>1. m = "ctf_menu8" BY <1>8, LevelMenus
  <2>2. Leads(n, m) BY <1>8, <2>1, ShortItems DEF Leads, Opened
  <2> QED BY <1>0, <2>1, <2>2, ShortOpens DEF Short, Leads
<1>9. CASE n = 9
  <2>1. m = "ctf_menu9" BY <1>9, LevelMenus
  <2>2. m \in {"ctf_menu7", "ctf_menu9"} BY <2>1
  <2>3. AppMenu[m][1] = Default("BITBANGING_TEST") /\ AppMenu[m][2] = Function("BITBANGING_CHALLENGE")
    BY <2>1, LongItems
  <2>4. <<n, "BITBANGING_TEST">> \in Opened /\ <<n, "BITBANGING_CHALLENGE">> \in Opened
    BY <1>9 DEF Opened
  <2> QED BY <1>0, <2>2, <2>3, <2>4, LongOpens
<1>10. CASE n = 10
  <2>1. m = "ctf_menu10" BY <1>10, LevelMenus
  <2>2. Leads(n, m) BY <1>10, <2>1, ShortItems DEF Leads, Opened
  <2> QED BY <1>0, <2>1, <2>2, ShortOpens DEF Short, Leads
<1> QED BY <1>0, <1>1, <1>2, <1>3, <1>4, <1>5, <1>6, <1>7, <1>8, <1>9, <1>10

-----------------------------------------------------------------------------
(* genericMenu.                                                            *)

\* A state of genericMenu that was opened with menu root.
MenuAt(root) ==
  /\ L_menuStack \in [0..(STACK_SIZE - 1) -> Menus \cup {NoMenu}]
  /\ IF L_currMenu = NoMenu THEN L_selectedMenu = 0 /\ L_menuCnt = 0
     ELSE /\ L_menuStack[0] = root /\ root \in Roots
          /\ \/ L_menuCnt = 0 /\ L_currMenu = root
             \/ L_menuCnt = 1 /\ root = "lander_main_m" /\ L_currMenu = "lander_help_m"
          /\ L_selectedMenu \in 1..Len(AppMenu[L_currMenu])
          /\ ~AppMenu[L_currMenu][L_selectedMenu].skip

(* NoMenu is not the name of a menu.                                       *)
LEMMA NoMenuIsNone == NoMenu \notin Menus
BY MenuNames, NoMenuAssumption

(* display_menu selects an item of the menu that is not skipped.           *)
LEMMA SelectedStops ==
  ASSUME NEW m \in Menus, NEW s \in 0..Len(AppMenu[m])
  PROVE  /\ Selected(m, s) \in 1..Len(AppMenu[m])
         /\ ~AppMenu[m][Selected(m, s)].skip
<1> DEFINE items == AppMenu[m]
           n == Len(items)
           defaults == {k \in DOMAIN items : items[k].dflt}
           rest == {k \in s..n : ~items[k].skip}
<1>1. /\ n \in Nat /\ n > 0 /\ DOMAIN items = 1..n
      /\ ~items[n].skip
      /\ \A k \in 1..n : items[k].dflt => ~items[k].skip
      /\ ~items[1].skip \/ \E k \in 1..n : items[k].dflt
  BY MenuSound DEF Sound
<1>2. Selected(m, s) = IF s # 0 THEN Min(rest) ELSE IF defaults = {} THEN 1 ELSE Min(defaults)
  BY DEF Selected
<1>0. s \in 0..n OBVIOUS
<1> HIDE DEF items, n
<1>3. CASE s # 0
  <2>1. n \in s..n BY <1>0, <1>1
  <2>2a. n \in rest /\ s..n \in SUBSET Nat BY <1>0, <1>1, <2>1
  <2>1a. rest \in SUBSET Nat /\ rest # {} BY <2>2a
  <2>2. Min(rest) \in rest BY <2>1a, MinIsLeast
  <2> QED BY <1>1, <1>2, <1>3, <2>2 DEF n, items
<1>4. CASE s = 0 /\ defaults # {}
  <2>1. defaults \in SUBSET Nat BY <1>1
  <2>2. Min(defaults) \in defaults
    <3>1. defaults # {} BY <1>4
    <3> HIDE DEF defaults
    <3> QED BY <2>1, <3>1, MinIsLeast
  <2>3. Selected(m, s) = Min(defaults) BY <1>2, <1>4
  <2> QED BY <1>1, <2>2, <2>3 DEF n, items
<1>5. CASE s = 0 /\ defaults = {}
  <2>1. ~items[1].skip BY <1>1, <1>5
  <2>2. Selected(m, s) = 1 BY <1>2, <1>5
  <2> QED BY <1>1, <2>1, <2>2 DEF n, items
<1> QED BY <1>3, <1>4, <1>5

(* display_menu shows the menu asked for, at an item that is not skipped.  *)
LEMMA ShowStops ==
  ASSUME NEW m \in Menus, NEW s \in 0..Len(AppMenu[m]), ShowMenu(m, s)
  PROVE  /\ L_currMenu' = m
         /\ L_selectedMenu' \in 1..Len(AppMenu[m])
         /\ ~AppMenu[m][L_selectedMenu'].skip
BY SelectedStops DEF ShowMenu

(* A call of genericMenu that runs no function keeps the stack, the cursor *)
(* and the menu in order.                                                  *)
LEMMA GenericMenuStep ==
  ASSUME NEW root \in Roots, MenuAt(root), genericMenu(root)
  PROVE  MenuAt(root)'
<1>1. root \in Menus /\ "lander_help_m" \in Menus /\ "lander_main_m" \in Menus
  BY DEF Roots, Menus
<1>2. L_menuStack \in [0..(STACK_SIZE - 1) -> Menus \cup {NoMenu}] /\ 0 \in 0..(STACK_SIZE - 1)
  BY DEF MenuAt, STACK_SIZE
<1>3. CASE L_currMenu = NoMenu /\ OpenMenu(root)
  <2>1. 0 \in 0..Len(AppMenu[root]) BY <1>1, MenuSound DEF Sound
  <2>2. /\ L_currMenu' = root /\ L_selectedMenu' \in 1..Len(AppMenu[root])
        /\ ~AppMenu[root][L_selectedMenu'].skip
    BY <1>1, <1>3, <2>1, ShowStops DEF OpenMenu
  <2>3. L_menuStack' = [L_menuStack EXCEPT ![0] = root] /\ L_menuCnt' = 0
    BY <1>3 DEF OpenMenu
  <2>4. L_menuStack' \in [0..(STACK_SIZE - 1) -> Menus \cup {NoMenu}] /\ L_menuStack'[0] = root
    BY <1>1, <1>2, <2>3
  <2> QED BY <1>1, <2>2, <2>3, <2>4, NoMenuIsNone DEF MenuAt
<1>4. CASE L_currMenu # NoMenu
  <2>1. /\ L_menuStack[0] = root
        /\ \/ L_menuCnt = 0 /\ L_currMenu = root
           \/ L_menuCnt = 1 /\ root = "lander_main_m" /\ L_currMenu = "lander_help_m"
        /\ L_selectedMenu \in 1..Len(AppMenu[L_currMenu])
    BY <1>4 DEF MenuAt
  <2>2. L_currMenu \in Menus BY <1>1, <2>1
  <2>3. Sound(L_currMenu) BY <2>2, MenuSound
  <2>4. L_selectedMenu \in DOMAIN AppMenu[L_currMenu] BY <2>1, <2>3 DEF Sound
  <2>5. ASSUME UNCHANGED <<L_menuCnt, L_menuStack>>, NEW s \in 0..Len(AppMenu[L_currMenu]),
               ShowMenu(L_currMenu, s)
        PROVE  MenuAt(root)'
    <3>1. /\ L_currMenu' = L_currMenu /\ L_selectedMenu' \in 1..Len(AppMenu[L_currMenu])
          /\ ~AppMenu[L_currMenu][L_selectedMenu'].skip
      BY <2>2, <2>5, ShowStops
    <3> QED BY <1>2, <1>4, <2>1, <2>5, <3>1 DEF MenuAt
  <2>6. CASE PressSubmenu
    <3>1. L_currMenu = "lander_main_m" /\ Selection.goes = "lander_help_m"
      BY <2>3, <2>4, <2>6 DEF PressSubmenu, Selection, Sound
    <3>2. root = "lander_main_m" /\ L_menuCnt = 0 BY <2>1, <3>1
    <3>3. 0 \in 0..Len(AppMenu["lander_help_m"]) BY <1>1, MenuSound DEF Sound
    <3>4. L_currMenu' = "lander_help_m" /\ L_selectedMenu' \in 1..Len(AppMenu["lander_help_m"])
          /\ ~AppMenu["lander_help_m"][L_selectedMenu'].skip
      BY <1>1, <2>6, <3>1, <3>3, ShowStops DEF PressSubmenu
    <3>5. L_menuStack' = [L_menuStack EXCEPT ![0] = L_currMenu]
      BY <2>6, <3>2 DEF PressSubmenu
    <3>6. L_menuCnt' = 1 BY <2>6, <3>2 DEF PressSubmenu, MAX_MENU_DEPTH
    <3>7. L_menuStack' \in [0..(STACK_SIZE - 1) -> Menus \cup {NoMenu}] /\ L_menuStack'[0] = root
      BY <1>2, <2>2, <3>1, <3>2, <3>5
    <3> QED BY <1>1, <3>2, <3>4, <3>6, <3>7, NoMenuIsNone DEF MenuAt
  <2>7. CASE PressReturn
    <3>1. L_menuCnt = 1 /\ root = "lander_main_m" BY <2>1, <2>7 DEF PressReturn
    <3>2. L_menuStack[L_menuCnt - 1] = root BY <2>1, <3>1
    <3>3. 1 \in 0..Len(AppMenu[root]) BY <1>1, MenuSound DEF Sound
    <3>4. L_currMenu' = root /\ L_selectedMenu' \in 1..Len(AppMenu[root])
          /\ ~AppMenu[root][L_selectedMenu'].skip
      BY <1>1, <2>7, <3>2, <3>3, ShowStops DEF PressReturn
    <3>5. L_menuCnt' = 0 /\ L_menuStack' = L_menuStack BY <2>7, <3>1 DEF PressReturn
    <3> QED BY <1>1, <1>2, <2>1, <3>4, <3>5, NoMenuIsNone DEF MenuAt
  <2>8. CASE MenuUp
    <3> DEFINE above == Stops(1, L_selectedMenu - 1)
    <3>1. above \in SUBSET (1..(L_selectedMenu - 1)) BY DEF Stops
    <3>2. ASSUME above # {} PROVE Max(above) \in 0..Len(AppMenu[L_currMenu])
      <4>1. Len(AppMenu[L_currMenu]) \in Nat /\ L_selectedMenu - 1 \in Nat
        BY <2>1, <2>3 DEF Sound
      <4> HIDE DEF above
      <4>2. Max(above) \in above BY <3>1, <3>2, <4>1, MaxIsGreatest
      <4>3. Max(above) \in 1..(L_selectedMenu - 1) BY <3>1, <4>2
      <4> QED BY <2>1, <4>1, <4>3
    <3>3. 1 \in 0..Len(AppMenu[L_currMenu]) BY <2>3 DEF Sound
    <3> QED BY <2>5, <2>8, <3>2, <3>3 DEF MenuUp
  <2>9. CASE MenuDown
    <3> DEFINE n == Len(AppMenu[L_currMenu])
               below == Stops(L_selectedMenu + 1, n)
    <3>1. n \in Nat /\ ~AppMenu[L_currMenu][n].skip BY <2>3 DEF Sound
    <3>2. L_selectedMenu < n /\ L_selectedMenu \in Nat BY <2>1, <2>9, <3>1 DEF MenuDown
    <3>3. below \in SUBSET (0..n) /\ below \in SUBSET Nat BY <3>1, <3>2 DEF Stops
    <3>4. n \in below
      <4>1. n \in (L_selectedMenu + 1)..n BY <3>1, <3>2
      <4>2. ~AppMenu[L_currMenu][n].skip BY <3>1
      <4> HIDE DEF n
      <4> QED BY <4>1, <4>2 DEF Stops
    <3> HIDE DEF below
    <3>5. Min(below) \in 0..n BY <3>3, <3>4, MinIsLeast
    <3> QED BY <2>5, <2>9, <3>5 DEF MenuDown, below
  <2> QED BY <1>4, <2>6, <2>7, <2>8, <2>9 DEF genericMenu
<1> QED BY <1>3, <1>4 DEF genericMenu

(* A call that runs a function closes the menu; the function belongs to an *)
(* item of the menu it was opened with.                                    *)
LEMMA GenericMenuRuns ==
  ASSUME NEW root, MenuAt(root), NEW f, genericMenuRuns(f)
  PROVE  /\ L_currMenu' = NoMenu /\ L_selectedMenu' = 0 /\ L_menuCnt' = 0
         /\ L_menuStack' \in [0..(STACK_SIZE - 1) -> Menus \cup {NoMenu}]
         /\ root \in Roots
         /\ \E k \in DOMAIN AppMenu[root] : AppMenu[root][k].goes = f
<1>1. /\ L_currMenu # NoMenu /\ Selection.type = "FUNCTION" /\ Selection.goes = f
      /\ L_currMenu' = NoMenu /\ L_selectedMenu' = 0 /\ L_menuCnt' = 0
      /\ L_menuStack' = [L_menuStack EXCEPT ![0] = NoMenu]
  BY DEF genericMenuRuns, PressFunction
<1>2. /\ L_menuStack \in [0..(STACK_SIZE - 1) -> Menus \cup {NoMenu}] /\ root \in Roots
      /\ L_currMenu \in {root, "lander_help_m"}
      /\ L_selectedMenu \in 1..Len(AppMenu[L_currMenu])
  BY <1>1 DEF MenuAt
<1>3. L_currMenu \in Menus BY <1>2 DEF Roots, Menus
<1>4. L_selectedMenu \in DOMAIN AppMenu[L_currMenu] /\ L_currMenu \in Roots
  BY <1>1, <1>2, <1>3, MenuSound DEF Sound, Selection
<1>5. L_currMenu = root BY <1>2, <1>4 DEF Roots
<1> QED BY <1>1, <1>2, <1>4, <1>5 DEF Selection

-----------------------------------------------------------------------------
(* The editor of the messenger.                                            *)

\* The characters of a text, and where its terminators are.
Alphabet == 0..LAST_CHAR \cup {MSG_NULL_TERM}
Nulls(text) == {c \in Cells : text[c] = MSG_NULL_TERM}

(* Either the last cell, which the cursor never reaches, is a terminator   *)
(* (the text was cleared), or the cursor is before the first one.          *)
TextInv ==
  /\ outgoing_message \in [Cells -> Alphabet]
  /\ char_under_edit \in 0..(MAX_MSG_LENGTH - 2)
  /\ \/ MAX_MSG_LENGTH - 1 \in Nulls(outgoing_message)
     \/ \A c \in Nulls(outgoing_message) : c > char_under_edit

(* Turning a character by one gives no terminator, and turning the         *)
(* terminator nothing that can be chosen.                                  *)
LEMMA TurnedChar ==
  ASSUME NEW char \in Alphabet, NEW top \in BOOLEAN, NEW bottom \in BOOLEAN
  PROVE  /\ Turned(char, top, bottom) \in Nat
         /\ char # MSG_NULL_TERM => Turned(char, top, bottom) # MSG_NULL_TERM
         /\ char = MSG_NULL_TERM => Turned(char, top, bottom) > LAST_CHAR
<1> DEFINE up == IF top THEN 1 ELSE 0
           down == IF bottom THEN 1 ELSE 0
           R == CHAR_RANGE
<1>1. R \in Nat /\ R > MSG_NULL_TERM + 1 /\ MSG_NULL_TERM > LAST_CHAR + 1
      /\ LAST_CHAR \in Nat /\ MSG_NULL_TERM \in Nat
  BY MessengerAssumption
<1>2. up \in {0, 1} /\ down \in {0, 1} OBVIOUS
<1>3. Turned(char, top, bottom) = (char + up + R - down) % R BY DEF Turned
<1> HIDE DEF up, down, R
<1>4. char \in 0..MSG_NULL_TERM /\ (char # MSG_NULL_TERM => char <= LAST_CHAR)
  BY <1>1 DEF Alphabet
<1>5. CASE char + up - down >= 0
  <2> DEFINE v == char + up - down
  <2>1. v \in 0..(R - 1) BY <1>1, <1>2, <1>4, <1>5
  <2>2. char + up + R - down = v + R BY <1>1, <1>2, <1>4
  <2>3. /\ char # MSG_NULL_TERM => v # MSG_NULL_TERM
        /\ char = MSG_NULL_TERM => v > LAST_CHAR
    BY <1>1, <1>2, <1>4
  <2> HIDE DEF v
  <2>4. (v + R) % R = v BY <1>1, <2>1
  <2> QED BY <1>3, <2>1, <2>2, <2>3, <2>4
<1>6. CASE char + up - down < 0
  <2>1. char + up + R - down = R - 1 /\ R - 1 \in 0..(R - 1) BY <1>1, <1>2, <1>4, <1>6
  <2>2. (R - 1) % R = R - 1 BY <1>1, <2>1
  <2> QED BY <1>1, <1>3, <2>1, <2>2
<1> QED BY <1>1, <1>2, <1>4, <1>5, <1>6

(* The cursor stays off the last cell and moves by one at most.            *)
LEMMA CursorMoves ==
  ASSUME char_under_edit \in 0..(MAX_MSG_LENGTH - 2), NEW right \in BOOLEAN, NEW left \in BOOLEAN
  PROVE  /\ Cursor(right, left) \in 0..(MAX_MSG_LENGTH - 2)
         /\ Cursor(right, left) <= char_under_edit + 1
BY MessengerAssumption DEF Cursor

(* What one pass of the editor may do to the text: it keeps every          *)
(* terminator but the one under the cursor, and adds none but behind that. *)
LEMMA EditedText ==
  ASSUME NEW text \in [Cells -> Alphabet], NEW cursor \in 0..(MAX_MSG_LENGTH - 2),
         NEW top \in BOOLEAN, NEW bottom \in BOOLEAN, NEW new,
         new = Edited([text EXCEPT ![cursor] = Turned(text[cursor], top, bottom)], cursor)
  PROVE  /\ new \in [Cells -> Alphabet]
         /\ new[cursor] \in 0..LAST_CHAR
         /\ \/ text[cursor] = MSG_NULL_TERM /\ Nulls(new) = (Nulls(text) \cup {cursor + 1}) \ {cursor}
            \/ Nulls(new) = Nulls(text) \ {cursor} /\ (text[cursor] = MSG_NULL_TERM => new[cursor] = 0)
<1> DEFINE t == Turned(text[cursor], top, bottom)
           turned == [text EXCEPT ![cursor] = t]
<1>0. new = Edited(turned, cursor) OBVIOUS
<1>1. /\ MAX_MSG_LENGTH \in Nat /\ MAX_MSG_LENGTH >= 2
      /\ LAST_CHAR \in Nat /\ MSG_NULL_TERM \in Nat /\ MSG_NULL_TERM > LAST_CHAR + 1
  BY MessengerAssumption
<1>2. cursor \in Cells /\ cursor + 1 \in Cells /\ cursor + 1 # cursor BY <1>1 DEF Cells
<1>3. text[cursor] \in Alphabet BY <1>2
<1>4. /\ t \in Nat
      /\ text[cursor] # MSG_NULL_TERM => t # MSG_NULL_TERM
      /\ text[cursor] = MSG_NULL_TERM => t > LAST_CHAR
  BY <1>3, TurnedChar
<1>5. turned = [text EXCEPT ![cursor] = t] OBVIOUS
<1>6. turned[cursor] = t /\ \A c \in Cells \ {cursor} : turned[c] = text[c]
  BY <1>2, <1>5
<1> HIDE DEF t, turned
<1>7. CASE t = MSG_NULL_TERM
  <2>1. new = [turned EXCEPT ![cursor] = LAST_CHAR, ![cursor + 1] = MSG_NULL_TERM]
    BY <1>0, <1>6, <1>7 DEF Edited
  <2>2. new = [c \in Cells |-> IF c = cursor + 1 THEN MSG_NULL_TERM
                               ELSE IF c = cursor THEN LAST_CHAR ELSE text[c]]
    BY <1>2, <1>5, <2>1
  <2>3. LAST_CHAR \in Alphabet /\ MSG_NULL_TERM \in Alphabet BY <1>1 DEF Alphabet
  <2>4. /\ new \in [Cells -> Alphabet]
        /\ new[cursor] = LAST_CHAR /\ new[cursor + 1] = MSG_NULL_TERM
        /\ \A c \in Cells \ {cursor, cursor + 1} : new[c] = text[c]
    BY <1>2, <2>2, <2>3
  <2>5. Nulls(new) = (Nulls(text) \cup {cursor + 1}) \ {cursor}
    <3>1. \A c \in Cells : new[c] = MSG_NULL_TERM <=> c = cursor + 1 \/ (c # cursor /\ text[c] = MSG_NULL_TERM)
      <4> SUFFICES ASSUME NEW c \in Cells
                   PROVE  new[c] = MSG_NULL_TERM <=> c = cursor + 1 \/ (c # cursor /\ text[c] = MSG_NULL_TERM)
        OBVIOUS
      <4>1. CASE c = cursor BY <1>1, <1>2, <2>4, <4>1
      <4>2. CASE c = cursor + 1 BY <1>2, <2>4, <4>2
      <4>3. CASE c \notin {cursor, cursor + 1} BY <2>4, <4>3
      <4> QED BY <4>1, <4>2, <4>3
    <3> QED BY <1>2, <3>1 DEF Nulls
  <2>6. text[cursor] = MSG_NULL_TERM BY <1>4, <1>7
  <2>7. new[cursor] \in 0..LAST_CHAR BY <1>1, <2>4
  <2> QED BY <2>4, <2>5, <2>6, <2>7
<1>8. CASE t # MSG_NULL_TERM
  <2> DEFINE x == IF t > LAST_CHAR THEN 0 ELSE t
  <2>1. new = [text EXCEPT ![cursor] = x]
    <3>1. CASE t > LAST_CHAR
      <4>1. new = [turned EXCEPT ![cursor] = 0] BY <1>0, <1>6, <1>8, <3>1 DEF Edited
      <4> QED BY <1>2, <1>5, <3>1, <4>1
    <3>2. CASE ~(t > LAST_CHAR)
      <4>1. new = turned BY <1>0, <1>6, <1>8, <3>2 DEF Edited
      <4> QED BY <1>5, <3>2, <4>1
    <3> QED BY <3>1, <3>2
  <2>2. x \in 0..LAST_CHAR BY <1>1, <1>4
  <2>3. text[cursor] = MSG_NULL_TERM => x = 0
    BY <1>4
  <2> HIDE DEF x
  <2>4. new \in [Cells -> Alphabet] BY <2>1, <2>2 DEF Alphabet
  <2>5. new[cursor] = x BY <1>2, <2>1
  <2>6. x # MSG_NULL_TERM BY <1>1, <2>2
  <2>7. Nulls(new) = Nulls(text) \ {cursor} BY <1>2, <2>1, <2>6 DEF Nulls
  <2> QED BY <2>2, <2>3, <2>4, <2>5, <2>7
<1> QED BY <1>7, <1>8

-----------------------------------------------------------------------------
(* The pages of the capture-the-flag game.                                 *)

\* The level of each page.
LevelOf ==
  [HELLO_WORLD |-> 1,
   MYSTORY |-> 2, MYSTORY_BP |-> 2, MYSTORY2 |-> 2, MYSTORY2_BP |-> 2, MYSTORY3 |-> 2, MYSTORY3_BP |-> 2,
   MYSTORY4 |-> 2, MYSTORY4_BP |-> 2, MYSTORY5 |-> 2, MYSTORY5_BP |-> 2, MYSTORY6 |-> 2, MYSTORY6_BP |-> 2,
   GROUNDED |-> 3, GROUNDED_BP |-> 3, GROUNDED2 |-> 3, GROUNDED_PASS |-> 3, GROUNDED_FAIL |-> 3,
   LIGHT_ME |-> 4, LIGHT_ME_BP |-> 4, LIGHT_ME2 |-> 4, LIGHT_ME_PASS |-> 4, LIGHT_ME_FAIL |-> 4,
   SERIALKILLER |-> 5, SERIALKILLER_BP |-> 5, SERIALKILLER2 |-> 5, SERIALKILLER2_BP |-> 5,
   EYECOLOR |-> 6, EYECOLOR_BP |-> 6, EYECOLOR2 |-> 6, EYECOLOR2_BP |-> 6, EYECOLOR3 |-> 6, EYECOLOR3_BP |-> 6,
   EYECOLOR_DIGIT1 |-> 7, EYECOLOR_DIGIT1_BP |-> 7, EYECOLOR_DIGIT2 |-> 7, EYECOLOR_DIGIT2_BP |-> 7,
   EYECOLOR_DIGIT3 |-> 7, EYECOLOR_DIGIT3_BP |-> 7,
   EYECOLOR_SERIAL |-> 7, EYECOLOR_SERIAL_BP |-> 7, EYECOLOR_SERIAL2 |-> 7, EYECOLOR_SERIAL2_BP |-> 7,
   BITBANGING |-> 8, BITBANGING_BP |-> 8, BITBANGING2 |-> 8, BITBANGING2_BP |-> 8,
   BITBANGING_TEST |-> 9, BITBANGING_TEST_BP |-> 9, BITBANGING_CHALLENGE |-> 9, BITBANGING_CHALLENGE_BP |-> 9,
   SUCCESS |-> 10, SUCCESS_BP |-> 10, SUCCESS2 |-> 10, SUCCESS2_BP |-> 10]
\* Pages of all levels.
FreePages == {"CTF_INIT", "MENU", "RETURN_TO_MENU"}
\* The pages of a challenge on the console.
ServerPages == {"SERIALKILLER2", "SERIALKILLER2_BP", "EYECOLOR_SERIAL2", "EYECOLOR_SERIAL2_BP",
                      "BITBANGING_TEST_BP", "BITBANGING_CHALLENGE_BP"}

\* What leaving page p for page q says of the level.
Passing(p, q) ==
  /\ q \in DOMAIN LevelOf \cup FreePages
  /\ p # "MENU"
  /\ q \in DOMAIN LevelOf => p \in DOMAIN LevelOf \ DOMAIN Reached /\ LevelOf[p] = LevelOf[q]

\* What leaving page p for page q says of the console.
Serving(p, q) ==
  /\ p \in DOMAIN Started \cup (ServerPages \ Stopped) => q \in ServerPages
  /\ q = "SERIALKILLER2" => p \in DOMAIN Started /\ Started[p] = "LOGIN"
  /\ q = "EYECOLOR_SERIAL2" => p \in DOMAIN Started /\ Started[p] = "EYECOLOR_SER"
  /\ q = "BITBANGING_CHALLENGE_BP" => p \in DOMAIN Started /\ Started[p] = "BITBANGING_CHAL_SER"
  /\ q = "SERIALKILLER2_BP" => p = "SERIALKILLER2"
  /\ q = "EYECOLOR_SERIAL2_BP" => p = "EYECOLOR_SERIAL2"

(* Every page has a level, or belongs to all.                              *)
LEMMA PageNames == CtfPages = DOMAIN LevelOf \cup FreePages
BY DEF CtfPages, LevelOf, FreePages, DrawnThen, PressedThen

(* A page that is drawn and left leads to a page of its level or of all.   *)
LEMMA DrawnPages ==
  ASSUME NEW p \in DOMAIN DrawnThen
  PROVE  Passing(p, DrawnThen[p]) /\ Serving(p, DrawnThen[p])
<1>1. Passing(p, DrawnThen[p]) BY DEF Passing, DrawnThen, LevelOf, FreePages, Reached
<1>2. Serving(p, DrawnThen[p]) BY DEF Serving, DrawnThen, Started, Stopped, ServerPages
<1> QED BY <1>1, <1>2

(* So does a page that the button leaves.                                  *)
LEMMA PressedPages ==
  ASSUME NEW p \in DOMAIN PressedThen
  PROVE  Passing(p, PressedThen[p]) /\ Serving(p, PressedThen[p])
<1>1. Passing(p, PressedThen[p])
  BY DEF Passing, PressedThen, LevelOf, FreePages, Reached
<1>2. Serving(p, PressedThen[p])
  BY DEF Serving, PressedThen, Started, Stopped, ServerPages
<1> QED BY <1>1, <1>2

(* So does the test of the two contacts.                                   *)
LEMMA GroundedPages ==
  ASSUME NEW q \in {"GROUNDED_PASS", "GROUNDED_FAIL"}
  PROVE  Passing("GROUNDED2", q) /\ Serving("GROUNDED2", q)
<1>1. Passing("GROUNDED2", q) BY DEF Passing, LevelOf, FreePages, Reached
<1>2. Serving("GROUNDED2", q) BY DEF Serving, Started, Stopped, ServerPages
<1> QED BY <1>1, <1>2

(* A page that leads to a level is one of the level before it.             *)
LEMMA ReachedLevels ==
  ASSUME NEW p \in DOMAIN Reached
  PROVE  /\ p \in DOMAIN LevelOf /\ LevelOf[p] \in 1..9 /\ Reached[p] = LevelOf[p] + 1
         /\ Reached[p] = 6 => p = "SERIALKILLER2_BP"
         /\ Reached[p] = 8 => p = "EYECOLOR_SERIAL2_BP"
         /\ Reached[p] = 10 => p = "BITBANGING_CHALLENGE_BP"
BY DEF LevelOf, Reached

(* The pages that a menu opens have its level and are none of the          *)
(* console's.                                                              *)
LEMMA OpenedPages ==
  ASSUME NEW n \in 1..10, NEW d, <<n, d>> \in Opened
  PROVE  d \in DOMAIN LevelOf /\ LevelOf[d] = n /\ d \notin ServerPages
BY DEF LevelOf, Opened, ServerPages

(* What the console must say for a level.                                  *)
LEMMA AskedStates ==
  /\ "SERIALKILLER2_BP" \in DOMAIN Asked /\ Asked["SERIALKILLER2_BP"] = "DONE"
  /\ "EYECOLOR_SERIAL2_BP" \in DOMAIN Asked /\ Asked["EYECOLOR_SERIAL2_BP"] = "EYECOLOR_PASS"
  /\ "BITBANGING_CHALLENGE_BP" \in DOMAIN Asked /\ Asked["BITBANGING_CHALLENGE_BP"] = "BITBANGING_PASS"
BY DEF Asked

(* Where a page starts the console.                                        *)
LEMMA StartedStates ==
  ASSUME NEW p \in DOMAIN Started
  PROVE  Started[p] \in {"LOGIN", "EYECOLOR_SER", "BITBANGING_SER", "BITBANGING_CHAL_SER"} /\ p \notin Stopped
BY DEF Started, Stopped

-----------------------------------------------------------------------------
\* The states of the console in the first challenge.
Chain == {"LOGIN", "HACKIT", "INJECTION1", "INJECTION2", "INJECTION3", "INJECTION4", "INJECTION5",
          "INJECTION6", "HELLO", "HELLO2", "HELLO3", "HELLO4", "HELLO5", "DONE"}

\* What the console says next in state s.
SaidNext(s, t) ==
  \/ s \in DOMAIN Prompts /\ t = Prompts[s]
  \/ s \in DOMAIN InjectionThen /\ t = InjectionThen[s]
  \/ s = "LOGIN" /\ t = "HACKIT"
  \/ s = "HACKIT" /\ t = "INJECTION1"
  \/ s = "INJECTION6" /\ t \in {"HELLO", "LOGIN"}
  \/ s = "EYECOLOR_SER2" /\ t \in {"EYECOLOR_PASS", "DONE"}
  \/ s = "BITBANGING_CHAL_SER2" /\ t \in {"BITBANGING_PASS", "DONE"}

(* What the console says next: the injection ends in DONE by its last      *)
(* word only.                                                              *)
LEMMA ConsoleChain ==
  ASSUME NEW s \in ConsoleStates, NEW t, SaidNext(s, t)
  PROVE  /\ t \in ConsoleStates
         /\ s \in Chain => t \in Chain
         /\ s \in Chain /\ t = "DONE" => s = "HELLO5"
BY DEF ConsoleStates, SaidNext, Chain, Prompts, InjectionThen

-----------------------------------------------------------------------------
(* The game and its console.                                               *)

\* The ranges of the game's variables.
CtfTypeInv ==
  /\ ctf_state \in CtfPages /\ ctf_menu_state \in 1..10
  /\ ctf_lightme_index \in 0..Len(ctf_lightme_message)
  /\ followed \in 0..Len(ctf_lightme_message)
  /\ sw_ctf_test \in {0, 1}
  /\ g_ctf_server_enable \in BOOLEAN /\ g_ctf_serial_state \in ConsoleStates
  /\ granted \in BOOLEAN

\* A page is shown in its level only.
LevelInv == ctf_state \in DOMAIN LevelOf => ctf_menu_state = LevelOf[ctf_state]

\* The console runs behind the pages of a challenge.
ServerInv == g_ctf_server_enable => runningApp = "ctf" /\ ctf_state \in ServerPages

\* On the last pages of a challenge the console's success was granted.
EarnedInv ==
  /\ ctf_state \in {"SERIALKILLER2", "SERIALKILLER2_BP"} =>
       g_ctf_serial_state \in Chain /\ (g_ctf_serial_state = "DONE" => granted)
  /\ ctf_state \in {"EYECOLOR_SERIAL2", "EYECOLOR_SERIAL2_BP"} =>
       (g_ctf_serial_state = "EYECOLOR_PASS" => granted)
  /\ ctf_state = "BITBANGING_CHALLENGE_BP" => (g_ctf_serial_state = "BITBANGING_PASS" => granted)

CtfInv == CtfTypeInv /\ LevelInv /\ ServerInv /\ EarnedInv

(* Leaving a page leads to a page of the same level, or to the menu with   *)
(* the next level if the console granted it.                               *)
LEMMA LevelStep ==
  ASSUME CtfInv, NEW q, Level(ctf_state), ctf_state' = q, Passing(ctf_state, q)
  PROVE  /\ LevelInv' /\ ctf_menu_state' \in 1..10
         /\ ctf_menu_state' \in {ctf_menu_state, ctf_menu_state + 1}
         /\ ctf_menu_state' # ctf_menu_state /\ ctf_menu_state' \in {6, 8, 10} => granted
<1> DEFINE p == ctf_state
<1>1. ctf_menu_state \in 1..10 BY DEF CtfInv, CtfTypeInv
<1>2. CASE p \in DOMAIN Reached /\ (p \in DOMAIN Asked => g_ctf_serial_state = Asked[p])
  <2>1. ctf_menu_state' = Reached[p] BY <1>2 DEF Level
  <2>2. p \in DOMAIN LevelOf /\ LevelOf[p] \in 1..9 /\ Reached[p] = LevelOf[p] + 1
    BY <1>2, ReachedLevels
  <2>3. ctf_menu_state = LevelOf[p] BY <2>2 DEF CtfInv, LevelInv
  <2>4. q \notin DOMAIN LevelOf BY <1>2 DEF Passing
  <2>5. ctf_menu_state' \in {6, 8, 10} => granted
    <3>1. ASSUME ctf_menu_state' = 6 PROVE granted
      <4>1. p = "SERIALKILLER2_BP" BY <1>2, <2>1, <3>1, ReachedLevels
      <4>2. g_ctf_serial_state = "DONE" BY <1>2, <4>1, AskedStates
      <4> QED BY <4>1, <4>2 DEF CtfInv, EarnedInv
    <3>2. ASSUME ctf_menu_state' = 8 PROVE granted
      <4>1. p = "EYECOLOR_SERIAL2_BP" BY <1>2, <2>1, <3>2, ReachedLevels
      <4>2. g_ctf_serial_state = "EYECOLOR_PASS" BY <1>2, <4>1, AskedStates
      <4> QED BY <4>1, <4>2 DEF CtfInv, EarnedInv
    <3>3. ASSUME ctf_menu_state' = 10 PROVE granted
      <4>1. p = "BITBANGING_CHALLENGE_BP" BY <1>2, <2>1, <3>3, ReachedLevels
      <4>2. g_ctf_serial_state = "BITBANGING_PASS" BY <1>2, <4>1, AskedStates
      <4> QED BY <4>1, <4>2 DEF CtfInv, EarnedInv
    <3> QED BY <3>1, <3>2, <3>3
  <2> QED BY <2>1, <2>2, <2>3, <2>4, <2>5 DEF LevelInv
<1>3. CASE ~(p \in DOMAIN Reached /\ (p \in DOMAIN Asked => g_ctf_serial_state = Asked[p]))
  <2>1. ctf_menu_state' = ctf_menu_state BY <1>3 DEF Level
  <2>2. LevelInv' BY <2>1 DEF LevelInv, Passing, CtfInv
  <2> QED BY <1>1, <2>1, <2>2
<1> QED BY <1>2, <1>3

(* What leaving a page does to the console.                                *)
LEMMA ServerStep ==
  ASSUME CtfInv, runningApp' = "ctf", NEW q, Server(ctf_state), ctf_state' = q, Serving(ctf_state, q)
  PROVE  /\ ServerInv' /\ EarnedInv'
         /\ g_ctf_server_enable' \in BOOLEAN /\ granted' \in BOOLEAN
         /\ g_ctf_serial_state' \in ConsoleStates
<1> DEFINE p == ctf_state
<1>1. /\ g_ctf_server_enable \in BOOLEAN /\ granted \in BOOLEAN /\ g_ctf_serial_state \in ConsoleStates
      /\ g_ctf_server_enable => p \in ServerPages
  BY DEF CtfInv, CtfTypeInv, ServerInv
<1>2. CASE p \in DOMAIN Started
  <2>1. g_ctf_server_enable' = TRUE /\ g_ctf_serial_state' = Started[p] /\ granted' = FALSE
    BY <1>2, StartedStates DEF Server
  <2>2. q \in ServerPages BY <1>2 DEF Serving
  <2>3. Started[p] \in {"LOGIN", "EYECOLOR_SER", "BITBANGING_SER", "BITBANGING_CHAL_SER"}
    BY <1>2, StartedStates
  <2>4. q # "SERIALKILLER2_BP" /\ q # "EYECOLOR_SERIAL2_BP"
    BY <1>2 DEF Serving, Started
  <2>5. EarnedInv'
    <3>1. q = "SERIALKILLER2" => g_ctf_serial_state' = "LOGIN" BY <2>1 DEF Serving
    <3>2. g_ctf_serial_state' \notin {"DONE", "EYECOLOR_PASS", "BITBANGING_PASS"}
      BY <2>1, <2>3
    <3> QED BY <2>4, <3>1, <3>2 DEF EarnedInv, Chain
  <2>6. g_ctf_serial_state' \in ConsoleStates BY <2>1, <2>3 DEF ConsoleStates, Prompts
  <2> QED BY <2>1, <2>2, <2>5, <2>6 DEF ServerInv
<1>3. CASE p \notin DOMAIN Started
  <2>1. g_ctf_serial_state' = g_ctf_serial_state BY <1>3 DEF Server, serverVars
  <2>2. q \notin {"SERIALKILLER2", "EYECOLOR_SERIAL2", "BITBANGING_CHALLENGE_BP"}
    BY <1>3 DEF Serving
  <2>3. CASE p \in Stopped
    <3>1. g_ctf_server_enable' = FALSE /\ granted' = FALSE BY <1>3, <2>3 DEF Server
    <3>2. q \notin {"SERIALKILLER2_BP", "EYECOLOR_SERIAL2_BP"}
      BY <2>3 DEF Serving, Stopped
    <3> QED BY <1>1, <2>1, <2>2, <3>1, <3>2 DEF ServerInv, EarnedInv
  <2>4. CASE p \notin Stopped
    <3>1. g_ctf_server_enable' = g_ctf_server_enable /\ granted' = granted
      BY <1>3, <2>4 DEF Server, serverVars
    <3>2. ServerInv' BY <1>1, <2>4, <3>1 DEF ServerInv, Serving
    <3>3. EarnedInv' BY <2>1, <2>2, <3>1 DEF EarnedInv, CtfInv, Serving
    <3> QED BY <1>1, <2>1, <3>1, <3>2, <3>3
  <2> QED BY <2>3, <2>4
<1> QED BY <1>2, <1>3

\* A pass of the game keeps its invariant, passes one level at most, and a
\* challenge only with the console's grant.
CtfKeeps ==
  /\ CtfInv'
  /\ ctf_menu_state' \in {ctf_menu_state, ctf_menu_state + 1}
  /\ ctf_menu_state' # ctf_menu_state /\ ctf_menu_state' \in {6, 8, 10} => granted

(* Leaving a page keeps the invariant of the game.                         *)
LEMMA LeaveStep ==
  ASSUME CtfInv, runningApp = "ctf", NEW q, Leave(ctf_state, q),
         Passing(ctf_state, q), Serving(ctf_state, q)
  PROVE  CtfKeeps
<1>1. /\ ctf_state' = q /\ Level(ctf_state) /\ Server(ctf_state) /\ runningApp' = "ctf"
      /\ followed' \in {0, followed}
      /\ ctf_lightme_index' = ctf_lightme_index /\ sw_ctf_test' = sw_ctf_test
  BY DEF Leave
<1>2. q \in CtfPages BY PageNames DEF Passing
<1>3. followed' \in 0..Len(ctf_lightme_message)
  <2>1. Len(ctf_lightme_message) \in Nat BY LightAssumption
  <2> QED BY <1>1, <2>1 DEF CtfInv, CtfTypeInv
<1>4. CtfTypeInv' BY <1>1, <1>2, <1>3, LevelStep, ServerStep DEF CtfInv, CtfTypeInv
<1> QED BY <1>1, <1>4, LevelStep, ServerStep DEF CtfKeeps, CtfInv

(* The least of two numbers.                                               *)
LEMMA MinOfTwo == ASSUME NEW a \in Nat, NEW b \in Nat PROVE Min({a, b}) \in {a, b} /\ Min({a, b}) <= b
<1>1. {a, b} \in SUBSET Nat /\ {a, b} # {} OBVIOUS
<1> QED BY <1>1, MinIsLeast

(* A pass of Light Me keeps the invariant of the game.                     *)
LEMMA LightStep ==
  ASSUME CtfInv, ctf_light_me2
  PROVE  CtfKeeps
<1> DEFINE n == Len(ctf_lightme_message)
<1>1. n \in Nat BY LightAssumption
<1>2. /\ runningApp' = runningApp /\ ctf_menu_state' = ctf_menu_state
      /\ UNCHANGED serverVars /\ sw_ctf_test' = 1 /\ ctf_state = "LIGHT_ME2"
  BY DEF ctf_light_me2
<1>3. ctf_state' \in {"LIGHT_ME2", "LIGHT_ME_FAIL", "LIGHT_ME_PASS"}
  BY <1>2 DEF ctf_light_me2
<1>4. ctf_lightme_index' \in 0..n /\ followed' \in 0..n
  <2>1. ctf_lightme_index \in 0..n /\ followed \in 0..n BY DEF CtfInv, CtfTypeInv
  <2> DEFINE more == Min({followed + 1, n})
  <2>2. more \in 0..n
    <3>1. followed + 1 \in Nat BY <2>1
    <3> HIDE DEF n
    <3> QED BY <1>1, <2>1, <3>1, MinOfTwo
  <2> HIDE DEF more
  <2>3. CASE ctf_lightme_index < n
    <3>1. ctf_lightme_index' = ctf_lightme_index + 1 /\ followed' \in {more, followed}
      BY <2>3 DEF ctf_light_me2, LightIndex, more
    <3> QED BY <1>1, <2>1, <2>2, <2>3, <3>1
  <2>4. CASE ~(ctf_lightme_index < n)
    <3>1. UNCHANGED <<ctf_lightme_index, followed>> BY <2>4 DEF ctf_light_me2
    <3> QED BY <2>1, <3>1
  <2> QED BY <2>3, <2>4
<1>5. /\ "LIGHT_ME2" \in DOMAIN LevelOf /\ "LIGHT_ME_FAIL" \in DOMAIN LevelOf /\ "LIGHT_ME_PASS" \in DOMAIN LevelOf
      /\ LevelOf["LIGHT_ME2"] = 4 /\ LevelOf["LIGHT_ME_FAIL"] = 4 /\ LevelOf["LIGHT_ME_PASS"] = 4
      /\ ServerPages \cap {"LIGHT_ME2", "LIGHT_ME_FAIL", "LIGHT_ME_PASS"} = {}
  BY DEF LevelOf, ServerPages
<1>6. CtfTypeInv'
  BY <1>2, <1>3, <1>4, <1>5, PageNames DEF CtfInv, CtfTypeInv, serverVars
<1>7. LevelInv' BY <1>2, <1>3, <1>5 DEF CtfInv, LevelInv
<1>8. ServerInv' BY <1>2, <1>5 DEF CtfInv, ServerInv, serverVars
<1>9. EarnedInv' BY <1>3 DEF EarnedInv
<1> QED BY <1>2, <1>6, <1>7, <1>8, <1>9 DEF CtfKeeps, CtfInv

(* The page opened from the menu is one of its level, and none of the      *)
(* console's.                                                              *)
LEMMA MenuPageStep ==
  ASSUME CtfInv, ctf_state = "MENU", UNCHANGED <<ctf_menu_state, lightVars, serverVars>>,
         \/ ctf_state' = "MENU"
         \/ <<ctf_menu_state, ctf_state'>> \in Opened
  PROVE  CtfKeeps
<1>1. ctf_menu_state \in 1..10 BY DEF CtfInv, CtfTypeInv
<1>2. "MENU" \notin DOMAIN LevelOf /\ "MENU" \notin ServerPages
  BY DEF LevelOf, ServerPages
<1>3. "MENU" \in FreePages BY DEF FreePages
<1>4. /\ ctf_state' \in DOMAIN LevelOf \cup FreePages /\ ctf_state' \notin ServerPages
      /\ ctf_state' \in DOMAIN LevelOf => LevelOf[ctf_state'] = ctf_menu_state
  BY <1>1, <1>2, <1>3, OpenedPages
<1>5. CtfTypeInv' BY <1>4, PageNames DEF CtfInv, CtfTypeInv, lightVars, serverVars
<1>6. LevelInv' BY <1>4 DEF LevelInv
<1>7. ~g_ctf_server_enable' BY <1>2 DEF CtfInv, CtfTypeInv, ServerInv, serverVars
<1>8. EarnedInv' BY <1>4 DEF EarnedInv, ServerPages
<1> QED BY <1>5, <1>6, <1>7, <1>8 DEF CtfKeeps, CtfInv, ServerInv

-----------------------------------------------------------------------------
\* genericMenu shows what the running application asks for.
MenuInv == MenuAt(Shown)

\* Shown, application by application.
LEMMA ShownNames ==
  /\ runningApp = NoApp => Shown = NoMenu
  /\ runningApp = "lander" => Shown = LanderShows
  /\ runningApp = "messenger" => Shown = MessengerShows
  /\ runningApp = "ctf" => Shown = CtfShows
BY NoAppAssumption DEF Shown, AppNames

(* The same for the next state.                                            *)
LEMMA ShownNext ==
  /\ runningApp' = NoApp => Shown' = NoMenu
  /\ runningApp' = "lander" => Shown' = LanderShows'
  /\ runningApp' = "messenger" => Shown' = MessengerShows'
  /\ runningApp' = "ctf" => Shown' = CtfShows'
BY NoAppAssumption DEF Shown, AppNames

\* The ranges of the other applications.
AppsInv ==
  /\ runningApp \in AppNames \cup {NoApp}
  /\ badge_lander_state \in LanderStates
  /\ badge_messenger_state \in MessengerStates
  /\ relay_amount \in 0..max_configurable_relay_amount

(* A menu that runs a function is closed.                                  *)
LEMMA MenuCloses ==
  ASSUME NEW root, MenuAt(root), NEW f, genericMenuRuns(f)
  PROVE  MenuInv'
BY GenericMenuRuns DEF MenuInv, MenuAt

(* An application outside its menu.                                        *)
LEMMA MenuStaysClosed ==
  ASSUME MenuInv, Shown = NoMenu, UNCHANGED menuVars
  PROVE  MenuInv'
<1>1. NoMenu \notin Roots BY NoMenuIsNone DEF Roots
<1>2. MenuAt(NoMenu) BY DEF MenuInv
<1> QED BY <1>1, <1>2 DEF MenuInv, MenuAt, menuVars

(* What neither the application nor the menu notices.                      *)
LEMMA MenuStaysOpen ==
  ASSUME MenuInv, Shown' = Shown, UNCHANGED menuVars
  PROVE  MenuInv'
BY DEF MenuInv, MenuAt, menuVars

(* An application in its menu.                                             *)
LEMMA MenuGoesOn ==
  ASSUME MenuInv, NEW root \in Roots, root = Shown, root = Shown', genericMenu(root)
  PROVE  MenuInv'
<1>1. MenuAt(root) BY DEF MenuInv
<1>2. MenuAt(root)' BY <1>1, GenericMenuStep
<1> QED BY <1>2 DEF MenuInv, MenuAt

(* A pass of the game.                                                     *)
LEMMA CtfStep ==
  ASSUME CtfInv, MenuInv, ctf_app
  PROVE  CtfKeeps /\ MenuInv' /\ runningApp' \in {"ctf", NoApp}
<1>1. runningApp = "ctf" BY DEF ctf_app
<1>2. Shown = IF ctf_state = "MENU" THEN CtfMenu[ctf_menu_state] ELSE NoMenu
  BY <1>1, ShownNames DEF CtfShows
<1>3. ASSUME NEW q, Leave(ctf_state, q), Passing(ctf_state, q), Serving(ctf_state, q)
      PROVE  CtfKeeps /\ MenuInv' /\ runningApp' \in {"ctf", NoApp}
  <2>1. UNCHANGED menuVars /\ runningApp' = runningApp BY <1>3 DEF Leave
  <2>2. Shown = NoMenu BY <1>2, <1>3 DEF Passing
  <2> QED BY <1>1, <1>3, <2>1, <2>2, LeaveStep, MenuStaysClosed
<1>4. CASE ctf_draw BY <1>3, <1>4, DrawnPages DEF ctf_draw
<1>5. CASE ctf_press BY <1>3, <1>5, PressedPages DEF ctf_press
<1>6. CASE ctf_grounded2 BY <1>3, <1>6, GroundedPages DEF ctf_grounded2
<1>7. CASE ctf_light_me2
  <2>1. UNCHANGED menuVars /\ runningApp' = runningApp /\ ctf_state = "LIGHT_ME2"
    BY <1>7 DEF ctf_light_me2
  <2>2. Shown = NoMenu BY <1>2, <2>1
  <2> QED BY <1>1, <1>7, <2>1, <2>2, LightStep, MenuStaysClosed
<1>8. CASE ctf_menus
  <2>1. ctf_state = "MENU" /\ UNCHANGED <<ctf_menu_state, lightVars, serverVars>>
    BY <1>8 DEF ctf_menus
  <2>2. PICK n \in 1..10 : n = ctf_menu_state BY DEF CtfInv, CtfTypeInv
  <2>3. PICK root : root = CtfMenu[n] OBVIOUS
  <2>4. root \in Roots /\ LevelIs(n, root) BY <2>3, LevelItems
  <2>5. Shown = root BY <1>2, <2>1, <2>2, <2>3
  <2>6. MenuAt(root) BY <2>5 DEF MenuInv
  <2>7. CASE genericMenu(CtfMenu[ctf_menu_state]) /\ UNCHANGED <<runningApp, ctf_state>>
    <3>1. Shown' = root BY <1>1, <2>1, <2>2, <2>3, <2>7, ShownNext DEF CtfShows
    <3>2. MenuInv' BY <2>2, <2>3, <2>4, <2>5, <2>7, <3>1, MenuGoesOn
    <3>3. CtfKeeps BY <2>1, <2>7, MenuPageStep
    <3> QED BY <1>1, <2>7, <3>2, <3>3
  <2>8. CASE ctf_quit_cb
    <3>1. MenuInv' BY <2>6, <2>8, MenuCloses DEF ctf_quit_cb
    <3>2. CtfKeeps BY <2>1, <2>8, MenuPageStep DEF ctf_quit_cb
    <3> QED BY <2>8, <3>1, <3>2 DEF ctf_quit_cb
  <2>9. CASE ctf_page_cb
    <3>1. PICK page \in CtfPages : genericMenuRuns(page) /\ ctf_state' = page
      BY <2>9 DEF ctf_page_cb
    <3>2. MenuInv' BY <2>6, <3>1, MenuCloses
    <3>3. \E k \in DOMAIN AppMenu[root] : AppMenu[root][k].goes = page
      BY <2>6, <3>1, GenericMenuRuns
    <3>4. page # "quit" BY PageNames DEF LevelOf, FreePages
    <3>5. <<ctf_menu_state, ctf_state'>> \in Opened
      BY <2>2, <2>4, <3>1, <3>3, <3>4 DEF LevelIs
    <3>6. CtfKeeps BY <2>1, <3>5, MenuPageStep
    <3> QED BY <1>1, <2>9, <3>2, <3>6 DEF ctf_page_cb
  <2> QED BY <1>8, <2>7, <2>8, <2>9 DEF ctf_menus
<1> QED BY <1>4, <1>5, <1>6, <1>7, <1>8 DEF ctf_app

(* A pass of the lander.                                                   *)
LEMMA LanderStep ==
  ASSUME MenuInv, AppsInv, badge_lander_cb, UNCHANGED <<messengerVars, ctfVars>>
  PROVE  MenuInv' /\ runningApp' \in {"lander", NoApp} /\ badge_lander_state' \in LanderStates
<1>1. runningApp = "lander" BY DEF badge_lander_cb
<1>2. Shown = LanderShows BY <1>1, ShownNames
<1>3. "lander_main_m" \in Roots BY DEF Roots, Menus
<1>4. CASE LanderMenu
  <2>1. Shown = "lander_main_m" BY <1>2, <1>4 DEF LanderMenu, LanderShows
  <2>2. MenuAt("lander_main_m") BY <2>1 DEF MenuInv
  <2>3. CASE genericMenu("lander_main_m") /\ UNCHANGED <<runningApp, badge_lander_state>>
    <3>1. Shown' = "lander_main_m" BY <1>1, <1>2, <2>1, <2>3, ShownNext DEF LanderShows
    <3>2. MenuInv' BY <1>3, <2>1, <2>3, <3>1, MenuGoesOn
    <3> QED BY <1>1, <2>3, <3>2 DEF AppsInv
  <2>4. CASE lander_menu_exit
    <3>1. MenuInv' BY <2>2, <2>4, MenuCloses DEF lander_menu_exit
    <3> QED BY <2>4, <3>1 DEF lander_menu_exit, returnToMenus, LanderStates
  <2>5. CASE lander_menu_play
    <3>1. MenuInv' BY <2>2, <2>5, MenuCloses DEF lander_menu_play
    <3> QED BY <1>1, <2>5, <3>1 DEF lander_menu_play, LanderStates
  <2> QED BY <1>4, <2>3, <2>4, <2>5 DEF LanderMenu
<1>5. CASE LanderStart \/ LanderRun
  <2>1. UNCHANGED <<runningApp, menuVars>> /\ badge_lander_state # "LANDER_SHOW_MENU"
        /\ badge_lander_state' \in LanderStates
    BY <1>5 DEF LanderStart, LanderRun, LanderStates
  <2>2. Shown = NoMenu BY <1>2, <2>1 DEF LanderShows
  <2>3. MenuInv' BY <2>1, <2>2, MenuStaysClosed
  <2> QED BY <1>1, <2>1, <2>3
<1> QED BY <1>4, <1>5 DEF badge_lander_cb

(* A pass of the messenger.                                                *)
LEMMA MessengerStep ==
  ASSUME MenuInv, AppsInv, badge_messenger_cb, UNCHANGED <<badge_lander_state, ctfVars>>
  PROVE  /\ MenuInv' /\ runningApp' \in {"messenger", NoApp}
         /\ badge_messenger_state' \in MessengerStates
         /\ relay_amount' \in 0..max_configurable_relay_amount
<1>1. runningApp = "messenger" /\ badge_messenger_state \in MessengerStates
      /\ relay_amount \in 0..max_configurable_relay_amount
  BY DEF badge_messenger_cb, AppsInv
<1>2. Shown = MessengerShows BY <1>1, ShownNames
<1>3. "messenger_m" \in Roots BY DEF Roots, Menus
<1>4. CASE MessengerMenu
  <2>1. CASE badge_messenger_state = "MSG_INIT"
    <3>1. /\ badge_messenger_state' = "MSG_SHOW_MENU"
          /\ UNCHANGED <<runningApp, menuVars, relay_amount>>
      BY <1>4, <2>1 DEF MessengerMenu
    <3>2. MenuInv' BY <1>2, <2>1, <3>1, MenuStaysClosed DEF MessengerShows
    <3> QED BY <1>1, <3>1, <3>2 DEF MessengerStates
  <2>2. CASE badge_messenger_state = "MSG_SHOW_MENU"
    <3>1. Shown = "messenger_m" BY <1>2, <2>2 DEF MessengerShows
    <3>2. MenuAt("messenger_m") BY <3>1 DEF MenuInv
    <3>3. CASE genericMenu("messenger_m") /\ UNCHANGED <<runningApp, messengerVars>>
      <4>1. Shown' = "messenger_m"
        BY <1>1, <2>2, <3>3, ShownNext DEF MessengerShows, messengerVars
      <4>2. MenuInv' BY <1>3, <3>1, <3>3, <4>1, MenuGoesOn
      <4> QED BY <1>1, <3>3, <4>2 DEF messengerVars
    <3>4. CASE msg_quit
      <4>1. MenuInv' BY <3>2, <3>4, MenuCloses DEF msg_quit
      <4> QED BY <1>1, <3>4, <4>1 DEF msg_quit, MessengerStates
    <3>5. CASE msg_clear
      <4>1. MenuInv' BY <3>2, <3>5, MenuCloses DEF msg_clear
      <4> QED BY <1>1, <3>5, <4>1 DEF msg_clear
    <3>6. ASSUME NEW screen \in {"MSG_SENDING", "MSG_CONFIG_MSG_TEXT", "MSG_CONFIG_RELAY_AMOUNT"},
                 msg_open(screen)
          PROVE  /\ MenuInv' /\ runningApp' \in {"messenger", NoApp}
                 /\ badge_messenger_state' \in MessengerStates
                 /\ relay_amount' \in 0..max_configurable_relay_amount
      <4>1. MenuInv' BY <3>2, <3>6, MenuCloses DEF msg_open
      <4> QED BY <1>1, <3>6, <4>1 DEF msg_open, MessengerStates
    <3> QED BY <1>4, <2>2, <3>3, <3>4, <3>5, <3>6 DEF MessengerMenu
  <2> QED BY <1>4, <2>1, <2>2 DEF MessengerMenu
<1>5. CASE MessengerSent \/ ConfigRelay \/ ConfigText
  <2>1. /\ UNCHANGED <<runningApp, menuVars>> /\ badge_messenger_state # "MSG_SHOW_MENU"
        /\ badge_messenger_state' \in MessengerStates
    BY <1>1, <1>5 DEF MessengerSent, ConfigRelay, ConfigText, Left, MessengerStates
  <2>2. relay_amount' \in 0..max_configurable_relay_amount
    <3>1. max_configurable_relay_amount \in Nat BY MessengerAssumption
    <3>2. CASE MessengerSent \/ ConfigText BY <1>1, <3>2 DEF MessengerSent, ConfigText
    <3>3. CASE ConfigRelay
      <4>1. PICK top \in BOOLEAN, bottom \in BOOLEAN :
              LET more == IF top /\ relay_amount < max_configurable_relay_amount
                          THEN relay_amount + 1 ELSE relay_amount
              IN  relay_amount' = IF bottom /\ more > 0 THEN more - 1 ELSE more
        BY <3>3 DEF ConfigRelay
      <4> QED BY <1>1, <3>1, <4>1
    <3> QED BY <1>5, <3>2, <3>3
  <2>3. Shown = NoMenu BY <1>2, <2>1 DEF MessengerShows
  <2>4. MenuInv' BY <2>1, <2>3, MenuStaysClosed
  <2> QED BY <1>1, <2>1, <2>2, <2>4
<1> QED BY <1>4, <1>5 DEF badge_messenger_cb

(* What a pass of the messenger does to the text, and when it loses its    *)
(* terminator.                                                             *)
LEMMA TextStep ==
  ASSUME TextInv, badge_messenger_cb
  PROVE  /\ TextInv'
         /\ Terminated(outgoing_message) /\ ~Terminated(outgoing_message') =>
              /\ outgoing_message[char_under_edit'] = MSG_NULL_TERM
              /\ char_under_edit' = char_under_edit + 1
              /\ outgoing_message'[char_under_edit'] = 0
<1>1. MAX_MSG_LENGTH \in Nat /\ MAX_MSG_LENGTH >= 2 BY MessengerAssumption
<1>2. \A text : Terminated(text) <=> Nulls(text) # {} BY DEF Terminated, Nulls
<1>3. CASE UNCHANGED textVars BY <1>3 DEF TextInv, textVars
<1>4. CASE msg_clear
  <2>1. outgoing_message' = [c \in Cells |-> MSG_NULL_TERM] /\ char_under_edit' = 0
    BY <1>4 DEF msg_clear
  <2>2. Nulls(outgoing_message') = Cells BY <2>1 DEF Nulls
  <2>3. MAX_MSG_LENGTH - 1 \in Cells BY <1>1 DEF Cells
  <2>4. outgoing_message' \in [Cells -> Alphabet] BY <2>1 DEF Alphabet
  <2> QED BY <1>1, <1>2, <2>1, <2>2, <2>3, <2>4 DEF TextInv
<1>5. CASE ConfigText
  <2> DEFINE text == outgoing_message
             new == outgoing_message'
  <2>1. PICK right \in BOOLEAN, left \in BOOLEAN, top \in BOOLEAN, bottom \in BOOLEAN :
          /\ char_under_edit' = Cursor(right, left)
          /\ outgoing_message' =
               Edited([outgoing_message EXCEPT ![Cursor(right, left)] = Turned(@, top, bottom)], Cursor(right, left))
    BY <1>5 DEF ConfigText
  <2>2. PICK cursor : cursor = Cursor(right, left) OBVIOUS
  <2>3. /\ text \in [Cells -> Alphabet] /\ char_under_edit \in 0..(MAX_MSG_LENGTH - 2)
        /\ MAX_MSG_LENGTH - 1 \in Nulls(text) \/ \A c \in Nulls(text) : c > char_under_edit
    BY DEF TextInv
  <2>4. cursor \in 0..(MAX_MSG_LENGTH - 2) /\ cursor <= char_under_edit + 1
    BY <2>2, <2>3, CursorMoves
  <2>5. /\ new \in [Cells -> Alphabet]
        /\ new[cursor] \in 0..LAST_CHAR
        /\ \/ text[cursor] = MSG_NULL_TERM /\ Nulls(new) = (Nulls(text) \cup {cursor + 1}) \ {cursor}
           \/ Nulls(new) = Nulls(text) \ {cursor} /\ (text[cursor] = MSG_NULL_TERM => new[cursor] = 0)
    <3>1. new = Edited([text EXCEPT ![cursor] = Turned(text[cursor], top, bottom)], cursor)
      BY <2>1, <2>2, <2>3, <2>4 DEF Cells
    <3> HIDE DEF text, new
    <3> QED BY <2>3, <2>4, <3>1, EditedText
  <2>6. char_under_edit' = cursor BY <2>1, <2>2
  <2>7. cursor \in Cells /\ cursor + 1 # cursor /\ Nulls(text) \in SUBSET Cells
    BY <1>1, <2>4 DEF Cells, Nulls
  <2> HIDE DEF text, new
  <2>8. text[cursor] = MSG_NULL_TERM <=> cursor \in Nulls(text) BY <2>7 DEF Nulls
  <2>9. MAX_MSG_LENGTH - 1 \in Nulls(text) => MAX_MSG_LENGTH - 1 \in Nulls(new)
    BY <1>1, <2>4, <2>5
  <2>10. ASSUME \A c \in Nulls(text) : c > char_under_edit
         PROVE  \A c \in Nulls(new) : c > cursor
    <3>1. \A c \in Nulls(text) : c \in Nat BY <2>7 DEF Cells
    <3>2. \A c \in Nulls(text) \ {cursor} : c > cursor BY <2>3, <2>4, <2>10, <3>1
    <3>3. cursor + 1 > cursor BY <2>4
    <3> QED BY <2>5, <3>2, <3>3
  <2>11. TextInv' BY <2>3, <2>4, <2>5, <2>6, <2>9, <2>10 DEF TextInv, new
  <2>12. ASSUME Nulls(text) # {}, Nulls(new) = {}
         PROVE  text[cursor] = MSG_NULL_TERM /\ cursor = char_under_edit + 1 /\ new[cursor] = 0
    <3>1. cursor + 1 \notin Nulls(new) BY <2>12
    <3>2. Nulls(text) = {cursor} /\ (text[cursor] = MSG_NULL_TERM => new[cursor] = 0)
      BY <2>5, <2>7, <2>12
    <3>3. text[cursor] = MSG_NULL_TERM BY <2>8, <3>2
    <3>4. MAX_MSG_LENGTH - 1 \notin Nulls(text) BY <2>9, <2>12
    <3>5. cursor > char_under_edit BY <2>3, <3>2, <3>4 DEF text
    <3> QED BY <2>3, <2>4, <3>2, <3>3, <3>5
  <2> QED BY <1>2, <2>6, <2>11, <2>12 DEF text, new
<1>6. badge_messenger_cb => UNCHANGED textVars \/ msg_clear \/ ConfigText
  BY
      DEF badge_messenger_cb, MessengerMenu, MessengerSent, ConfigRelay, msg_quit, msg_open, messengerVars, textVars
<1> QED BY <1>3, <1>4, <1>5, <1>6

(* A pass of the console.                                                  *)
LEMMA ConsoleStep ==
  ASSUME CtfInv, ConsolePass(Continue) \/ ConsolePass(Received)
  PROVE  CtfInv'
<1>1. /\ g_ctf_server_enable /\ UNCHANGED <<runningApp, ctf_state, ctf_menu_state, ctf_lightme_index, followed>>
      /\ Continue \/ Received
  BY DEF ConsolePass
<1>2. PICK t : SaidNext(g_ctf_serial_state, t) /\ Say(t)
  <2>1. CASE Continue
    <3>1. CASE Prompt BY <3>1 DEF Prompt, SaidNext
    <3>2. CASE CtfInjection BY <3>2 DEF CtfInjection, InjectionNext, SaidNext
    <3> QED BY <2>1, <3>1, <3>2 DEF Continue
  <2>2. CASE Received
    <3>1. CASE Login BY <3>1 DEF Login, SaidNext
    <3>2. CASE Answer BY <3>2 DEF Answer, SaidNext
    <3> QED BY <2>2, <3>1, <3>2 DEF Received
  <2> QED BY <1>1, <2>1, <2>2
<1>3. sw_ctf_test' \in {0, 1}
  BY <1>1
      DEF Continue, Received, Prompt, CtfInjection, Login, Answer, CtfInv, CtfTypeInv
<1>4. /\ g_ctf_serial_state' = t /\ g_ctf_server_enable' = g_ctf_server_enable
      /\ granted' = (granted \/ t \in {"EYECOLOR_PASS", "BITBANGING_PASS"} \/ g_ctf_serial_state = "HELLO5")
  BY <1>2 DEF Say
<1>5. g_ctf_serial_state \in ConsoleStates /\ granted \in BOOLEAN
  BY DEF CtfInv, CtfTypeInv
<1>6. CtfTypeInv' BY <1>1, <1>2, <1>3, <1>4, <1>5, ConsoleChain DEF CtfInv, CtfTypeInv
<1>7. LevelInv' BY <1>1 DEF CtfInv, LevelInv
<1>8. ServerInv' BY <1>1, <1>4 DEF CtfInv, ServerInv
<1>9. EarnedInv' BY <1>1, <1>2, <1>4, <1>5, ConsoleChain DEF CtfInv, EarnedInv
<1> QED BY <1>6, <1>7, <1>8, <1>9 DEF CtfInv

-----------------------------------------------------------------------------
(* The invariant and the properties.                                       *)

\* The inductive invariant.
IInv == MenuInv /\ AppsInv /\ TextInv /\ CtfInv

(* A badge that is switched on.                                            *)
LEMMA InitInv == Init => IInv
<1> SUFFICES ASSUME Init PROVE IInv OBVIOUS
<1>1. MenuInv
  <2>1. /\ L_currMenu = NoMenu /\ L_selectedMenu = 0 /\ L_menuCnt = 0
        /\ L_menuStack = [k \in 0..(STACK_SIZE - 1) |-> NoMenu]
    BY DEF Init, MenuInit
  <2> QED BY <2>1 DEF MenuInv, MenuAt
<1>2. AppsInv
  <2>1. max_configurable_relay_amount \in Nat BY MessengerAssumption
  <2>2. Min({3, max_configurable_relay_amount}) \in {3, max_configurable_relay_amount}
        /\ Min({3, max_configurable_relay_amount}) <= max_configurable_relay_amount
    BY <2>1, MinOfTwo
  <2>3. relay_amount \in 0..max_configurable_relay_amount
    BY <2>1, <2>2 DEF Init, MessengerInit
  <2> QED BY <2>3
      DEF Init, MenuInit, LanderInit, MessengerInit, AppsInv, LanderStates, MessengerStates
<1>3. TextInv
  <2>1. MAX_MSG_LENGTH \in Nat /\ MAX_MSG_LENGTH >= 2 BY MessengerAssumption
  <2>2. outgoing_message \in [Cells -> Alphabet] /\ outgoing_message[0] # MSG_NULL_TERM
    BY MessengerAssumption DEF Init, MessengerInit, Alphabet
  <2>3. \A c \in Nulls(outgoing_message) : c > 0 BY <2>2 DEF Nulls, Cells
  <2>4. char_under_edit = 0 BY DEF Init, MessengerInit
  <2>5. char_under_edit \in 0..(MAX_MSG_LENGTH - 2) BY <2>1, <2>4
  <2> QED BY <2>2, <2>3, <2>4, <2>5 DEF TextInv
<1>4. CtfInv
  <2>1. Len(ctf_lightme_message) \in Nat BY LightAssumption
  <2>2. /\ ctf_state = "CTF_INIT" /\ ctf_menu_state = 1 /\ ctf_lightme_index = 0 /\ sw_ctf_test = 0
        /\ g_ctf_server_enable = FALSE /\ g_ctf_serial_state = "LOGIN" /\ granted = FALSE /\ followed = 0
    BY DEF Init, CtfInit
  <2>3. "CTF_INIT" \in FreePages /\ "CTF_INIT" \notin DOMAIN LevelOf
    BY DEF FreePages, LevelOf
  <2>4. "LOGIN" \in ConsoleStates BY DEF ConsoleStates
  <2>5. CtfTypeInv
    <3>1. g_ctf_server_enable \in BOOLEAN /\ granted \in BOOLEAN BY <2>2
    <3>2. ctf_state \in CtfPages BY <2>2, <2>3, PageNames
    <3>3. ctf_lightme_index \in 0..Len(ctf_lightme_message) /\ followed \in 0..Len(ctf_lightme_message)
      BY <2>1, <2>2
    <3> QED BY <2>2, <2>4, <3>1, <3>2, <3>3 DEF CtfTypeInv
  <2> QED BY <2>2, <2>3, <2>5 DEF CtfInv, LevelInv, ServerInv, EarnedInv
<1> QED BY <1>1, <1>2, <1>3, <1>4 DEF IInv

(* What does not touch the game keeps its invariant, unless the game stops *)
(* or starts.                                                              *)
LEMMA CtfStays ==
  ASSUME CtfInv, UNCHANGED ctfVars, runningApp' = runningApp \/ runningApp # "ctf"
  PROVE  CtfInv'
<1>1. CtfTypeInv' BY DEF CtfInv, CtfTypeInv, ctfVars, lightVars, serverVars
<1>2. LevelInv' BY DEF CtfInv, LevelInv, ctfVars
<1>3. ServerInv' BY DEF CtfInv, ServerInv, ctfVars, serverVars
<1>4. EarnedInv' BY DEF CtfInv, EarnedInv, ctfVars, serverVars
<1> QED BY <1>1, <1>2, <1>3, <1>4 DEF CtfInv

(* What does not touch the text keeps its invariant.                       *)
LEMMA TextStays ==
  ASSUME TextInv, UNCHANGED textVars PROVE TextInv'
BY DEF TextInv, textVars

(* What a step may do to the text and to the level.                        *)
TextLoss ==
  Terminated(outgoing_message) /\ ~Terminated(outgoing_message') =>
       /\ outgoing_message[char_under_edit'] = MSG_NULL_TERM
       /\ char_under_edit' = char_under_edit + 1
       /\ outgoing_message'[char_under_edit'] = 0
LevelGain ==
  /\ ctf_menu_state' \in {ctf_menu_state, ctf_menu_state + 1}
  /\ ctf_menu_state' # ctf_menu_state /\ ctf_menu_state' \in {6, 8, 10} => granted

(* One step, action by action: the invariant and the properties of a       *)
(* step.                                                                   *)
LEMMA Step == IInv /\ [Next]_vars => IInv' /\ TextLoss /\ LevelGain
<1> SUFFICES ASSUME IInv, [Next]_vars PROVE IInv' /\ TextLoss /\ LevelGain OBVIOUS
<1> USE DEF IInv
<1>1. UNCHANGED textVars => TextLoss BY DEF textVars, TextLoss
<1>2. UNCHANGED ctfVars => LevelGain BY DEF ctfVars, LevelGain
<1>3. ASSUME NEW app \in AppNames, Start(app) PROVE IInv' /\ TextLoss /\ LevelGain
  <2>1. runningApp = NoApp /\ runningApp' = app
        /\ UNCHANGED <<menuVars, badge_lander_state, messengerVars, ctfVars>>
    BY <1>3 DEF Start
  <2>2. Shown = NoMenu BY <2>1, ShownNames
  <2>3. MenuInv' BY <2>1, <2>2, MenuStaysClosed
  <2>4. AppsInv' BY <2>1 DEF AppsInv, messengerVars
  <2>5. CtfInv' BY <2>1, CtfStays, NoAppAssumption DEF AppNames
  <2>6. UNCHANGED textVars BY <2>1 DEF messengerVars
  <2> QED BY <1>1, <1>2, <2>1, <2>3, <2>4, <2>5, <2>6, TextStays
<1>4. CASE LanderPass
  <2>1. badge_lander_cb /\ UNCHANGED <<messengerVars, ctfVars>> BY <1>4 DEF LanderPass
  <2>2. runningApp = "lander" BY <2>1 DEF badge_lander_cb
  <2>3. MenuInv' /\ runningApp' \in {"lander", NoApp} /\ badge_lander_state' \in LanderStates
    BY <2>1, LanderStep
  <2>4. AppsInv' BY <2>1, <2>3 DEF AppsInv, messengerVars, AppNames
  <2>5. CtfInv' BY <2>1, <2>2, CtfStays
  <2>6. UNCHANGED textVars BY <2>1 DEF messengerVars
  <2> QED BY <1>1, <1>2, <2>1, <2>3, <2>4, <2>5, <2>6, TextStays
<1>5. CASE MessengerPass
  <2>1. badge_messenger_cb /\ UNCHANGED <<badge_lander_state, ctfVars>>
    BY <1>5 DEF MessengerPass
  <2>2. runningApp = "messenger" BY <2>1 DEF badge_messenger_cb
  <2>3. /\ MenuInv' /\ runningApp' \in {"messenger", NoApp} /\ badge_messenger_state' \in MessengerStates
        /\ relay_amount' \in 0..max_configurable_relay_amount
    BY <2>1, MessengerStep
  <2>4. AppsInv' BY <2>1, <2>3 DEF AppsInv, AppNames
  <2>5. CtfInv' BY <2>1, <2>2, CtfStays
  <2>6. TextInv' /\ TextLoss BY <2>1, TextStep DEF TextLoss
  <2> QED BY <1>2, <2>1, <2>3, <2>4, <2>5, <2>6
<1>6. CASE CtfPass
  <2>1. ctf_app /\ UNCHANGED <<badge_lander_state, messengerVars>> BY <1>6 DEF CtfPass
  <2>2. CtfKeeps /\ MenuInv' /\ runningApp' \in {"ctf", NoApp} BY <2>1, CtfStep
  <2>3. AppsInv' BY <2>1, <2>2 DEF AppsInv, messengerVars, AppNames
  <2>4. UNCHANGED textVars BY <2>1 DEF messengerVars
  <2> QED BY <1>1, <2>2, <2>3, <2>4, TextStays DEF CtfKeeps, LevelGain
<1>7. CASE Printed \/ Typed
  <2>1. /\ ConsolePass(Continue) \/ ConsolePass(Received)
        /\ UNCHANGED <<badge_lander_state, messengerVars>>
    BY <1>7 DEF Printed, Typed
  <2>2. UNCHANGED <<runningApp, menuVars, ctf_state, ctf_menu_state>>
    BY <2>1 DEF ConsolePass
  <2>3. CtfInv' BY <2>1, ConsoleStep
  <2>4. Shown' = Shown
    BY <2>1, <2>2 DEF Shown, LanderShows, MessengerShows, CtfShows, messengerVars
  <2>5. MenuInv' BY <2>2, <2>4, MenuStaysOpen
  <2>6. AppsInv' BY <2>1, <2>2 DEF AppsInv, messengerVars
  <2>7. UNCHANGED textVars BY <2>1 DEF messengerVars
  <2>8. LevelGain BY <2>2 DEF LevelGain
  <2> QED BY <1>1, <2>3, <2>5, <2>6, <2>7, <2>8, TextStays
<1>8. CASE Time
  <2>1. /\ sw_ctf_test' = 0
        /\ UNCHANGED <<runningApp, menuVars, ctf_state, ctf_menu_state, ctf_lightme_index, followed, serverVars>>
        /\ UNCHANGED <<badge_lander_state, messengerVars>>
    BY <1>8 DEF Time, Stopwatch
  <2>2. CtfInv'
    <3>1. CtfTypeInv' BY <2>1 DEF CtfInv, CtfTypeInv, serverVars
    <3>2. LevelInv' BY <2>1 DEF CtfInv, LevelInv
    <3>3. ServerInv' BY <2>1 DEF CtfInv, ServerInv, serverVars
    <3>4. EarnedInv' BY <2>1 DEF CtfInv, EarnedInv, serverVars
    <3> QED BY <3>1, <3>2, <3>3, <3>4 DEF CtfInv
  <2>3. Shown' = Shown
    BY <2>1 DEF Shown, LanderShows, MessengerShows, CtfShows, messengerVars
  <2>4. MenuInv' BY <2>1, <2>3, MenuStaysOpen
  <2>5. AppsInv' BY <2>1 DEF AppsInv, messengerVars
  <2>6. UNCHANGED textVars BY <2>1 DEF messengerVars
  <2>7. LevelGain BY <2>1 DEF LevelGain
  <2> QED BY <1>1, <2>2, <2>4, <2>5, <2>6, <2>7, TextStays
<1>9. CASE Usb \/ UNCHANGED vars
  <2>1. UNCHANGED <<runningApp, menuVars, badge_lander_state, messengerVars, ctfVars>>
    BY <1>9 DEF Usb, UsbChanges, vars
  <2>2. Shown' = Shown
    BY <2>1 DEF Shown, LanderShows, MessengerShows, CtfShows, messengerVars, ctfVars
  <2>3. MenuInv' BY <2>1, <2>2, MenuStaysOpen
  <2>4. CtfInv' BY <2>1, CtfStays
  <2>5. AppsInv' BY <2>1 DEF AppsInv, messengerVars
  <2>6. UNCHANGED textVars BY <2>1 DEF messengerVars
  <2> QED BY <1>1, <1>2, <2>1, <2>3, <2>4, <2>5, <2>6, TextStays
<1> QED BY <1>3, <1>4, <1>5, <1>6, <1>7, <1>8, <1>9 DEF Next

(* The inductive invariant holds for every text, alphabet and light.       *)
THEOREM AppsInvariant == Spec => []IInv
BY InitInv, Step, PTL DEF Spec

(* Every variable keeps its range.                                         *)
THEOREM AppsTypeCorrect == Spec => []TypeOK
<1> DEFINE UsbInv == usb_console \in BOOLEAN
<1>1. Init => UsbInv BY DEF Init
<1>2. UsbInv /\ [Next]_vars => UsbInv'
  BY DEF Next, Start, LanderPass, MessengerPass, CtfPass, Printed, Typed, ConsolePass, Usb,
         UsbChanges, Time, vars
<1>3. IInv /\ UsbInv => TypeOK
  <2> SUFFICES ASSUME IInv, UsbInv PROVE TypeOK OBVIOUS
  <2>1. MenuTypeOK
    <3>1. MenuAt(Shown) BY DEF IInv, MenuInv
    <3>2. CASE L_currMenu = NoMenu
      BY <3>1, <3>2, MenuNames DEF MenuTypeOK, MenuAt, STACK_SIZE
    <3>3. CASE L_currMenu # NoMenu
      <4>1. L_currMenu \in Menus BY <3>1, <3>3 DEF MenuAt, Roots, Menus
      <4>2. DOMAIN AppMenu[L_currMenu] = 1..Len(AppMenu[L_currMenu])
        BY <4>1, MenuSound DEF Sound
      <4>3. L_menuCnt \in 0..(STACK_SIZE - 1) BY <3>1, <3>3 DEF MenuAt, STACK_SIZE
      <4> QED BY <3>1, <3>3, <4>1, <4>2, <4>3, MenuNames DEF MenuTypeOK, MenuAt
    <3> QED BY <3>2, <3>3
  <2>2. outgoing_message \in [Cells -> Chars]
    <3>1. Alphabet \subseteq Chars BY MessengerAssumption DEF Alphabet, Chars
    <3> QED BY <3>1 DEF IInv, TextInv
  <2>3. Len(CtfMenu) = 10 BY DEF CtfMenu
  <2> QED BY <2>1, <2>2, <2>3 DEF TypeOK, IInv, AppsInv, TextInv, CtfInv, CtfTypeInv
<1> HIDE DEF UsbInv
<1> QED BY <1>1, <1>2, <1>3, AppsInvariant, PTL DEF Spec

(* genericMenu remembers no menu that the running application does not     *)
(* show now (menu.c:1213).                                                 *)
THEOREM MenusAreNotStale == Spec => []NoStaleMenu
<1>1. IInv => NoStaleMenu
  <2> SUFFICES ASSUME IInv, L_currMenu # NoMenu
               PROVE  /\ L_menuStack[0] = Shown
                      /\ IF L_menuCnt = 0 THEN L_currMenu = Shown
                         ELSE \E k \in DOMAIN AppMenu[L_menuStack[L_menuCnt - 1]] :
                                AppMenu[L_menuStack[L_menuCnt - 1]][k].goes = L_currMenu
    BY DEF NoStaleMenu
  <2>1. /\ L_menuStack[0] = Shown
        /\ \/ L_menuCnt = 0 /\ L_currMenu = Shown
           \/ L_menuCnt = 1 /\ Shown = "lander_main_m" /\ L_currMenu = "lander_help_m"
    BY DEF IInv, MenuInv, MenuAt
  <2>2. 2 \in DOMAIN AppMenu["lander_main_m"] /\ AppMenu["lander_main_m"][2] = Submenu("lander_help_m")
    BY LanderItems
  <2>3. AppMenu["lander_main_m"][2].goes = "lander_help_m" BY <2>2 DEF Submenu, Item
  <2>4. CASE L_menuCnt = 0 BY <2>1, <2>4
  <2>5. CASE L_menuCnt = 1
    <3>1. L_menuStack[L_menuCnt - 1] = "lander_main_m" /\ L_currMenu = "lander_help_m"
      BY <2>1, <2>5
    <3> QED BY <2>1, <2>2, <2>3, <2>5, <3>1
  <2> QED BY <2>1, <2>4, <2>5
<1> QED BY <1>1, AppsInvariant, PTL

(* The button always finds an item to press (menu.c:1213).                 *)
THEOREM CursorAlwaysStops == Spec => []CursorStops
<1>1. IInv => CursorStops BY DEF IInv, MenuInv, MenuAt, CursorStops
<1> QED BY <1>1, AppsInvariant, PTL

(* The console takes characters only for a challenge on the screen         *)
(* (main.c:483).                                                           *)
THEOREM ServerOnlyForChallenges == Spec => []ServerOnlyInChallenge
<1>1. IInv => ServerOnlyInChallenge
  BY DEF IInv, CtfInv, ServerInv, ServerPages, ServerOnlyInChallenge
<1> QED BY <1>1, AppsInvariant, PTL

(* For every alphabet and length of the text, the editor loses the         *)
(* terminator in one way only (messenger.c:271).                           *)
THEOREM TerminatorIsKept == Spec => TerminatorKept
<1>1. IInv /\ [Next]_vars => [TextLoss]_vars BY Step
<1>2. Spec => [][TextLoss]_vars BY <1>1, AppsInvariant, PTL DEF Spec
<1> QED BY <1>2, PTL DEF TerminatorKept, TextLoss

(* Levels are passed one by one (CTF.c:178).                               *)
THEOREM LevelsGoInOrder == Spec => LevelsInOrder
<1>1. IInv /\ [Next]_vars => [ctf_menu_state' \in {ctf_menu_state, ctf_menu_state + 1}]_vars
  BY Step DEF LevelGain
<1> QED BY <1>1, AppsInvariant, PTL DEF Spec, LevelsInOrder

(* A level with a challenge on the console is passed only by an answer     *)
(* accepted since the challenge was started (CTF.c:1046).                  *)
THEOREM LevelsAreEarned == Spec => LevelIsEarned
<1>1. IInv /\ [Next]_vars =>
        [ctf_menu_state' # ctf_menu_state /\ ctf_menu_state' \in {6, 8, 10} => granted]_vars
  BY Step DEF LevelGain
<1> QED BY <1>1, AppsInvariant, PTL DEF Spec, LevelIsEarned

-----------------------------------------------------------------------------
(* Where Light Me is passed by failing.                                    *)

\* What the start of the light leaves out: resetting the index (CTF.c:942).
LitFromTheStart == ctf_state # "LIGHT_ME2" /\ ctf_state' = "LIGHT_ME2" => ctf_lightme_index = 0

\* Every blink that the light has come past was answered, all of them at its end.
FollowedInv ==
  /\ ctf_state = "LIGHT_ME2" => followed = ctf_lightme_index
  /\ ctf_state = "LIGHT_ME_PASS" => followed = Len(ctf_lightme_message)

(* Only the page before it leads to the light, and only the light to its   *)
(* success.                                                                *)
LEMMA LightPages ==
  /\ \A p \in DOMAIN DrawnThen : DrawnThen[p] \notin {"LIGHT_ME2", "LIGHT_ME_PASS"}
  /\ \A p \in DOMAIN PressedThen :
       PressedThen[p] # "LIGHT_ME_PASS" /\ (PressedThen[p] = "LIGHT_ME2" => p = "LIGHT_ME_BP")
  /\ \A n \in 1..10 : <<n, "LIGHT_ME2">> \notin Opened /\ <<n, "LIGHT_ME_PASS">> \notin Opened
<1>1. \A p \in DOMAIN DrawnThen : DrawnThen[p] \notin {"LIGHT_ME2", "LIGHT_ME_PASS"} BY DEF DrawnThen
<1>2. \A p \in DOMAIN PressedThen :
        PressedThen[p] # "LIGHT_ME_PASS" /\ (PressedThen[p] = "LIGHT_ME2" => p = "LIGHT_ME_BP")
  BY DEF PressedThen
<1>3. \A n \in 1..10 : <<n, "LIGHT_ME2">> \notin Opened /\ <<n, "LIGHT_ME_PASS">> \notin Opened
  BY DEF Opened
<1> QED BY <1>1, <1>2, <1>3

(* A blink that is answered right counts once, and the last one ends the   *)
(* light.                                                                  *)
LEMMA BlinkFollowed ==
  ASSUME CtfInv, FollowedInv, ctf_light_me2
  PROVE  FollowedInv'
<1> DEFINE n == Len(ctf_lightme_message)
<1>1. n \in Nat /\ ctf_lightme_index \in 0..n BY LightAssumption DEF CtfInv, CtfTypeInv
<1>2. ctf_state = "LIGHT_ME2" /\ followed = ctf_lightme_index BY DEF ctf_light_me2, FollowedInv
<1>3. CASE ctf_lightme_index < n
  <2> DEFINE more == Min({followed + 1, n})
  <2>1. more = ctf_lightme_index + 1
    <3>1. followed + 1 \in Nat /\ followed + 1 <= n BY <1>1, <1>2, <1>3
    <3>2. {followed + 1, n} \in SUBSET Nat /\ {followed + 1, n} # {} BY <1>1, <3>1
    <3>3. more \in {followed + 1, n} /\ \A x \in {followed + 1, n} : more <= x BY <3>2, MinIsLeast
    <3> HIDE DEF n, more
    <3> QED BY <1>1, <1>2, <3>1, <3>3
  <2>2. PICK pressed \in {0, 1} :
          LET right == ctf_lightme_index = 0 \/ pressed = ctf_lightme_message[ctf_lightme_index]
          IN  /\ ctf_state' = IF right THEN ctf_state ELSE "LIGHT_ME_FAIL"
              /\ followed' = IF right THEN more ELSE followed
    BY <1>3 DEF ctf_light_me2
  <2>3. ctf_lightme_index' = ctf_lightme_index + 1 BY <1>3 DEF ctf_light_me2, LightIndex
  <2> HIDE DEF n, more
  <2> QED BY <1>2, <2>1, <2>2, <2>3 DEF FollowedInv
<1>4. CASE ~(ctf_lightme_index < n)
  <2>1. ctf_state' = "LIGHT_ME_PASS" /\ UNCHANGED followed BY <1>4 DEF ctf_light_me2
  <2>2. ctf_lightme_index = n BY <1>1, <1>4
  <2> QED BY <1>2, <2>1, <2>2 DEF FollowedInv
<1> QED BY <1>3, <1>4

LEMMA GameFollowed ==
  ASSUME CtfInv, MenuInv, FollowedInv, LitFromTheStart, ctf_app
  PROVE  FollowedInv'
<1>1. CASE ctf_draw
  <2>1. ctf_state \in DOMAIN DrawnThen /\ ctf_state' = DrawnThen[ctf_state] BY <1>1 DEF ctf_draw, Leave
  <2> QED BY <2>1, LightPages DEF FollowedInv
<1>2. CASE ctf_press
  <2>1. /\ ctf_state \in DOMAIN PressedThen /\ ctf_state' = PressedThen[ctf_state]
        /\ ctf_lightme_index' = ctf_lightme_index
        /\ ctf_state = "LIGHT_ME_BP" => followed' = 0
    BY <1>2 DEF ctf_press, Leave
  <2>2. ctf_state' = "LIGHT_ME2" => ctf_state = "LIGHT_ME_BP" /\ ctf_lightme_index = 0
    BY <2>1, LightPages DEF LitFromTheStart
  <2> QED BY <2>1, <2>2, LightPages DEF FollowedInv
<1>3. CASE ctf_grounded2
  BY <1>3 DEF ctf_grounded2, Leave, FollowedInv
<1>4. CASE ctf_light_me2 BY <1>4, BlinkFollowed
<1>5. CASE ctf_menus
  <2>1. ctf_state = "MENU" BY <1>5 DEF ctf_menus
  <2>2. PICK n \in 1..10 : n = ctf_menu_state BY DEF CtfInv, CtfTypeInv
  <2>3. CASE ctf_state' = "MENU" BY <2>3 DEF FollowedInv
  <2>4. CASE ctf_page_cb
    <3>1. PICK page \in CtfPages : genericMenuRuns(page) /\ ctf_state' = page
      BY <2>4 DEF ctf_page_cb
    <3>2. runningApp = "ctf" BY DEF ctf_app
    <3>3. PICK root : root = CtfMenu[n] OBVIOUS
    <3>4. root \in Roots /\ LevelIs(n, root) BY <3>3, LevelItems
    <3>5. Shown = root BY <2>1, <2>2, <3>2, <3>3, ShownNames DEF CtfShows
    <3>6. MenuAt(root) BY <3>5 DEF MenuInv
    <3>7. \E k \in DOMAIN AppMenu[root] : AppMenu[root][k].goes = page
      BY <3>1, <3>6, GenericMenuRuns
    <3>8. page # "quit" BY PageNames DEF LevelOf, FreePages
    <3>9. <<n, page>> \in Opened BY <3>4, <3>7, <3>8 DEF LevelIs
    <3> QED BY <3>1, <3>9, LightPages DEF FollowedInv
  <2> QED BY <1>5, <2>1, <2>3, <2>4 DEF ctf_menus, ctf_quit_cb
<1> QED BY <1>1, <1>2, <1>3, <1>4, <1>5 DEF ctf_app

LEMMA FollowedStep ==
  ASSUME IInv, FollowedInv, LitFromTheStart, Next
  PROVE  FollowedInv'
<1>1. CASE CtfPass BY <1>1, GameFollowed DEF CtfPass, IInv
<1>2. CASE ~CtfPass
  <2>1. UNCHANGED <<ctf_state, ctf_lightme_index, followed>>
    <3>1. CASE (\E app \in AppNames : Start(app)) \/ LanderPass \/ MessengerPass
      BY <3>1 DEF Start, LanderPass, MessengerPass, ctfVars, lightVars
    <3>2. CASE Printed \/ Typed \/ Time
      BY <3>2 DEF Printed, Typed, Time, ConsolePass, Stopwatch
    <3>3. CASE Usb BY <3>3 DEF Usb, UsbChanges, ctfVars, lightVars
    <3> QED BY <1>2, <3>1, <3>2, <3>3 DEF Next
  <2> QED BY <2>1 DEF FollowedInv
<1> QED BY <1>1, <1>2

(* The index that is not reset is the only way to pass Light Me without    *)
(* following it: if each attempt begins with the first blink, the page of  *)
(* success is reached only by answering all that are compared, for every   *)
(* message of the light (CTF.c:942).                                       *)
THEOREM LightFromTheStartIsEarned == Spec /\ [][LitFromTheStart]_vars => []LightMeIsEarned
<1>1. Init => FollowedInv BY DEF Init, CtfInit, FollowedInv
<1>2. IInv /\ FollowedInv /\ [Next]_vars /\ [LitFromTheStart]_vars => FollowedInv'
  <2>1. CASE Next /\ LitFromTheStart BY <2>1, FollowedStep
  <2>2. CASE UNCHANGED vars BY <2>2 DEF vars, ctfVars, lightVars, FollowedInv
  <2> QED BY <2>1, <2>2
<1>3. FollowedInv => LightMeIsEarned BY DEF FollowedInv, LightMeIsEarned
<1> QED BY <1>1, <1>2, <1>3, AppsInvariant, PTL DEF Spec
=============================================================================
