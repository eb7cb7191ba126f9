------------------------------ MODULE AppMenus ------------------------------
(***************************************************************************)
(* The menus of the applications that use genericMenu: the lander, the     *)
(* messenger and the capture-the-flag game (CTF).  A menu is a sequence of *)
(* items; `goes` is the submenu that an item opens, or what its function   *)
(* does.                                                                   *)
(***************************************************************************)
EXTENDS Integers, Sequences

Item(type, goes, skip, dflt) == [type |-> type, goes |-> goes, skip |-> skip, dflt |-> dflt]
Function(does) == Item("FUNCTION", does, FALSE, FALSE)
Default(does) == Item("FUNCTION", does, FALSE, TRUE)
Submenu(m) == Item("MENU", m, FALSE, FALSE)
Text == Item("TEXT", "nowhere", TRUE, FALSE)
Quit == Function("quit")

\* The CTF game has a menu for each of its levels.
Stage(does) == <<Default(does), Quit>>

AppMenu ==
  [lander_main_m |-> <<Default("INIT"), Submenu("lander_help_m"), Quit>>,
   lander_help_m |-> [k \in 1..11 |-> IF k = 11 THEN Item("BACK", "nowhere", FALSE, TRUE) ELSE Text],
   messenger_m   |-> [k \in 1..12 |-> CASE k = 8 -> Default("MSG_SENDING")
                                       [] k = 9 -> Function("MSG_CONFIG_MSG_TEXT")
                                       [] k = 10 -> Function("clear")
                                       [] k = 11 -> Function("MSG_CONFIG_RELAY_AMOUNT")
                                       [] k = 12 -> Quit
                                       [] OTHER -> Text],
   ctf_menu   |-> Stage("HELLO_WORLD"),
   ctf_menu2  |-> Stage("MYSTORY"),
   ctf_menu3  |-> <<Function("GROUNDED"), Quit>>,
   ctf_menu4  |-> Stage("LIGHT_ME"),
   ctf_menu5  |-> Stage("SERIALKILLER"),
   ctf_menu6  |-> Stage("EYECOLOR"),
   ctf_menu7  |-> <<Default("EYECOLOR_DIGIT1"), Function("EYECOLOR_SERIAL"), Quit>>,
   ctf_menu8  |-> Stage("BITBANGING"),
   ctf_menu9  |-> <<Default("BITBANGING_TEST"), Function("BITBANGING_CHALLENGE"), Quit>>,
   ctf_menu10 |-> Stage("SUCCESS")]

CtfMenu == <<"ctf_menu", "ctf_menu2", "ctf_menu3", "ctf_menu4", "ctf_menu5",
             "ctf_menu6", "ctf_menu7", "ctf_menu8", "ctf_menu9", "ctf_menu10">>
=============================================================================
