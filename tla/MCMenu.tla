------------------------------- MODULE MCMenu -------------------------------
(***************************************************************************)
(* Menu with a part of the badge's tree: the main menu with its hidden     *)
(* last items, a schedule that is mostly skipped items, and a setting      *)
(* three levels down.  The badge's whole tree, and its stack of eight, are *)
(* beyond TLC: here it only evaluates that they meet the assumptions from  *)
(* which MenuProofs derives the invariants.                                *)
(***************************************************************************)
EXTENDS Menu, BadgeMenus

Tree ==
  [main |-> <<Default(Sub("gadgets")), Sub("schedule"), Sub("settings"),
              Ending(Hide(Fun("clear"))), Ending(Hide(BackItem))>>,
   gadgets |-> <<Fun("app"), Back>>,
   schedule |-> Lines(2) \o <<Sub("next"), Back>>,
   next |-> Lines(1) \o <<Back>>,
   settings |-> LeadingTo("LEDlight"),
   LEDlight |-> LeadingTo("LEDlightList"),
   LEDlightList |-> Settings(2)]

TreeMenus == DOMAIN Tree

Badge == INSTANCE Menu WITH MAX_MENU_DEPTH <- 8, Menus <- DOMAIN BadgeTree, Items <- BadgeTree,
                            main_m <- "main", ClearItem <- ClearMessage, NoMenu <- "none"

ASSUME BadgeIsWellFormed == Badge!WellFormed
=============================================================================
