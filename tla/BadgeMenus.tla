----------------------------- MODULE BadgeMenus -----------------------------
(***************************************************************************)
(* The badge's own tree of menus, item by item: what an item is, where it  *)
(* leads and how the cursor treats it.  An item of the type MENU whose     *)
(* menu is NULL is a line of text that the cursor passes over.             *)
(***************************************************************************)
EXTENDS Naturals, Sequences, TLC

Item(type, menu, app) ==
  [type |-> type, menu |-> menu, app |-> app, skip |-> FALSE, dflt |-> FALSE,
   hidden |-> FALSE, last |-> FALSE]

Sub(menu) == Item("MENU", menu, "none")
Fun(app) == Item("FUNCTION", "none", app)
Skip == [Item("MENU", "none", "none") EXCEPT !.skip = TRUE]
Text == [Item("TEXT", "none", "none") EXCEPT !.skip = TRUE]
Default(item) == [item EXCEPT !.dflt = TRUE]
Ending(item) == [item EXCEPT !.last = TRUE]
Hide(item) == [item EXCEPT !.hidden = TRUE]
BackItem == Item("BACK", "none", "none")
Back == Ending(Default(BackItem))

Lines(n) == [k \in 1..n |-> Skip]
Functions(n, app) == [k \in 1..n |-> Fun(app)]

\* "Clear Message" is the item ClearMessage of the main menu: HIDDEN and LAST
\* until display_menu finds a message.
ClearMessage == 5

main_menu ==
  <<Default(Sub("games")), Sub("gadgets"), Sub("schedule_main"), Sub("settings"),
    Ending(Hide(Fun("clear"))), Ending(Hide(BackItem))>>

games_menu == Functions(4, "app") \o <<Sub("pong")>> \o Functions(2, "app") \o <<Back>>
pong_items == <<Default(Fun("app")), Fun("app"), Text, Ending(BackItem)>>
gadgets_menu == Functions(5, "app") \o <<Back>>

settings_menu ==
  <<Fun("app"), Sub("rotate"), Sub("backlight"), Sub("LEDlight"), Sub("buzzer"),
    Fun("app"), Fun("app"), Back>>

schedule_main ==
  LET day(ballroom, salon) == <<Skip, Sub(ballroom), Sub(salon), Skip, Skip>>
  IN  day("day_1a_ballroom", "day_1a_salon") \o day("day_2a_ballroom", "day_2a_salon") \o <<Back>>

schedule_days ==
  [day_1a_ballroom |-> Lines(8) \o <<Sub("day_1b_ballroom"), Back>>,
   day_1b_ballroom |-> Lines(9) \o <<Sub("day_1c_ballroom"), Back>>,
   day_1c_ballroom |-> Lines(9) \o <<Back>>,
   day_1a_salon |-> Lines(10) \o <<Back>>,
   day_2a_ballroom |-> Lines(9) \o <<Sub("day_2b_ballroom"), Back>>,
   day_2b_ballroom |-> Lines(6) \o <<Back>>,
   day_2a_salon |-> Lines(7) \o <<Back>>]

LeadingTo(menu) == <<Sub(menu), Back>>
Settings(n) == Functions(n, "setting") \o <<Back>>

backlight_menus == [backlight |-> LeadingTo("backlightList"), backlightList |-> Settings(7)]
rotate_menu == [rotate |-> Settings(2)]
LEDlight_menus == [LEDlight |-> LeadingTo("LEDlightList"), LEDlightList |-> Settings(8)]
buzzer_menus == [buzzer |-> LeadingTo("buzzer_config"), buzzer_config |-> Settings(2)]

BadgeTree ==
  [main |-> main_menu, games |-> games_menu, pong |-> pong_items, gadgets |-> gadgets_menu,
   settings |-> settings_menu, schedule_main |-> schedule_main]
  @@ schedule_days @@ backlight_menus @@ rotate_menu @@ LEDlight_menus @@ buzzer_menus
=============================================================================
