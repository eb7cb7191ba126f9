SPECIFICATION Spec
CONSTANTS
  MAX_MENU_DEPTH = 5
  Menus <- TreeMenus
  NoMenu = "none"
  main_m = "main"
  ClearItem = 4
  Items <- Tree
INVARIANTS TypeOK CursorIsSelectable PathIsStacked SettingCanReturn
