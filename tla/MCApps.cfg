\* A badge's applications with genericMenu.
SPECIFICATION FairSpec
CONSTANTS
  NoMenu = NoMenu
  NoApp = NoApp
  MAX_MSG_LENGTH = 3
  LAST_CHAR = 1
  MSG_NULL_TERM = 3
  CHAR_RANGE = 5
  max_configurable_relay_amount = 4
  FirstText <- MCText
  ctf_lightme_message <- MCLight
INVARIANT TypeOK NoStaleMenu CursorStops ServerOnlyInChallenge
PROPERTY TerminatorKept LevelsInOrder LevelIsEarned InjectionEnds LightMeEnds
