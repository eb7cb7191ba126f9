\* Light Me is passed without following the light.
SPECIFICATION Spec
CONSTANTS
  NoMenu = NoMenu
  NoApp = NoApp
  MAX_MSG_LENGTH = 3
  LAST_CHAR = 1
  MSG_NULL_TERM = 3
  CHAR_RANGE = 5
  max_configurable_relay_amount = 4
  FirstText <- MCText
  ctf_lightme_message <- MCLight
INVARIANT LightMeIsEarned
