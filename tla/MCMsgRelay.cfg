SPECIFICATION FairSpec
CONSTANTS
  Badges <- TwoBadges
  Writers <- OneWriter
  MAX_MSG_LENGTH = 4
  IndexRange = 8
  Chars <- MCChars
  MSG_NULL_TERM = "nul"
  BlankChar = "blank"
  outgoing_message <- Outgoing
  relay_amount <- Amount
  InboxRoom = 2
  MaxSends = 1
INVARIANTS TypeOK EchoIsLower RelayInText
PROPERTIES RelayUndisturbed FloodEnds RelayCompletes
