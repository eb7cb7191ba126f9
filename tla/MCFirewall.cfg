SPECIFICATION Spec
CONSTANTS
  b1 = b1
  b2 = b2
  Badges <- TwoBadges
  GRID_CELLS = 2
  Placements <- TwoPlacements
  Randoms <- DifferentDraws
  InboxRoom = 2
  MaxOpens = 1
INVARIANTS TypeOK HighestStarts TurnsAlternate GridsAgree VictoryIsEarned
PROPERTIES GameIsPlayed StallLasts
CHECK_DEADLOCK FALSE
