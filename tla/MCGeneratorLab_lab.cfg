SPECIFICATION FairSpec
CHECK_DEADLOCK FALSE
CONSTANTS
  Sizes <- MCSizes
  Widths <- MCWidths
  Winners <- MCWinners
  None = None
  MaxFaults = 3
INVARIANTS
  CursorHonest
  RepeatsOnlyAfterFaults
PROPERTIES
  FindCollected
