SPECIFICATION GraphSpec
CONSTANTS
  Limit = 1
  None = None
  Profiles = {"stitched", "single1", "offline"}
INVARIANTS
  AlarmIsDue
  NothingForgotten
CHECK_DEADLOCK FALSE
PROPERTIES
  PairEnds
  HangEnds
