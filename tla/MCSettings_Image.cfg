SPECIFICATION Spec
CONSTANTS
  MaxChanges = 2
  MaxFaults = 0
  MaxCuts = 1
  MaxClock = 2
INVARIANTS
  ImageRestored
CHECK_DEADLOCK FALSE
