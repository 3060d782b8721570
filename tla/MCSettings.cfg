SPECIFICATION Spec
CONSTANTS
  MaxChanges = 2
  MaxFaults = 1
  MaxCuts = 1
  MaxClock = 2
INVARIANTS
  ChosenInForce
  CameraAsShown
  ToldSavedIsSaved
PROPERTIES
  ComesRight
CHECK_DEADLOCK FALSE
