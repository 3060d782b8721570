SPECIFICATION SessionSpec
INVARIANTS
  MatchedPair
  CrashIsRecorded
PROPERTIES
  FallbackCompletes
