SPECIFICATION Spec
CONSTANTS
  MaxClip = 2
  MaxSamples = 3
  Space = 4
INVARIANTS
  PublishedHasAcknowledged
  CrashLosesNothing
PROPERTIES
  RecoveryEnds
  KeepsPromise
