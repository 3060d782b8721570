SPECIFICATION Spec
CONSTANTS
  BurstLimit = 2
  ShotMod = 4
  MaxMedia = 2
  OtherClients = TRUE
INVARIANTS
  AnswerFindsItsQuestion
  SleepAgrees

PROPERTIES
  SequenceProceeds
CHECK_DEADLOCK FALSE
