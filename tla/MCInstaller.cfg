SPECIFICATION Spec
CONSTANT
  Attempts = 4
INVARIANTS
  StockIsRecoverable
  VerdictIsTrue
PROPERTIES
  MonitorResumes
