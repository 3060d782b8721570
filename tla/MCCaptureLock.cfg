SPECIFICATION Spec
CONSTANTS
  p1 = p1
  p2 = p2
  p3 = p3
  Pids <- MCPids
  None = None
  Empty = Empty
SYMMETRY PidSymmetry
INVARIANTS
  OrderlyIsSerial
PROPERTIES
  StaleLockIsReclaimed
