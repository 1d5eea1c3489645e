SPECIFICATION Spec
CONSTANTS
  Files = {f1}
  Models = {m1, m2}
  Callers = {c1, c2}
  None = None
  Backends <- BothBackends
  Chunks <- Shrinking
  QueueCap = 1
  MaxVersion = 2
  MaxStamp = 2
SYMMETRY Symmetry
INVARIANTS TypeOK WarmExact
CHECK_DEADLOCK FALSE
