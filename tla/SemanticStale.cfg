SPECIFICATION Spec
CONSTANTS
  Files = {f1}
  Models = {m1}
  Callers = {c1}
  None = None
  Backends <- BothBackends
  Chunks <- Shrinking
  QueueCap = 2
  MaxVersion = 2
  MaxStamp = 1
INVARIANTS RankedFresh
CHECK_DEADLOCK FALSE
