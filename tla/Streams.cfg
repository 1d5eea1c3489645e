SPECIFICATION StreamsSpec
CONSTANTS
  f1 = f1
  f2 = f2
  f3 = f3
  f4 = f4
  f5 = f5
  Files <- SomeFiles
  NRoots = 2
  FilesOf <- TwoRoots
  Matching <- SomeMatch
  None = None
  Workers = {w1, w2}
  OutCap = 1
  CanCancel = TRUE
  CanQuit = TRUE
  Paths = {p1, p2}
  NoEvent = NoEvent
  MaxMatches = 2
  MaxChanges = 3
  v1 = v1
  v2 = v2
  Keys = {k1, k2}
  BodyVersions = {v1, v2}
  NoBody = NoBody
  SizeOf <- MCSizeOf
  MaxBody = 2
  Caps = {2}
  Callers = {c1, c2}
  BodyQueueCap = 1
  BodyBatch = 2
  MaxClock = 3
  MaxDeletes = 0
  MaxClears = 0
  MaxOpens = 1
  MaxFaults = 1
INVARIANTS TypeOK WalkOrderly WatchTypeOK WatchExact
PROPERTIES IsSearch StepsRight StreamsSettle
CHECK_DEADLOCK FALSE
