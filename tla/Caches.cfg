SPECIFICATION CachesSpec
CONSTANTS
  v1 = v1
  v2 = v2
  Keys = {k1, k2}
  BodyVersions = {v1, v2}
  NoBody = NoBody
  SizeOf <- MCSizeOf
  MaxBody = 2
  Caps = {0, 1, 3}
  Callers = {c1}
  BodyQueueCap = 1
  BodyBatch = 2
  MaxClock = 3
  MaxDeletes = 1
  MaxClears = 1
  MaxOpens = 2
  MaxFaults = 1
  Paths = {p1}
  Builders = {b1, b2}
  None = None
  Backends <- BothBackends
  QueueCap = 1
  Batch = 2
  MaxVersion = 2
  MaxCrashes = 1
SYMMETRY Symmetry
INVARIANTS BodyTypeOK BatchExact TypeOK IndexHonest
PROPERTIES BodiesLossy IsLossyCache
CHECK_DEADLOCK FALSE
