SPECIFICATION Spec
CONSTANTS
  None = None
  p1 = p1
  p2 = p2
  p3 = p3
  Procs = {p1, p2, p3}
  BuildOf <- MCBuildOf
  FirstFile = {None, "blank", "foreign", "broken", "b1", "b2"}
  MaxFiles = 5
  Pids = {pid1, pid2}
  MaxScans = 1
  Calls = {c1, c2}
  Streams = {s1, s2}
  Nobody = Nobody
  Outbox = 1
  RecentCap = 2
  MaxEvents = 3
  Readers = {r1, r2}
  NoReader = NoReader
  Slots = {1, 2}
  MaxReads = 2
  Tools = {t1}
  Posts = {q1, q2}
  Browsers = {browser}
  Runs <- SomeRuns
  NoHolder = NoHolder
  rt = rt
  da = da
  db = db
  ig = ig
  fe = fe
  sc = sc
  ff = ff
  Nodes = {rt, da, db, ig, fe, sc, ff}
  Files = {fe, ff}
  Parent <- MCParent
  Roots <- TwoRoots
  Hidden = {}
  Ignored = {ig}
  FileCosts = {TRUE, FALSE}
  MaxWatchFDs = 3
  MaxMoves = 2
  d1 = d1
  d2 = d2
  d3 = d3
  Texts <- ThreeTexts
  Scanners = {w1, w2}
  CtxBefore = 1
  CtxAfter = 1
  PerFile = 2
INVARIANTS IndexSafe PeersListed LiveFeed OneAnswer ServerSafe TreeWatched MatchesExact
PROPERTY PartsSettle
CHECK_DEADLOCK FALSE
