SPECIFICATION Spec
CONSTANTS
  FilePaths = {1, 2, 3}
  SortVals <- TwoInts
  MaxUpdates = 2
  Limits = {0, 1, 2}
  Names = {1, 2, 3, 4, 5}
  Upper = {2, 3, 4, 5}
  SourceTrees <- SomeTrees
  RefLangs = {"go"}
  EntryPoints = {1}
  TestEntries = {5}
  CmdNames = {}
  ExportLangs = {"go"}
  NoPackage = "none"
  Rels = {"f", "g"}
  Blobs = {x1, x2}
  Opaque = Opaque
  NoFile = NoFile
  GroupFiles = {1, 2, 3, 4}
  FileStates <- FourStates
  FirstDisks <- SomeDisks
  MaxEdits = 1
  MinSize = 1
  Distance = 2
  Places = {"o1", "o2", "t", "t1", "u1"}
  Originals = {"o1", "o2"}
  Templates <- SomeTemplates
  Variants <- SomeVariants
  OldFile = "old"
  Scrap = "scrap"
  Units = 2
  Builds = {1, 2}
  Requests <- SomeRequests
  MaxChanges = 1
  NoStored = NoStored
  NameOrder <- SomeNames
  DiskTrees <- SomeDiskTrees
  WalkOptions <- SomeWalks
  DiskChanges <- SomeDiskChanges
  GitName = ".git"
  Marker = "m"
  Artefacts = {"v"}
  Values <- SomeValues
  MissingKey = 99
  Arrangements <- SomeArrangements
  Workers = 2
  SnippetLines = 2
  Snapshots <- SomeSnapshots
  RowLimit = 3
  Filters = {"", "some", "near", "bad"}
  Queries = {"", "q1"}
  Matching <- SomeMatching
  Close <- SomeClose
  Heights = {1, 2}
  Containers <- SomeContainers
INVARIANTS PagesExact DiffExact OrganizeSafe PlaygroundExact GroupsExact VerdictsAgree CallsExact RowsHonest CallsHonest SelectionExact ReadOrderly MediaExact
CHECK_DEADLOCK FALSE
