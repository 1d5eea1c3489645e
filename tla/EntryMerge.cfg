SPECIFICATION Spec
CONSTANTS
  Tools = {t1, t2}
  None = None
  QueueCap = 1
  MaxVersion = 2
  MaxCalls = 3
SYMMETRY Symmetry
INVARIANT TypeOK MergeHonest
PROPERTY BuildsOnlyAdd
