SPECIFICATION Spec
CONSTANTS
  Tools = {t1}
  None = None
  QueueCap = 1
  MaxVersion = 1
  MaxCalls = 1
INVARIANT NoBlankEntry
