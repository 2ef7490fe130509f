SPECIFICATION Spec
CONSTANTS
  JobId = {j1, j2}
  Key = {k1}
  MaxActive = 1
  TTL = 1
  MaxTime = 1
  DbFaults = FALSE
  NoDir = NoDir
INVARIANTS
  CachedFilesBounded
