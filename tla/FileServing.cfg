SPECIFICATION ServeSpec
CONSTANTS
  JobId = {j1, j2}
  Key = {k1, k2}
  MaxActive = 1
  TTL = 1
  MaxTime = 3
  DbFaults = TRUE
  NoDir = NoDir
  Reader = {r1}
SYMMETRY Symmetry
INVARIANTS
  ReadsTypeOK
  ServedIsTheVideo
  RefusedOnlyWhenGone
