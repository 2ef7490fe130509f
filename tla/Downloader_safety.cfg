SPECIFICATION Spec
CONSTANTS
  JobId = {j1, j2, j3}
  Key = {k1, k2}
  MaxActive = 1
  TTL = 1
  MaxTime = 3
  DbFaults = FALSE
  NoDir = NoDir
SYMMETRY Symmetry
INVARIANTS
  TypeOK
  JobsFollowTasks
  RowsBacked
  OwnFileKept
PROPERTIES
  OnlyExpiredRowsGo
