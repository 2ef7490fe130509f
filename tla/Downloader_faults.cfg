SPECIFICATION Spec
CONSTANTS
  JobId = {j1, j2, j3}
  Key = {k1, k2}
  MaxActive = 2
  TTL = 1
  MaxTime = 2
  DbFaults = TRUE
  NoDir = NoDir
SYMMETRY Symmetry
INVARIANTS
  SlotsAccounted
  NoForeignVideo
  NobodyWaitsInVain
PROPERTIES
  LifecycleSpec
  SweepSparesLiveDirs
