SPECIFICATION FairSpec
CONSTANTS
  JobId = {j1, j2, j3}
  Key = {k1}
  MaxActive = 2
  TTL = 1
  MaxTime = 2
  DbFaults = FALSE
  NoDir = NoDir
PROPERTIES
  JobsSettle
  CreatesAnswered
