SPECIFICATION FairSpec
CONSTANTS
  Server = {s1, s2}
  NoServer = NoServer
  Env <- Environments
  MaxFaults = 2
INVARIANTS
  TypeOK
  ServesOnFullSchema
PROPERTIES
  SomebodyServes
  MigratesAtomically
