SPECIFICATION Spec
CONSTANTS
  Server = {s1, s2}
  Token = {t1, t2}
  LocalTTL = 2
  OidcTTL = 1
  DbFaults = TRUE
  MaxSecrets = 2
  MaxTime = 3
SYMMETRY Interchangeable
INVARIANTS
  TypeOK
PROPERTIES
  GrantsOnlyLive
  LiveNotTurnedAway
  EndsForGood
