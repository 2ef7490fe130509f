SPECIFICATION Spec
CONSTANTS
  Address = {ip1, ip2}
  Attempt = {a1, a2, a3, a4, a5}
  Limit = 2
  Window = 2
  MaxEntries = 1
  Parallel = 2
  MaxTime = 4
SYMMETRY Interchangeable
INVARIANTS
  TypeOK
  FailuresBounded
  RefusedForCause
PROPERTIES
  LocksHold
  GrowsPastCapByLiveOnly
