SPECIFICATION Spec
CONSTANTS
  Server = {s1, s2}
  Browser = {b1, b2}
  Flow = {f1, f2}
  NoFlow = NoFlow
  Callback = {c1, c2}
  User = {"ann", "bob"}
  NoEmail = NoEmail
  Email <- EmailOf
  AllowedSubjects = {}
  AllowedEmails = {"ann@"}
  FlowTTL = 1
  DbFaults = TRUE
  MaxTime = 1
SYMMETRY Interchangeable
INVARIANTS
  TypeOK
  TakenOncePerProcess
  SessionForStarter
  TakenInTime
  StateRefusedForCause
