SPECIFICATION Spec
CONSTANTS
  Server = {s1, s2}
  Browser = {b1}
  Flow = {f1}
  NoFlow = NoFlow
  Callback = {c1, c2}
  User = {"ann"}
  NoEmail = NoEmail
  Email <- EmailOf
  AllowedSubjects = {}
  AllowedEmails = {"ann@"}
  FlowTTL = 1
  DbFaults = FALSE
  MaxTime = 1
INVARIANTS
  FlowTakenOnce
