\* two threads on one session, and two applications
SPECIFICATION RunnerSpec
CONSTANTS
  c1 = c1
  c2 = c2
  s1 = s1
  Apps = {a1, a2}
  Sessions = {s1}
  Callers = {c1, c2}
  SessionOf <- OneSession
SYMMETRY AppSymmetry
INVARIANTS
  RunnerTypeOK
  WaitTellsTheEnd
  
  ListForgets
  KnownIsListed
CHECK_DEADLOCK FALSE
