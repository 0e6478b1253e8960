\* two threads on one session, one application
SPECIFICATION RunnerFairSpec
CONSTANTS
  c1 = c1
  c2 = c2
  s1 = s1
  Apps = {a1}
  Sessions = {s1}
  Callers = {c1, c2}
  SessionOf <- OneSession
PROPERTIES
  WaitReturns
CHECK_DEADLOCK FALSE
