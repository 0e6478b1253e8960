\* two finished applications in a full cache, and a third to schedule
SPECIFICATION Spec
CONSTANTS
  Apps = {a1, a2, a3}
  NumReplicas = 1
  Callers = {c1}
  Submitters = {c1}
  CacheSize = 2
  ErrorWriters = {}
PROPERTIES
  EvictsOldest
CHECK_DEADLOCK FALSE
