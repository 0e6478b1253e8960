\* two replicas, one reader, and a thread that schedules and cancels
SPECIFICATION TailSpec
CONSTANTS
  Apps = {a1}
  NumReplicas = 2
  Callers = {c1, c2}
  Submitters = {c1}
  CacheSize = 1
  ErrorWriters = {}
  Readers = {c2}
  Logged = {a1}
  Source = 1
  MaxPieces = 2
INVARIANTS
  TailTypeOK
  
CHECK_DEADLOCK FALSE
