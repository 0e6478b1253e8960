\* the application that is read may be evicted in favour of another
SPECIFICATION TailFairSpec
CONSTANTS
  Apps = {a1, a2}
  NumReplicas = 1
  Callers = {c1, c2}
  Submitters = {c1}
  CacheSize = 1
  ErrorWriters = {}
  Readers = {c2}
  Logged = {a1}
  Source = 1
  MaxPieces = 0
PROPERTIES
  CallsReturn
  IteratorEnds
CHECK_DEADLOCK FALSE
