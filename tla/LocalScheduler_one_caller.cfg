\* one thread, more applications than the cache holds, two replicas each
SPECIFICATION Spec
CONSTANTS
  Apps = {a1, a2}
  NumReplicas = 2
  Callers = {c1}
  Submitters = {c1}
  CacheSize = 1
  ErrorWriters = {1}
SYMMETRY AppSymmetry
INVARIANTS
  TypeOK
  CacheBounded
  CancelStops
  RunningIsTracked
PROPERTIES
  TerminalIsFinal
  ImplementsLifecycle
CHECK_DEADLOCK FALSE
