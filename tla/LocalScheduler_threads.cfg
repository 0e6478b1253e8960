\* two threads on one scheduler object, and one application of two replicas
\* that both write an error file
SPECIFICATION Spec
CONSTANTS
  Apps = {a1}
  NumReplicas = 2
  Callers = {c1, c2}
  Submitters = {c1}
  CacheSize = 1
  ErrorWriters = {1, 2}
INVARIANTS
  TerminalMeansExited
  OutcomeAccurate
  SuccessMeansClosed
  
  TruthInvariant
PROPERTIES
  OnlyCancelTerminates
CHECK_DEADLOCK FALSE
