\* one model, and a torchserve that may answer, refuse or say nothing
SPECIFICATION FairSpec
INVARIANTS
  TypeOK
  ServedWhileAsked
  RemovedAfterServing
PROPERTIES
  ServeEnds
CHECK_DEADLOCK FALSE
