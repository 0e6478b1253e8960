\* torchx log of up to three replicas
SPECIFICATION FairSpec
CONSTANTS
  MaxThreads = 3
INVARIANTS
  TypeOK
  EventsRecorded
  FailuresReported
PROPERTIES
  CommandEnds
CHECK_DEADLOCK FALSE
