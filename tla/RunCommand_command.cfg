\* torchx run with every small component, application and configuration, and
\* a program that loads component after component
SPECIFICATION Spec
CONSTANTS
  FileComponents <- SmallFileComponents
  ModuleComponents <- SmallModuleComponents
  AppDefs <- SmallAppDefs
  SchedulerArgs <- SmallSchedulerArgs
  Backends = {"local", "default", "kubernetes"}
INVARIANTS
  TypeOK
  
  
  HandleMeansAll
  ReplicasApart
  
CHECK_DEADLOCK FALSE
