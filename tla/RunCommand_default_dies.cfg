\* the backend that is used when none is named
SPECIFICATION Spec
CONSTANTS
  FileComponents <- SmallFileComponents
  ModuleComponents <- SmallModuleComponents
  AppDefs <- SmallAppDefs
  SchedulerArgs <- SmallSchedulerArgs
  Backends = {"default"}
PROPERTIES
  JobOutlivesCommand
CHECK_DEADLOCK FALSE
