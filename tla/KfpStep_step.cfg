\* every component of two fields, run by a pipeline or from a shell
SPECIFICATION Spec
CONSTANTS
  Components <- SmallComponents
  Plugins <- SmallPlugins
INVARIANTS
  TypeOK
  
  PluginsFirst
  
CHECK_DEADLOCK FALSE
