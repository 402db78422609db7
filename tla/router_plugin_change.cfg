CONSTANTS
  U32 = 4
  t1 = t1
  t2 = t2
  Tasks = {t1, t2}
  Ops = {"reload_config"}
  Configs <- PluginConfigs
  Contexts <- MCContexts
  Reports <- MCReports
  Loads <- MCLoads
SPECIFICATION RSpec
CHECK_DEADLOCK FALSE
INVARIANTS
  ConfigurationTakesEffect
