CONSTANTS
  U32 = 4
  t1 = t1
  t2 = t2
  t3 = t3
  t4 = t4
  Tasks = {t1, t2, t3, t4}
  Ops = {"initialize", "route", "update_backend_health", "reload_config", "update_backend_connections"}
  Configs <- MCConfigs
  Contexts <- OneContext
  Reports <- MCReports
  Loads <- MCLoads
SYMMETRY Symmetry
SPECIFICATION RSpec
CHECK_DEADLOCK FALSE
INVARIANTS
  CacheFollowsRules
  RulesHaveRouters
  RouterInUseStays
  StuckOnlyByInversion
PROPERTIES
  ImplementsTable
