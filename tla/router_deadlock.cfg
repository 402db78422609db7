CONSTANTS
  U32 = 4
  t1 = t1
  t2 = t2
  Tasks = {t1, t2}
  Ops = {"route", "update_backend_health"}
  Configs <- MCConfigs
  Contexts <- MCContexts
  Reports <- MCReports
  Loads <- MCLoads
SPECIFICATION RSpec
CHECK_DEADLOCK FALSE
INVARIANTS
  NeverStuck
