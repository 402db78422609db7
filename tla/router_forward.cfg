CONSTANTS
  U32 = 4
  t1 = t1
  t2 = t2
  t3 = t3
  Tasks = {t1, t2, t3}
  Ops = {"initialize", "route", "get_stats", "update_backend_connections", "shutdown"}
  Configs <- ForwardConfigs
  Contexts <- MCContexts
  Reports <- MCReports
  Loads <- ForwardLoads
SPECIFICATION RFairSpec
INVARIANTS
  TypeOK
  NeverStuck
PROPERTIES
  EveryCallReturns
