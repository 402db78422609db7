CONSTANTS
  b1 = b1
  l1 = l1
  l2 = l2
  Backends = {b1}
  Loops = {l1, l2}
  Ops = {"start", "stop", "add_backend", "remove_backend", "reload_config"}
  Retries = 2
  FailureThreshold = 2
  SuccessThreshold = 2
  CountBound = 2
  ReloadBound = 1
SPECIFICATION FairSpec
INVARIANTS
  TypeOK
  RouterAgrees
  NeverDownNeverOut
PROPERTIES
  RoutingFollows
  DeadIsTakenOut
  StopEndsChecking
