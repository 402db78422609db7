CONSTANTS
  b1 = b1
  l1 = l1
  Backends = {b1}
  Loops = {l1}
  Ops = {"start", "reload_config"}
  Retries = 1
  FailureThreshold = 2
  SuccessThreshold = 2
  CountBound = 2
  ReloadBound = 1
SPECIFICATION FairSpec
PROPERTIES
  DownIsTakenOut
