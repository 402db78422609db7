CONSTANTS
  ConnectionBound = 2
  StartBound = 2
  Attempts = 2
SPECIFICATION FairSpec
INVARIANTS
  TypeOK
  AtMostOneLate
  NothingLeaks
  StartedServes
  StoppedStops
  StopWaitsForRegistered
  MetricsAddUp
PROPERTIES
  StopReturns
  LeftConnectionsEnd
