CONSTANTS
  t1 = t1
  t2 = t2
  Tasks = {t1, t2}
  Installed = {"round_robin", "weighted", "hash", "least_connections", "random"}
  web = web
  api = api
  Rules = {web, api}
  Lists <- MCLists
  WeightLists <- MCWeightLists
  U32 = 8
  Profiles = {"dev", "release"}
  Clients <- MCClients
  Options = {"client_ip", "client_port"}
  Hash <- MCHash
  CounterSize = 3
  MaxRequests = 5
SPECIFICATION Spec
SYMMETRY MCSymmetry

CHECK_DEADLOCK FALSE
INVARIANTS
  TypeOK
  PicksAreChoices
  RotatesEvenly
  EveryAnswerIsCounted
  DrawsInProportion
  NeverFallsBack
  FailsOnlyByOverflow
