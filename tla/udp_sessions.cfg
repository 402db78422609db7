CONSTANTS
  c1 = c1
  Clients = {c1}
  HandlerBound = 2
  SocketBound = 2
  StartBound = 2
  DatagramBound = 3
  AnswerBound = 1
SPECIFICATION FairSpec
INVARIANTS
  TypeOK
  NeverOvercounts
  OneSocketUnlessCrossed
PROPERTIES
  SessionKeepsSocket
  ListenersEnd
  SessionsAreReclaimed
