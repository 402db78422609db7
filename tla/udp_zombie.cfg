CONSTANTS
  c1 = c1
  Clients = {c1}
  HandlerBound = 1
  SocketBound = 1
  StartBound = 1
  DatagramBound = 2
  AnswerBound = 1
SPECIFICATION Spec
CHECK_DEADLOCK FALSE
INVARIANTS
  EndedSessionsAreGone
