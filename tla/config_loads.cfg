SPECIFICATION Spec
CONSTANTS
  U32 = 4
  Main = main_task
  Callers = {c1, c2}
  Files <- MCFiles
  Unreadable = Unreadable
  EditBound = 2
  Rules <- MCRules
  RouterUpdates <- MCRouterUpdates
SYMMETRY CallerSymmetry
INVARIANTS
  EveryServedRuleHasARouter
  OlderOnlyWhenOvertaken
  CopiesDifferOnlyByEdit
PROPERTIES
  ChangesStayLocal
CHECK_DEADLOCK FALSE
