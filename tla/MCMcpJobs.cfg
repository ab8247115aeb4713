SPECIFICATION Spec
CONSTANTS
  j1 = j1
  p1 = p1
  p2 = p2
  Jobs = {j1}
  Processes = {p1, p2}
  StaleAfter = 2
  BeatEvery = 1
  None = None
INVARIANTS
  StopSettles
  NoStrayThreads
PROPERTIES
  OutcomeIsFinal
  WorkingNotReaped
  CleansUp
CHECK_DEADLOCK FALSE
