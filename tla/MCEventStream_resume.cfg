SPECIFICATION Spec
CONSTANTS
  MaxId = 3
  MaxConnections = 2
  MaxOpen = 2
  Modes = {"polling"}
  ReplayLimit = 2
  LiveLimit = 1
  TerminalLimit = 3
INVARIANTS
  ResumeComplete
CHECK_DEADLOCK FALSE
