SPECIFICATION MCSpec
CONSTANTS
  MaxId = 3
  MaxConnections = 2
  MaxOpen = 2
  Modes = {"polling", "pubsub"}
  ReplayLimit = 2
  LiveLimit = 1
  TerminalLimit = 3
INVARIANTS
  FaithfulReplay
  CompleteAtTerminal
PROPERTIES
  CatchesUp
  StreamEnds
CHECK_DEADLOCK FALSE
