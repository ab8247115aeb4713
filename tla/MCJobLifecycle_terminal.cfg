SPECIFICATION Spec
CONSTANTS
  c1 = c1
  c2 = c2
  r1 = r1
  r2 = r2
  Cancels = {c1}
  Replicas = {r1, r2}
  MaxRuns = 1
  Timeout = 2
  LeaseEvery = 1
  BeatEvery = 1
  NoEvent = NoEvent
PROPERTIES
  TerminalImmutable
CHECK_DEADLOCK FALSE
