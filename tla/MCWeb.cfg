SPECIFICATION WebSpec
CONSTANTS
  c1 = c1
  j1 = j1
  Convs = {c1, c2}
  MaxEvents = 3
  MaxAuth = 1
  MaxTries = 1
  Chats = {c1, c2}
  Jobs = {j1, j2}
  None = None
  MaxActs = 2
  Views = {"chat", "research"}
INVARIANTS
  WebTypeOK
  ConversationsIsolated
  RunsAtMostTwice
PROPERTIES
  InterfaceReleased
CHECK_DEADLOCK FALSE
