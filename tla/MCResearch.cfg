SPECIFICATION MCSpec
CONSTANTS
  MaxQuestions = 2
  DialogueLimit = 7
  SearchTools = TRUE
  ToolBudget = 2
  MaxParallel = 2
  MaxTurns = 3
  PerTurn = 1
  Enforce = TRUE
  MaxHistory = 2
  Delegates = {d1, d2}
  MaxReports = 5
  TaskRetries = 1
  Verification = TRUE
  Tools = {t1, t2}
  MaxBatch = 2
  CallBudget = 6
  MaxFailed = 2
  Slots = 2
  Retries = 1
INVARIANTS
  MCTypeOK
  DialogueValid
  EvidenceFirst
  TurnsAnswered
  DeliversCommitted
PROPERTIES
  CallsBounded
CHECK_DEADLOCK FALSE
