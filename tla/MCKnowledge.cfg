SPECIFICATION MCSpec
CONSTANTS
  j1 = j1
  j2 = j2
  Jobs = {j1, j2}
  Count <- MCCount
  Losses = 1
  QueueSize = 2
  MaxUploads = 2
  Clients = {c1, c2}
  Backends = {"llamaindex", "opensearch", "azure", "nemo", "nemo_service", "foundational_rag"}
  Alone = {"foundational_rag", "azure"}
INVARIANTS
  WellFormed
  MCTruthful
  MCGoneIsEmpty
PROPERTIES
  OutcomeKept
  JobsEnd
CHECK_DEADLOCK FALSE
