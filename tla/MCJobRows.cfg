SPECIFICATION RowsSpec
CONSTANTS
  s1 = s1
  s2 = s2
  s3 = s3
  j1 = j1
  j2 = j2
  alice = alice
  bob = bob
  Submissions = {s1, s2, s3}
  Jobs = {j1, j2}
  JobOf <- MCJobOf
  Owners = {alice, bob}
  OwnerOf <- MCOwnerOf
  MaxGlobal = 1
  MaxPerOwner = 1
  MaxRate = 2
  Ttl = 2
  Window = 2
  Timely = TRUE
  text = text
  chart = chart
  Files = {f1, f2}
  Contents = {text, chart}
  Size <- FileSize
  None = None
  Nothing = Nothing
  Checkpoints = {h1}
  AgentFinal = AgentFinal
  RunnerFinal = RunnerFinal
  MaxCount = 2
  MaxTotal = 3
  MaxIds = 2
  MaxRuns = 2
INVARIANTS
  WithinCapacity
  RunsOwned
  RunsAdmitted
  InFlightKeepsRows
  ArtifactsKept
  CapturesSerialized
CHECK_DEADLOCK FALSE
SYMMETRY Alike
