SPECIFICATION Spec
CONSTANTS
  s1 = s1
  s2 = s2
  s3 = s3
  j1 = j1
  j2 = j2
  alice = alice
  bob = bob
  Submissions = {s1, s2, s3}
  Jobs = {j1, j2}
  JobOf <- MCJobOf
  Owners = {alice, bob}
  OwnerOf <- MCOwnerOf
  MaxGlobal = 1
  MaxPerOwner = 1
  MaxRate = 2
  Ttl = 2
  Window = 2
  Timely = FALSE
  None = None
INVARIANTS
  RunsOwned
CHECK_DEADLOCK FALSE
