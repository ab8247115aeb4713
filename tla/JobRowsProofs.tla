--------------------------- MODULE JobRowsProofs ---------------------------
(***************************************************************************)
(* What jobs leave in tables and stores: proofs about JobAdmission, and    *)
(* then about Artifacts.                                                   *)
(*                                                                         *)
(* Admission, for every set of submissions, jobs and owners, all limits    *)
(* and all lease times.  Admits holds however submissions are delayed: a   *)
(* job row belongs to the submission that created it, a task belongs to a  *)
(* job that is still submitted, and a task past the fence or running keeps *)
(* its admission row.  Timed adds what holds when submissions renew in     *)
(* time: who is in flight holds the rows, so does every live job, and the  *)
(* rows counted never exceed the caps.                                     *)
(*                                                                         *)
(* Artifacts, for any files, contents, quotas, checkpoints, crashes and    *)
(* runs.                                                                   *)
(***************************************************************************)
EXTENDS JobAdmission, Artifacts, FiniteSetTheorems, TLAPS

-----------------------------------------------------------------------------
(* Admission: the invariants, by parts.                                    *)

\* A job row names a submission for its id that got as far as creating it.
RowsHaveCreator ==
  \A j \in Jobs : info[j] # None =>
    /\ JobOf[info[j].by] = j
    /\ pc[info[j].by] \in {"created", "enqueued", "accepted", "failed"}

\* A submission that created its job, or whose task exists, finds its row
\* still submitted until that task is fenced and writes RUNNING.
Submitted(s) ==
  /\ info[JobOf[s]] # None
  /\ info[JobOf[s]].by = s
  /\ info[JobOf[s]].status = "submitted"

TasksHaveRow ==
  \A s \in Submissions :
    /\ task[s] # "none" => pc[s] \in {"enqueued", "accepted", "failed"}
    /\ pc[s] = "created" \/ task[s] # "none" => Submitted(s)

Running(s) ==
  /\ info[JobOf[s]] # None
  /\ info[JobOf[s]].by = s
  /\ info[JobOf[s]].status = "running"

FencedKeepsToken ==
  \A s \in Submissions :
    task[s] = "fenced" \/ Running(s) => HasToken(admission, s)

Admits == TypeOK /\ RowsHaveCreator /\ TasksHaveRow /\ FencedKeepsToken

\* Only a submission that holds both rows has a renewal task.
Leasing == InFlight \ {"reserved"}

LeaseInFlight ==
  \A s \in Submissions : lease[s] # "off" => pc[s] \in Leasing

\* The rows of a submission in flight have not run out.
LeftInFlight ==
  \A s \in Submissions :
    /\ pc[s] \in InFlight /\ HasToken(admission, s) => admission[JobOf[s]].left > 0
    /\ pc[s] \in Leasing /\ HasToken(access, s) => access[JobOf[s]].left > 0

\* A live job has both rows of its creator.
LiveKeepsRows ==
  \A j \in Jobs : Live(j) =>
    HasToken(admission, info[j].by) /\ HasToken(access, info[j].by)

\* The caps hold of what admission counts.
Counted ==
  /\ Cardinality(ActiveGlobal(admission)) <= MaxGlobal
  /\ \A o \in Owners : Cardinality(ActiveFor(admission, o)) <= MaxPerOwner

Timed ==
  /\ Admits
  /\ LeaseInFlight
  /\ LeftInFlight
  /\ InFlightKeepsRows
  /\ LiveKeepsRows
  /\ Counted

-----------------------------------------------------------------------------
(* Type correctness.                                                       *)

LEMMA Limits ==
  ASSUME AdmissionAssumption
  PROVE  /\ MaxGlobal \in Nat /\ MaxPerOwner \in Nat
         /\ Ttl \in Nat /\ Ttl > 0 /\ Ttl \in 0..Ttl
         /\ Window \in Nat
  BY DEF AdmissionAssumption

\* Cleaning up, releasing and renewing leave reservations where they were.
LEMMA TableTypes ==
  ASSUME AdmissionAssumption, TypeOK, NEW s \in Submissions
  PROVE  /\ Cleaned \in [Jobs -> Reservation \union {None}]
         /\ Without(admission, s) \in [Jobs -> Reservation \union {None}]
         /\ Without(access, s) \in [Jobs -> Ownership \union {None}]
         /\ Renewed(admission, s) \in [Jobs -> Reservation \union {None}]
         /\ Renewed(access, s) \in [Jobs -> Ownership \union {None}]
<1>1. Cleaned \in [Jobs -> Reservation \union {None}]
  BY DEF Cleaned, TypeOK
<1>2. Without(admission, s) \in [Jobs -> Reservation \union {None}]
  BY DEF Without, TypeOK
<1>3. Without(access, s) \in [Jobs -> Ownership \union {None}]
  BY DEF Without, TypeOK
<1>4. Ttl \in 0..Ttl
  BY DEF AdmissionAssumption
<1>5. Renewed(admission, s) \in [Jobs -> Reservation \union {None}]
  BY <1>4 DEF Renewed, TypeOK, HasToken, Reservation, AdmissionAssumption
<1>6. Renewed(access, s) \in [Jobs -> Ownership \union {None}]
  BY <1>4 DEF Renewed, TypeOK, HasToken, Ownership, AdmissionAssumption
<1> QED  BY <1>1, <1>2, <1>3, <1>5, <1>6

\* A tick only lets rows age.
LEMMA TickRows ==
  ASSUME AdmissionAssumption, TypeOK, Tick, NEW j \in Jobs
  PROVE  /\ admission[j] = None => admission'[j] = None
         /\ admission[j] # None =>
              /\ admission'[j] \in Reservation
              /\ admission'[j].token = admission[j].token
              /\ admission'[j].left = Less(admission[j].left)
         /\ access[j] = None => access'[j] = None
         /\ access[j] # None =>
              /\ access'[j] \in Ownership
              /\ access'[j].token = access[j].token
              /\ access'[j].left = Less(access[j].left)
<1>1. \A n \in 0..Ttl : Less(n) \in 0..Ttl
  BY Limits DEF Less
<1>2. ASSUME admission[j] # None
      PROVE  /\ admission'[j] \in Reservation
             /\ admission'[j].token = admission[j].token
             /\ admission'[j].left = Less(admission[j].left)
  <2>1. admission[j] \in [token : Submissions, age : 0..(Window + 1), left : 0..Ttl]
    BY <1>2 DEF TypeOK, Reservation
  <2>2. admission[j].left \in 0..Ttl /\ admission[j].token \in Submissions
    BY <2>1
  <2>3. (IF admission[j].age <= Window THEN admission[j].age + 1 ELSE admission[j].age)
          \in 0..(Window + 1)
    BY <2>1, Limits
  <2>4. Less(admission[j].left) \in 0..Ttl
    BY <1>1, <2>2
  <2>5. admission'[j] = [admission[j] EXCEPT
               !.age = IF @ <= Window THEN @ + 1 ELSE @, !.left = Less(@)]
    BY <1>2 DEF Tick
  <2>6. /\ admission'[j].token = admission[j].token
        /\ admission'[j].left = Less(admission[j].left)
    BY <2>1, <2>5
  <2>7. admission'[j] \in [token : Submissions, age : 0..(Window + 1), left : 0..Ttl]
    BY <2>1, <2>2, <2>3, <2>4, <2>5
  <2> QED  BY <2>6, <2>7, <1>2 DEF Reservation
<1>3. ASSUME access[j] # None
      PROVE  /\ access'[j] \in Ownership
             /\ access'[j].token = access[j].token
             /\ access'[j].left = Less(access[j].left)
  <2>1. access[j] \in [token : Submissions, left : 0..Ttl]
    BY <1>3 DEF TypeOK, Ownership
  <2>2. access[j].left \in 0..Ttl /\ access[j].token \in Submissions
    BY <2>1
  <2>3. Less(access[j].left) \in 0..Ttl
    BY <1>1, <2>2
  <2>4. access'[j] = [access[j] EXCEPT !.left = Less(@)]
    BY <1>3 DEF Tick
  <2>5. /\ access'[j].token = access[j].token
        /\ access'[j].left = Less(access[j].left)
    BY <2>1, <2>4
  <2>6. access'[j] \in [token : Submissions, left : 0..Ttl]
    BY <2>1, <2>2, <2>3, <2>4
  <2> QED  BY <2>5, <2>6, <1>3 DEF Ownership
<1>4. /\ admission[j] = None => admission'[j] = None
      /\ access[j] = None => access'[j] = None
  BY DEF Tick
<1> QED  BY <1>2, <1>3, <1>4

\* A new row, and a status written to a row, are of the type.
LEMMA RowTypes ==
  ASSUME AdmissionAssumption, TypeOK, NEW s \in Submissions
  PROVE  /\ [token |-> s, age |-> 0, left |-> Ttl] \in Reservation
         /\ [token |-> s, left |-> Ttl] \in Ownership
         /\ [by |-> s, status |-> "submitted"] \in JobRow
         /\ JobOf[s] \in Jobs
<1>1. 0 \in 0..(Window + 1)
  BY Limits
<1> QED  BY <1>1, Limits DEF AdmissionAssumption, Reservation, Ownership, JobRow

LEMMA StatusTypes ==
  ASSUME TypeOK, NEW j \in Jobs, info[j] # None,
         NEW st \in {"submitted", "running", "terminal", "expired"}
  PROVE  [info EXCEPT ![j].status = st] \in [Jobs -> JobRow \union {None}]
  BY DEF TypeOK, JobRow

LEMMA TypeStep ==
  ASSUME AdmissionAssumption, TypeOK, TasksHaveRow, [Next]_vars
  PROVE  TypeOK'
<1> USE AdmissionAssumption
<1>1. CASE UNCHANGED vars
  BY <1>1 DEF vars, TypeOK
<1>2. ASSUME NEW s \in Submissions, SubmitSteps(s)
      PROVE  TypeOK'
  <2>1. CASE Reserve(s)
    <3> DEFINE row == [token |-> s, age |-> 0, left |-> Ttl]
    <3>0. admission' \in {admission, Cleaned, [Cleaned EXCEPT ![JobOf[s]] = row]}
      BY <2>1 DEF Reserve
    <3>a. row \in Reservation
      BY RowTypes
    <3>b. Cleaned \in [Jobs -> Reservation \union {None}]
      BY TableTypes
    <3> HIDE DEF row
    <3>c. [Cleaned EXCEPT ![JobOf[s]] = row] \in [Jobs -> Reservation \union {None}]
      BY <3>a, <3>b
    <3>1. admission' \in [Jobs -> Reservation \union {None}]
      BY <3>0, <3>b, <3>c DEF TypeOK
    <3>2. pc' \in [Submissions -> PCs]
      BY <2>1 DEF Reserve, TypeOK, PCs, InFlight
    <3> QED  BY <2>1, <3>1, <3>2 DEF Reserve, TypeOK
  <2>2. CASE CreateAccess(s)
    <3>1. [access EXCEPT ![JobOf[s]] = [token |-> s, left |-> Ttl]]
            \in [Jobs -> Ownership \union {None}]
      BY RowTypes DEF TypeOK
    <3>2. access' \in {access, [access EXCEPT ![JobOf[s]] = [token |-> s, left |-> Ttl]]}
      BY <2>2 DEF CreateAccess
    <3>3. pc' \in [Submissions -> PCs] /\ lease' \in [Submissions -> {"off", "idle", "half", "halfLost", "lost"}]
      BY <2>2 DEF CreateAccess, TypeOK, PCs, InFlight
    <3> QED  BY <2>2, <3>1, <3>2, <3>3 DEF CreateAccess, TypeOK
  <2>3. CASE CreateJob(s)
    BY <2>3, RowTypes, ZenonT(40) DEF CreateJob, TypeOK, PCs, InFlight
  <2>4. CASE Enqueue(s)
    BY <2>4 DEF Enqueue, TypeOK, PCs, InFlight
  <2>5. CASE ReleaseAccess(s)
    BY <2>5, TableTypes DEF ReleaseAccess, TypeOK, PCs, InFlight
  <2>6. CASE ReleaseAdmission(s)
    BY <2>6, TableTypes DEF ReleaseAdmission, TypeOK, PCs, InFlight
  <2>7. CASE Accept(s)
    BY <2>7 DEF Accept, TypeOK, PCs, InFlight
  <2>8. CASE Fail(s)
    BY <2>8 DEF Fail, TypeOK, PCs, InFlight
  <2> QED  BY <1>2, <2>1, <2>2, <2>3, <2>4, <2>5, <2>6, <2>7, <2>8 DEF SubmitSteps
<1>3. ASSUME NEW s \in Submissions, LeaseSteps(s)
      PROVE  TypeOK'
  <2>1. CASE RenewAccess(s)
    BY <2>1, TableTypes DEF RenewAccess, TypeOK
  <2>2. CASE RenewAdmission(s)
    BY <2>2, TableTypes DEF RenewAdmission, TypeOK
  <2>3. CASE LeaseLost(s)
    BY <2>3 DEF LeaseLost, TypeOK, PCs, InFlight
  <2> QED  BY <1>3, <2>1, <2>2, <2>3 DEF LeaseSteps
<1>4. ASSUME NEW s \in Submissions, Fence(s)
      PROVE  TypeOK'
  <2>1. JobOf[s] \in Jobs /\ info[JobOf[s]] # None
    BY <1>4 DEF Fence, TasksHaveRow, Submitted, AdmissionAssumption
  <2>2. info' \in [Jobs -> JobRow \union {None}]
    <3>1. [info EXCEPT ![JobOf[s]].status = "terminal"] \in [Jobs -> JobRow \union {None}]
      BY <2>1, StatusTypes
    <3> QED  BY <1>4, <3>1 DEF Fence, TypeOK
  <2> QED  BY <1>4, <2>2 DEF Fence, TypeOK
<1>5. ASSUME NEW s \in Submissions, Run(s)
      PROVE  TypeOK'
  <2>1. JobOf[s] \in Jobs /\ info[JobOf[s]] # None
    BY <1>5 DEF Run, TasksHaveRow, Submitted, AdmissionAssumption
  <2>2. info' \in [Jobs -> JobRow \union {None}]
    BY <1>5, <2>1, StatusTypes DEF Run, TypeOK
  <2> QED  BY <1>5, <2>2 DEF Run, TypeOK
<1>6. ASSUME NEW j \in Jobs, JobEnds(j) \/ JobExpires(j)
      PROVE  TypeOK'
  <2>1. info' \in [Jobs -> JobRow \union {None}]
    <3>1. info[j] # None
      BY <1>6 DEF JobEnds, JobExpires
    <3>2. /\ [info EXCEPT ![j].status = "terminal"] \in [Jobs -> JobRow \union {None}]
          /\ [info EXCEPT ![j].status = "expired"] \in [Jobs -> JobRow \union {None}]
      BY <3>1, StatusTypes
    <3> QED  BY <1>6, <3>2 DEF JobEnds, JobExpires
  <2> QED  BY <1>6, <2>1 DEF JobEnds, JobExpires, TypeOK
<1>7. CASE CleanupAccess
  BY <1>7 DEF CleanupAccess, TypeOK
<1>8. CASE Tick
  <2>1. /\ admission' = [j \in Jobs |-> admission'[j]]
        /\ access' = [j \in Jobs |-> access'[j]]
    BY <1>8 DEF Tick
  <2>2. \A j \in Jobs : /\ admission'[j] \in Reservation \union {None}
                       /\ access'[j] \in Ownership \union {None}
    BY <1>8, TickRows
  <2>3. /\ admission' \in [Jobs -> Reservation \union {None}]
        /\ access' \in [Jobs -> Ownership \union {None}]
    BY <2>1, <2>2
  <2> QED  BY <1>8, <2>3 DEF Tick, TypeOK
<1> QED  BY <1>1, <1>2, <1>3, <1>4, <1>5, <1>6, <1>7, <1>8 DEF Next

-----------------------------------------------------------------------------
(* Job rows, tasks and their submissions.                                  *)

\* Only CreateJob adds a row, and only to an id without one: the creator of
\* a job is never another submission, and tasks find the row they are for.
LEMMA OriginStep ==
  ASSUME AdmissionAssumption, TypeOK, RowsHaveCreator, TasksHaveRow, [Next]_vars
  PROVE  RowsHaveCreator' /\ TasksHaveRow'
<1> USE DEF RowsHaveCreator, TasksHaveRow, Submitted
<1>1. CASE UNCHANGED <<info, pc, task>>
  BY <1>1
<1>2. ASSUME NEW s \in Submissions, UNCHANGED <<info, task>>,
             \/ pc[s] \in {"new", "reserved", "releasing", "undo", "submitting"}
             \/ pc'[s] = "failed"
             \/ pc[s] = "enqueued" /\ pc'[s] = "accepted",
             pc'[s] \notin {"created"},
             pc' = [pc EXCEPT ![s] = pc'[s]]
      PROVE  RowsHaveCreator' /\ TasksHaveRow'
  BY <1>2 DEF TypeOK, JobRow
<1>3. ASSUME NEW s \in Submissions, SubmitSteps(s)
      PROVE  RowsHaveCreator' /\ TasksHaveRow'
  <2>1. CASE Reserve(s)
    BY <1>2, <2>1 DEF Reserve, TypeOK
  <2>2. CASE CreateAccess(s)
    BY <1>2, <2>2 DEF CreateAccess, TypeOK
  <2>3. CASE CreateJob(s)
    <3>1. CASE info[JobOf[s]] = None
      BY <2>3, <3>1, RowTypes, NoneAssumption DEF CreateJob, TypeOK, JobRow
    <3>2. CASE info[JobOf[s]] # None
      BY <1>2, <2>3, <3>2 DEF CreateJob, TypeOK
    <3> QED  BY <3>1, <3>2
  <2>4. CASE Enqueue(s)
    BY <2>4 DEF Enqueue, TypeOK, JobRow
  <2>5. CASE ReleaseAccess(s) \/ ReleaseAdmission(s)
    BY <1>2, <2>5 DEF ReleaseAccess, ReleaseAdmission, TypeOK
  <2>6. CASE Accept(s)
    BY <1>2, <2>6 DEF Accept, TypeOK
  <2>7. CASE Fail(s)
    BY <1>2, <2>7 DEF Fail, TypeOK
  <2> QED  BY <1>3, <2>1, <2>2, <2>3, <2>4, <2>5, <2>6, <2>7 DEF SubmitSteps
<1>4. ASSUME NEW s \in Submissions, LeaseSteps(s)
      PROVE  RowsHaveCreator' /\ TasksHaveRow'
  <2>1. CASE RenewAccess(s) \/ RenewAdmission(s)
    BY <1>1, <2>1 DEF RenewAccess, RenewAdmission
  <2>2. CASE LeaseLost(s)
    BY <1>2, <2>2 DEF LeaseLost, TypeOK
  <2> QED  BY <1>4, <2>1, <2>2 DEF LeaseSteps
<1>5. ASSUME NEW s \in Submissions, Fence(s) \/ Run(s)
      PROVE  RowsHaveCreator' /\ TasksHaveRow'
  <2>1. task[s] # "none" /\ Submitted(s) /\ JobOf[s] \in Jobs
    BY <1>5 DEF Fence, Run, AdmissionAssumption
  <2>2. info[JobOf[s]] \in JobRow
    BY <2>1 DEF TypeOK
  <2>3. /\ UNCHANGED pc
        /\ task'[s] # "none" => info' = info
        /\ \A r \in Submissions \ {s} : task'[r] = task[r]
        /\ \/ info' = info
           \/ \E st \in {"terminal", "running"} :
                info' = [info EXCEPT ![JobOf[s]].status = st]
    BY <1>5 DEF Fence, Run, TypeOK
  <2>4. \A j \in Jobs : info'[j] # None =>
          /\ info[j] # None
          /\ info'[j].by = info[j].by
          /\ j # JobOf[s] => info'[j] = info[j]
    BY <2>1, <2>2, <2>3 DEF TypeOK, JobRow
  <2>5. \A j \in Jobs : info[j] # None => info'[j] # None
    BY <2>1, <2>2, <2>3, NoneAssumption DEF TypeOK, JobRow
  <2>6. RowsHaveCreator'
    BY <2>3, <2>4
  <2>7. ASSUME NEW r \in Submissions
        PROVE  /\ task'[r] # "none" => pc'[r] \in {"enqueued", "accepted", "failed"}
               /\ pc'[r] = "created" \/ task'[r] # "none" => Submitted(r)'
    <3>1. CASE r = s
      BY <2>1, <2>3, <3>1
    <3>2. CASE r # s
      <4>1. JobOf[r] \in Jobs
        BY DEF AdmissionAssumption
      <4>2. CASE JobOf[r] # JobOf[s]
        BY <2>3, <2>4, <2>5, <3>2, <4>1, <4>2
      <4>3. CASE JobOf[r] = JobOf[s]
        BY <2>1, <2>3, <3>2, <4>3
      <4> QED  BY <4>2, <4>3
    <3> QED  BY <3>1, <3>2
  <2> QED  BY <2>6, <2>7
<1>6. ASSUME NEW j \in Jobs, JobEnds(j) \/ JobExpires(j)
      PROVE  RowsHaveCreator' /\ TasksHaveRow'
  <2>1. info[j] \in JobRow /\ info[j].status # "submitted"
    BY <1>6 DEF JobEnds, JobExpires, TypeOK
  <2>2. /\ UNCHANGED <<pc, task>>
        /\ \E st \in {"terminal", "expired"} : info' = [info EXCEPT ![j].status = st]
    BY <1>6 DEF JobEnds, JobExpires
  <2>3. \A i \in Jobs : info'[i] # None =>
          /\ info[i] # None
          /\ info'[i].by = info[i].by
          /\ i # j => info'[i] = info[i]
    BY <2>1, <2>2, NoneAssumption DEF TypeOK, JobRow
  <2>4. RowsHaveCreator'
    BY <2>2, <2>3
  <2>5. TasksHaveRow'
    BY <2>1, <2>2, <2>3 DEF AdmissionAssumption, TypeOK
  <2> QED  BY <2>4, <2>5
<1>7. CASE CleanupAccess \/ Tick
  BY <1>1, <1>7 DEF CleanupAccess, Tick
<1> QED  BY <1>1, <1>3, <1>4, <1>5, <1>6, <1>7 DEF Next, vars

\* A job row is never removed and never changes hands, and a job that is
\* over stays so.  Jobs come to life by CreateJob and start by Run.
LEMMA RowsPersist ==
  ASSUME AdmissionAssumption, TypeOK, TasksHaveRow, [Next]_vars, NEW j \in Jobs
  PROVE  /\ info[j] # None => info'[j] # None /\ info'[j].by = info[j].by
         /\ Over(j) => Over(j)'
         /\ Live(j)' =>
              \/ Live(j)
              \/ /\ info[j] = None
                 /\ \E s \in Submissions :
                      JobOf[s] = j /\ pc[s] = "submitting" /\ info'[j].by = s
         /\ info'[j] # None /\ info'[j].status = "running" =>
              \/ info[j] # None /\ info[j].status = "running"
              \/ \E s \in Submissions :
                   JobOf[s] = j /\ task[s] = "fenced" /\ Submitted(s)
<1> USE DEF Over, Live
<1>1. CASE info'[j] = info[j]
  BY <1>1
<1>2. ASSUME NEW s \in Submissions, JobOf[s] = j, CreateJob(s), info'[j] # info[j]
      PROVE  /\ info[j] = None
             /\ pc[s] = "submitting"
             /\ info'[j] = [by |-> s, status |-> "submitted"]
  BY <1>2 DEF CreateJob, TypeOK
<1>3. ASSUME NEW s \in Submissions, JobOf[s] = j, Fence(s) \/ Run(s), info'[j] # info[j]
      PROVE  /\ Submitted(s)
             /\ info'[j] # None /\ info'[j].by = info[j].by
             /\ \/ info'[j].status = "terminal"
                \/ info'[j].status = "running" /\ task[s] = "fenced"
  <2>1. Submitted(s) /\ info[j] \in JobRow
    BY <1>3 DEF Fence, Run, TasksHaveRow, Submitted, TypeOK
  <2>2. \E st \in {"terminal", "running"} :
          /\ info'[j] = [info[j] EXCEPT !.status = st]
          /\ st = "running" => task[s] = "fenced"
    BY <1>3 DEF Fence, Run, TypeOK
  <2>3. info'[j] \in JobRow
    BY <2>1, <2>2 DEF JobRow
  <2> QED  BY <2>1, <2>2, <2>3, NoneAssumption DEF JobRow
<1>4. ASSUME JobEnds(j) \/ JobExpires(j)
      PROVE  /\ info[j] # None /\ info[j].status \in {"running", "terminal"}
             /\ info'[j] # None /\ info'[j].by = info[j].by
             /\ info'[j].status \in {"terminal", "expired"}
  <2>1. info[j] \in JobRow /\ info[j] # None /\ info[j].status \in {"running", "terminal"}
    BY <1>4 DEF JobEnds, JobExpires, TypeOK
  <2>2. \E st \in {"terminal", "expired"} : info'[j] = [info[j] EXCEPT !.status = st]
    BY <1>4 DEF JobEnds, JobExpires, TypeOK
  <2>3. info'[j] \in JobRow
    BY <2>1, <2>2 DEF JobRow
  <2> QED  BY <2>1, <2>2, <2>3, NoneAssumption DEF JobRow
<1>5. CASE info'[j] # info[j]
  <2>1. ASSUME NEW s \in Submissions, SubmitSteps(s) \/ LeaseSteps(s)
        PROVE  CreateJob(s) /\ JobOf[s] = j
    BY <1>5, <2>1 DEF SubmitSteps, LeaseSteps, Reserve, CreateAccess, CreateJob,
         ReleaseAccess, ReleaseAdmission, Enqueue, Accept, Fail,
         RenewAccess, RenewAdmission, LeaseLost, TypeOK
  <2>2. ASSUME NEW s \in Submissions, Fence(s) \/ Run(s)
        PROVE  JobOf[s] = j
    BY <1>5, <2>2 DEF Fence, Run, TypeOK
  <2>3. ASSUME NEW i \in Jobs, JobEnds(i) \/ JobExpires(i)
        PROVE  i = j
    BY <1>5, <2>3 DEF JobEnds, JobExpires, TypeOK
  <2>4. \/ \E s \in Submissions : JobOf[s] = j /\ CreateJob(s)
        \/ \E s \in Submissions : JobOf[s] = j /\ (Fence(s) \/ Run(s))
        \/ JobEnds(j) \/ JobExpires(j)
    BY <1>5, <2>1, <2>2, <2>3 DEF Next, CleanupAccess, Tick, vars
  <2>5. CASE \E s \in Submissions : JobOf[s] = j /\ CreateJob(s)
    <3>1. PICK s \in Submissions : JobOf[s] = j /\ CreateJob(s)
      BY <2>5
    <3>2. info[j] = None /\ pc[s] = "submitting" /\ info'[j] = [by |-> s, status |-> "submitted"]
      BY <1>2, <1>5, <3>1
    <3>3. info'[j].by = s /\ info'[j].status = "submitted"
      BY <3>2
    <3> QED  BY <3>1, <3>2, <3>3
  <2>6. CASE \E s \in Submissions : JobOf[s] = j /\ (Fence(s) \/ Run(s))
    <3>1. PICK s \in Submissions : JobOf[s] = j /\ (Fence(s) \/ Run(s))
      BY <2>6
    <3>2. info[j] # None /\ info[j].status = "submitted"
      BY <1>3, <1>5, <3>1 DEF Submitted
    <3> QED  BY <1>3, <1>5, <3>1, <3>2
  <2>7. CASE JobEnds(j) \/ JobExpires(j)
    BY <1>4, <2>7
  <2> QED  BY <2>4, <2>5, <2>6, <2>7
<1> QED  BY <1>1, <1>5

\* Nobody but its submission takes the admission row of a job that is not
\* over: the cleanup spares it, and releases go by token.
LEMMA AdmissionKept ==
  ASSUME AdmissionAssumption, TypeOK, [Next]_vars, NEW s \in Submissions,
         HasToken(admission, s), ~Over(JobOf[s]), pc[s] # "undo",
         info[JobOf[s]] # None \/ admission[JobOf[s]].left > 0
  PROVE  HasToken(admission, s)'
<1> DEFINE j == JobOf[s]
<1>0. j \in Jobs /\ admission[j] \in Reservation /\ admission[j].token = s
  BY DEF AdmissionAssumption, HasToken, TypeOK
<1>1. CASE admission' = admission
  BY <1>1 DEF HasToken
<1>2. ASSUME NEW r \in Submissions, Reserve(r)
      PROVE  HasToken(admission, s)'
  <2>1. Cleaned[j] = admission[j]
    BY <1>0 DEF Cleaned
  <2>2. admission'[j] = admission[j]
    BY <1>0, <1>2, <2>1, NoneAssumption DEF Reserve, Cleaned
  <2> QED  BY <1>0, <2>2, NoneAssumption DEF HasToken
<1>3. ASSUME NEW r \in Submissions, ReleaseAdmission(r)
      PROVE  HasToken(admission, s)'
  <2>1. r # s
    BY <1>3 DEF ReleaseAdmission
  <2>2. admission'[j] = admission[j]
    BY <1>0, <1>3, <2>1 DEF ReleaseAdmission, Without, HasToken
  <2> QED  BY <1>0, <2>2, NoneAssumption DEF HasToken
<1>4. ASSUME NEW r \in Submissions, RenewAdmission(r)
      PROVE  HasToken(admission, s)'
  <2>1. admission'[j] \in Reservation /\ admission'[j].token = s
    BY <1>0, <1>4, Limits DEF RenewAdmission, Renewed, TypeOK, Reservation
  <2> QED  BY <2>1, NoneAssumption DEF HasToken
<1>5. CASE Tick
  BY <1>0, <1>5, TickRows, NoneAssumption DEF HasToken
<1> QED
  BY <1>1, <1>2, <1>3, <1>4, <1>5 DEF Next, vars, SubmitSteps, LeaseSteps,
       CreateAccess, ReleaseAccess, CreateJob, Enqueue, Accept, Fail,
       RenewAccess, LeaseLost, Fence, Run, JobEnds, JobExpires, CleanupAccess

LEMMA AdmitsStep ==
  ASSUME AdmissionAssumption, Admits, [Next]_vars
  PROVE  Admits'
<1>0. TypeOK /\ RowsHaveCreator /\ TasksHaveRow /\ FencedKeepsToken
  BY DEF Admits
<1>1. TypeOK' /\ RowsHaveCreator' /\ TasksHaveRow'
  BY <1>0, TypeStep, OriginStep
<1>2. ASSUME NEW s \in Submissions, task'[s] = "fenced" \/ Running(s)'
      PROVE  HasToken(admission, s)'
  <2>0. JobOf[s] \in Jobs
    BY DEF AdmissionAssumption
  <2>1. CASE task[s] = "fenced"
    <3>1. HasToken(admission, s) /\ Submitted(s) /\ pc[s] # "undo"
      BY <1>0, <2>1 DEF FencedKeepsToken, TasksHaveRow
    <3> QED  BY <1>0, <3>1, AdmissionKept DEF Submitted, Over
  <2>2. CASE Running(s)
    <3>1. HasToken(admission, s) /\ pc[s] # "undo"
      BY <1>0, <2>0, <2>2 DEF FencedKeepsToken, RowsHaveCreator, Running
    <3> QED  BY <1>0, <2>2, <3>1, AdmissionKept DEF Running, Over
  <2>3. CASE task[s] # "fenced" /\ task'[s] = "fenced"
    <3>1. Fence(s)
      BY <1>0, <2>3, ZenonT(40) DEF Next, vars, SubmitSteps, LeaseSteps, Reserve, CreateAccess,
           ReleaseAccess, ReleaseAdmission, CreateJob, Enqueue, Accept, Fail,
           RenewAccess, RenewAdmission, LeaseLost, Fence, Run, JobEnds, JobExpires,
           CleanupAccess, Tick, TypeOK
    <3> QED  BY <1>0, <2>3, <3>1 DEF Fence, HasToken, TypeOK
  <2>4. CASE ~Running(s) /\ Running(s)'
    <3>1. info'[JobOf[s]] # None /\ info'[JobOf[s]].status = "running" /\ info'[JobOf[s]].by = s
      BY <2>4 DEF Running
    <3>2. CASE info[JobOf[s]] # None /\ info[JobOf[s]].status = "running"
      BY <1>0, <2>0, <2>4, <3>1, <3>2, RowsPersist DEF Running
    <3>3. CASE \E r \in Submissions :
                 JobOf[r] = JobOf[s] /\ task[r] = "fenced" /\ Submitted(r)
      <4>1. PICK r \in Submissions :
                   JobOf[r] = JobOf[s] /\ task[r] = "fenced" /\ Submitted(r)
        BY <3>3
      <4>2. info[JobOf[s]] # None /\ info[JobOf[s]].by = r
        BY <4>1 DEF Submitted
      <4>3. info'[JobOf[s]].by = r
        BY <1>0, <2>0, <4>2, RowsPersist
      <4> QED  BY <2>1, <3>1, <4>1, <4>3
    <3> QED  BY <1>0, <2>0, <3>1, <3>2, <3>3, RowsPersist
  <2> QED  BY <1>2, <2>1, <2>2, <2>3, <2>4
<1> QED  BY <1>1, <1>2 DEF Admits, FencedKeepsToken

LEMMA InitAdmits ==
  ASSUME AdmissionAssumption, Init
  PROVE  Admits
  BY DEF Init, Admits, TypeOK, PCs, InFlight, RowsHaveCreator, TasksHaveRow,
         FencedKeepsToken, Submitted, Running, AdmissionAssumption

LEMMA AlwaysAdmits == ASSUME AdmissionAssumption PROVE Spec => []Admits
<1>1. Init => Admits
  BY InitAdmits
<1>2. Admits /\ [Next]_vars => Admits'
  BY AdmitsStep
<1> QED  BY <1>1, <1>2, PTL DEF Spec

\* Every table, submission, renewal and task stays within its type, for any
\* submissions, limits and times.
THEOREM TypeCorrect == ASSUME AdmissionAssumption PROVE Spec => []TypeOK
<1>1. Admits => TypeOK
  BY DEF Admits
<1> QED  BY <1>1, AlwaysAdmits, PTL

\* A running job holds the admission row of its creator however its
\* submission was delayed: the fence, and the cleanup's regard for job_info,
\* are enough.
THEOREM RunsAdmittedHolds == ASSUME AdmissionAssumption PROVE Spec => []RunsAdmitted
<1>1. Admits => RunsAdmitted
  BY DEF Admits, RunsAdmitted, RowsHaveCreator, FencedKeepsToken, Running,
         HasToken, TypeOK, JobRow
<1> QED  BY <1>1, AlwaysAdmits, PTL

-----------------------------------------------------------------------------
(* Timely submissions.                                                     *)

\* The access row of a job that is not over is safe in the same way.
LEMMA AccessKept ==
  ASSUME AdmissionAssumption, TypeOK, [Next]_vars, NEW s \in Submissions,
         HasToken(access, s), ~Over(JobOf[s]), pc[s] # "releasing",
         info[JobOf[s]] # None \/ access[JobOf[s]].left > 0
  PROVE  HasToken(access, s)'
<1> DEFINE j == JobOf[s]
<1>0. j \in Jobs /\ access[j] \in Ownership /\ access[j].token = s /\ access[j] # None
  BY DEF AdmissionAssumption, HasToken, TypeOK
<1>1. CASE access' = access
  BY <1>1 DEF HasToken
<1>2. ASSUME NEW r \in Submissions, CreateAccess(r)
      PROVE  HasToken(access, s)'
  <2>1. CASE JobOf[r] = j
    <3>1. access' = access
      BY <1>0, <1>2, <2>1, Limits DEF CreateAccess, Ownership
    <3> QED  BY <1>1, <3>1
  <2>2. CASE JobOf[r] # j
    <3>1. access'[j] = access[j]
      BY <1>0, <1>2, <2>2 DEF CreateAccess, TypeOK
    <3> QED  BY <1>0, <3>1 DEF HasToken
  <2> QED  BY <2>1, <2>2
<1>3. ASSUME NEW r \in Submissions, ReleaseAccess(r)
      PROVE  HasToken(access, s)'
  <2>1. r # s
    BY <1>3 DEF ReleaseAccess
  <2>2. access'[j] = access[j]
    BY <1>0, <1>3, <2>1 DEF ReleaseAccess, Without, HasToken
  <2> QED  BY <1>0, <2>2 DEF HasToken
<1>4. ASSUME NEW r \in Submissions, RenewAccess(r)
      PROVE  HasToken(access, s)'
  <2>1. access'[j] \in Ownership /\ access'[j].token = s
    BY <1>0, <1>4, Limits DEF RenewAccess, Renewed, TypeOK, Ownership
  <2> QED  BY <2>1, NoneAssumption DEF HasToken
<1>5. CASE CleanupAccess
  <2>1. access'[j] = access[j]
    BY <1>0, <1>5 DEF CleanupAccess, Over, Ownership
  <2> QED  BY <1>0, <2>1 DEF HasToken
<1>6. CASE Tick
  BY <1>0, <1>6, TickRows, NoneAssumption DEF HasToken
<1> QED
  BY <1>1, <1>2, <1>3, <1>4, <1>5, <1>6 DEF Next, vars, SubmitSteps, LeaseSteps,
       Reserve, ReleaseAdmission, CreateJob, Enqueue, Accept, Fail,
       RenewAdmission, LeaseLost, Fence, Run, JobEnds, JobExpires

\* How a submission gets where it is.
LEMMA PcStep ==
  ASSUME TypeOK, [Next]_vars, NEW s \in Submissions
  PROVE  /\ pc'[s] \in InFlight /\ pc[s] \notin InFlight =>
              Reserve(s) /\ pc'[s] = "reserved"
         /\ pc'[s] \in Leasing /\ pc[s] \notin Leasing =>
              CreateAccess(s) /\ pc'[s] = "submitting"
<1>1. ASSUME NEW r \in Submissions, SubmitSteps(r)
      PROVE  /\ pc'[s] \in InFlight /\ pc[s] \notin InFlight =>
                  Reserve(s) /\ pc'[s] = "reserved"
             /\ pc'[s] \in Leasing /\ pc[s] \notin Leasing =>
                  CreateAccess(s) /\ pc'[s] = "submitting"
  <2>1. CASE r = s
    <3>1. CASE Reserve(s) \/ CreateAccess(s)
      BY <3>1 DEF Reserve, CreateAccess, Leasing, InFlight, TypeOK
    <3>2. CASE CreateJob(s) \/ Enqueue(s)
      BY <3>2 DEF CreateJob, Enqueue, Leasing, InFlight, TypeOK
    <3>3. CASE ReleaseAccess(s) \/ ReleaseAdmission(s) \/ Accept(s) \/ Fail(s)
      BY <3>3 DEF ReleaseAccess, ReleaseAdmission, Accept, Fail, Leasing, InFlight, TypeOK
    <3> QED  BY <1>1, <2>1, <3>1, <3>2, <3>3 DEF SubmitSteps
  <2>2. CASE r # s
    <3>1. pc'[s] = pc[s]
      BY <1>1, <2>2 DEF SubmitSteps, Reserve, CreateAccess, ReleaseAccess,
           ReleaseAdmission, CreateJob, Enqueue, Accept, Fail, TypeOK
    <3> QED  BY <3>1
  <2> QED  BY <2>1, <2>2
<1>2. ASSUME NEW r \in Submissions, LeaseSteps(r)
      PROVE  pc'[s] = pc[s] \/ pc'[s] = "failed"
  BY <1>2 DEF LeaseSteps, RenewAccess, RenewAdmission, LeaseLost, TypeOK
<1>3. CASE pc' = pc
  BY <1>3
<1>4. CASE pc'[s] = pc[s] \/ pc'[s] = "failed"
  BY <1>4 DEF Leasing, InFlight
<1> QED
  BY <1>1, <1>2, <1>3, <1>4 DEF Next, vars, Fence, Run, JobEnds, JobExpires,
       CleanupAccess, Tick

LEMMA LeaseStep ==
  ASSUME TypeOK, LeaseInFlight, [Next]_vars
  PROVE  LeaseInFlight'
<1> SUFFICES ASSUME NEW s \in Submissions, lease'[s] # "off"
             PROVE  pc'[s] \in Leasing
  BY DEF LeaseInFlight
<1>1. ASSUME NEW r \in Submissions, SubmitSteps(r)
      PROVE  pc'[s] \in Leasing
  BY <1>1 DEF SubmitSteps, Reserve, CreateAccess, ReleaseAccess, ReleaseAdmission,
       CreateJob, Enqueue, Accept, Fail, LeaseInFlight, Leasing, InFlight, TypeOK
<1>2. ASSUME NEW r \in Submissions, LeaseSteps(r)
      PROVE  pc'[s] \in Leasing
  BY <1>2 DEF LeaseSteps, RenewAccess, RenewAdmission, LeaseLost, LeaseInFlight,
       Leasing, InFlight, TypeOK
<1>3. CASE UNCHANGED <<pc, lease>>
  BY <1>3 DEF LeaseInFlight
<1> QED
  BY <1>1, <1>2, <1>3 DEF Next, vars, Fence, Run, JobEnds, JobExpires,
       CleanupAccess, Tick

\* The rows inserted by a reservation, and the condition they are under.
Row(s) == [token |-> s, age |-> 0, left |-> Ttl]

Admitted(s) ==
  /\ Reserve(s)
  /\ Admissible(Cleaned, OwnerOf[s])
  /\ Cleaned[JobOf[s]] = None
  /\ admission' = [Cleaned EXCEPT ![JobOf[s]] = Row(s)]
  /\ info' = info

LEMMA ReserveCases ==
  ASSUME NEW s \in Submissions, Reserve(s)
  PROVE  \/ Admitted(s)
         \/ pc' = [pc EXCEPT ![s] = "rejected"] /\ admission' \in {admission, Cleaned}
  BY DEF Reserve, Admitted, Row

\* An admission row that has not run out was inserted just now, or is one
\* that had not run out before: no renewal revives a row.
LEMMA SlotRow ==
  ASSUME AdmissionAssumption, TypeOK, LeaseInFlight, LeftInFlight, [Next]_vars,
         NEW j \in Jobs, admission'[j] # None
  PROVE  \/ \E s \in Submissions : Admitted(s) /\ JobOf[s] = j
         \/ /\ admission[j] # None
            /\ admission'[j].token = admission[j].token
            /\ admission'[j].left > 0 => admission[j].left > 0
<1> DEFINE Same == /\ admission[j] # None
                   /\ admission'[j].token = admission[j].token
                   /\ admission'[j].left > 0 => admission[j].left > 0
           Goal == (\E s \in Submissions : Admitted(s) /\ JobOf[s] = j) \/ Same
<1>1. CASE admission'[j] = admission[j]
  BY <1>1
<1>2. ASSUME NEW r \in Submissions, Reserve(r)
      PROVE  Goal
  <2>1. CASE Admitted(r) /\ JobOf[r] = j
    BY <2>1
  <2>2. CASE Admitted(r) /\ JobOf[r] # j
    BY <1>1, <2>2 DEF Admitted, Cleaned
  <2>3. CASE admission' \in {admission, Cleaned}
    BY <1>1, <2>3 DEF Cleaned
  <2> QED  BY <1>2, <2>1, <2>2, <2>3, ReserveCases
<1>3. ASSUME NEW r \in Submissions, ReleaseAdmission(r)
      PROVE  Goal
  BY <1>1, <1>3 DEF ReleaseAdmission, Without
<1>4. ASSUME NEW r \in Submissions, RenewAdmission(r)
      PROVE  Goal
  <2>1. CASE JobOf[r] = j /\ HasToken(admission, r)
    <3>1. admission[j] # None /\ admission[j] \in Reservation /\ admission[j].token = r
      BY <2>1 DEF HasToken, TypeOK
    <3>2. pc[r] \in InFlight
      BY <1>4 DEF RenewAdmission, LeaseInFlight, Leasing
    <3>3. admission[j].left > 0
      BY <2>1, <3>2 DEF LeftInFlight
    <3>4. admission'[j].token = r
      BY <1>4, <2>1, <3>1 DEF RenewAdmission, Renewed, TypeOK, Reservation
    <3> QED  BY <3>1, <3>3, <3>4
  <2>2. CASE JobOf[r] # j \/ ~HasToken(admission, r)
    <3>1. admission'[j] = admission[j]
      BY <1>4, <2>2 DEF RenewAdmission, Renewed, TypeOK
    <3> QED  BY <1>1, <3>1
  <2> QED  BY <2>1, <2>2
<1>5. CASE Tick
  <2>1. admission[j] # None
    BY <1>5, TickRows
  <2>2. /\ admission'[j].token = admission[j].token
        /\ admission'[j].left = Less(admission[j].left)
    BY <1>5, <2>1, TickRows
  <2>3. admission[j].left \in Nat
    BY <2>1, Limits DEF TypeOK, Reservation
  <2> QED  BY <2>1, <2>2, <2>3 DEF Less
<1> QED
  BY <1>1, <1>2, <1>3, <1>4, <1>5 DEF Next, vars, SubmitSteps, LeaseSteps,
       CreateAccess, ReleaseAccess, CreateJob, Enqueue, Accept, Fail,
       RenewAccess, LeaseLost, Fence, Run, JobEnds, JobExpires, CleanupAccess

\* Time waits for timely submissions, and every other step leaves what is
\* left of a row or sets it to the full lease.
LEMMA LeftStep ==
  ASSUME AdmissionAssumption, Timely, TypeOK, TypeOK', LeftInFlight, [Next]_vars
  PROVE  LeftInFlight'
<1>1. ASSUME NEW s \in Submissions, pc'[s] \in InFlight, HasToken(admission, s)'
      PROVE  admission'[JobOf[s]].left > 0
  <2> DEFINE j == JobOf[s]
  <2>0. j \in Jobs /\ admission'[j] # None /\ admission'[j].token = s
    BY <1>1 DEF HasToken, AdmissionAssumption
  <2>1. CASE Reserve(s) /\ pc'[s] = "reserved"
    <3>1. admission'[j] = Row(s)
      <4>1. Admitted(s)
        BY <2>1, ReserveCases DEF TypeOK
      <4>2. Cleaned \in [Jobs -> Reservation \union {None}]
        BY TableTypes
      <4> QED  BY <2>0, <4>1, <4>2 DEF Admitted
    <3> QED  BY <3>1, Limits DEF Row
  <2>2. CASE pc[s] \in InFlight /\ admission'[j] = admission[j]
    BY <2>0, <2>2 DEF LeftInFlight, HasToken
  <2>3. ASSUME pc[s] \in InFlight, NEW r \in Submissions, Reserve(r)
        PROVE  admission'[j].left > 0
    <3>1. r # s
      BY <2>3 DEF Reserve, InFlight
    <3>2. CASE Admitted(r)
      <4>1. JobOf[r] # j \/ admission'[j] = Row(r)
        BY <2>0, <3>2, TableTypes DEF Admitted
      <4>2. JobOf[r] # j
        BY <2>0, <3>1, <4>1 DEF Row
      <4> QED  BY <2>0, <2>2, <2>3, <3>2, <4>2, TableTypes DEF Admitted, Cleaned
    <3>3. CASE admission' \in {admission, Cleaned}
      BY <2>0, <2>2, <2>3, <3>3 DEF Cleaned
    <3> QED  BY <2>3, <3>2, <3>3, ReserveCases
  <2>4. ASSUME pc[s] \in InFlight, NEW r \in Submissions, ReleaseAdmission(r)
        PROVE  admission'[j].left > 0
    BY <2>0, <2>2, <2>4 DEF ReleaseAdmission, Without
  <2>5. ASSUME pc[s] \in InFlight, NEW r \in Submissions, RenewAdmission(r)
        PROVE  admission'[j].left > 0
    <3>1. CASE admission'[j] = admission[j]
      BY <2>2, <2>5, <3>1
    <3>2. CASE admission'[j].left = Ttl
      BY <3>2, Limits
    <3>3. admission'[j] = admission[j] \/ admission'[j].left = Ttl
      BY <2>0, <2>5 DEF RenewAdmission, Renewed, HasToken, TypeOK, Reservation
    <3> QED  BY <3>1, <3>2, <3>3
  <2>6. CASE pc[s] \in InFlight /\ Tick
    <3>1. admission[j] # None /\ admission[j].token = s
      BY <2>0, <2>6, TickRows
    <3>2. admission[j].left \in Nat
      BY <2>0, <3>1, Limits DEF TypeOK, Reservation
    <3>3. ~(admission[j].left <= 1)
      BY <2>6, <3>1 DEF Tick, Delayed, LeftOf, HasToken
    <3>4. admission'[j].left = Less(admission[j].left)
      BY <2>0, <2>6, <3>1, TickRows
    <3> QED  BY <3>2, <3>3, <3>4 DEF Less
  <2>7. CASE pc[s] \in InFlight
    BY <2>2, <2>3, <2>4, <2>5, <2>6, <2>7 DEF Next, vars, SubmitSteps, LeaseSteps,
       CreateAccess, ReleaseAccess, CreateJob, Enqueue, Accept, Fail,
       RenewAccess, LeaseLost, Fence, Run, JobEnds, JobExpires, CleanupAccess
  <2> QED  BY <1>1, <2>1, <2>7, PcStep
<1>2. ASSUME NEW s \in Submissions, pc'[s] \in Leasing, HasToken(access, s)'
      PROVE  access'[JobOf[s]].left > 0
  <2> DEFINE j == JobOf[s]
  <2>0. j \in Jobs /\ access'[j] # None /\ access'[j].token = s
    BY <1>2 DEF HasToken, AdmissionAssumption
  <2>1. CASE CreateAccess(s) /\ pc'[s] = "submitting"
    <3>1. access'[j] = [token |-> s, left |-> Ttl]
      BY <2>0, <2>1 DEF CreateAccess, TypeOK
    <3> QED  BY <3>1, Limits
  <2>2. CASE pc[s] \in Leasing /\ access'[j] = access[j]
    BY <2>0, <2>2 DEF LeftInFlight, HasToken
  <2>3. ASSUME pc[s] \in Leasing, NEW r \in Submissions, CreateAccess(r)
        PROVE  access'[j].left > 0
    <3>1. access'[j] = access[j] \/ access'[j] = [token |-> r, left |-> Ttl]
      BY <2>0, <2>3 DEF CreateAccess, TypeOK
    <3> QED  BY <2>2, <2>3, <3>1, Limits
  <2>4. ASSUME pc[s] \in Leasing, NEW r \in Submissions, ReleaseAccess(r)
        PROVE  access'[j].left > 0
    BY <2>0, <2>2, <2>4 DEF ReleaseAccess, Without
  <2>5. ASSUME pc[s] \in Leasing, NEW r \in Submissions, RenewAccess(r)
        PROVE  access'[j].left > 0
    <3>1. access'[j] = access[j] \/ access'[j].left = Ttl
      BY <2>0, <2>5 DEF RenewAccess, Renewed, HasToken, TypeOK, Ownership
    <3> QED  BY <2>2, <2>5, <3>1, Limits
  <2>6. CASE pc[s] \in Leasing /\ Tick
    <3>1. access[j] # None /\ access[j].token = s
      BY <2>0, <2>6, TickRows
    <3>2. access[j].left \in Nat
      BY <2>0, <3>1, Limits DEF TypeOK, Ownership
    <3>3. ~(access[j].left <= 1)
      BY <2>6, <3>1 DEF Tick, Delayed, LeftOf, HasToken, Leasing
    <3>4. access'[j].left = Less(access[j].left)
      BY <2>0, <2>6, <3>1, TickRows
    <3> QED  BY <3>2, <3>3, <3>4 DEF Less
  <2>7. CASE pc[s] \in Leasing /\ CleanupAccess
    BY <2>0, <2>2, <2>7 DEF CleanupAccess
  <2>8. CASE pc[s] \in Leasing
    BY <2>2, <2>3, <2>4, <2>5, <2>6, <2>7, <2>8 DEF Next, vars, SubmitSteps, LeaseSteps,
       Reserve, ReleaseAdmission, CreateJob, Enqueue, Accept, Fail,
       RenewAdmission, LeaseLost, Fence, Run, JobEnds, JobExpires
  <2> QED  BY <1>2, <2>1, <2>8, PcStep
<1> QED  BY <1>1, <1>2 DEF LeftInFlight

\* What Timed says of single rows, without the counts.
TimedRows ==
  /\ Admits
  /\ LeaseInFlight
  /\ LeftInFlight
  /\ InFlightKeepsRows
  /\ LiveKeepsRows

LEMMA InFlightStep ==
  ASSUME AdmissionAssumption, TimedRows, [Next]_vars
  PROVE  InFlightKeepsRows'
<1>0. TypeOK /\ TasksHaveRow /\ LeftInFlight /\ InFlightKeepsRows
  BY DEF TimedRows, Admits
<1> SUFFICES ASSUME NEW s \in Submissions, ~Over(JobOf[s])'
             PROVE  /\ pc'[s] \in InFlight => HasToken(admission, s)'
                    /\ pc'[s] \in InFlight \ {"reserved"} => HasToken(access, s)'
  BY DEF InFlightKeepsRows
<1> DEFINE j == JobOf[s]
<1>1. j \in Jobs /\ ~Over(j)
  BY <1>0, RowsPersist DEF AdmissionAssumption
<1>2. ASSUME pc'[s] \in InFlight
      PROVE  HasToken(admission, s)'
  <2>1. CASE pc[s] \in InFlight
    <3>1. HasToken(admission, s) /\ admission[j].left > 0 /\ pc[s] # "undo"
      BY <1>0, <1>1, <2>1 DEF InFlightKeepsRows, LeftInFlight, InFlight
    <3> QED  BY <1>0, <1>1, <3>1, AdmissionKept
  <2>2. CASE Reserve(s) /\ pc'[s] = "reserved"
    <3>1. Admitted(s)
      BY <1>0, <2>2, ReserveCases DEF TypeOK
    <3>2. admission'[j] = Row(s)
      BY <1>0, <1>1, <3>1, TableTypes DEF Admitted
    <3>3. Row(s) \in Reservation /\ Row(s).token = s
      BY <1>0, RowTypes DEF Row
    <3> QED  BY <3>2, <3>3, NoneAssumption DEF HasToken
  <2> QED  BY <1>0, <1>2, <2>1, <2>2, PcStep
<1>3. ASSUME pc'[s] \in Leasing
      PROVE  HasToken(access, s)'
  <2>1. CASE pc[s] \in Leasing
    <3>1. HasToken(access, s) /\ access[j].left > 0 /\ pc[s] # "releasing"
      BY <1>0, <1>1, <2>1 DEF InFlightKeepsRows, LeftInFlight, Leasing, InFlight
    <3> QED  BY <1>0, <1>1, <3>1, AccessKept
  <2>2. CASE CreateAccess(s) /\ pc'[s] = "submitting"
    <3>1. access'[j] = [token |-> s, left |-> Ttl]
      BY <1>0, <1>1, <2>2 DEF CreateAccess, TypeOK
    <3>2. access'[j] \in Ownership
      BY <1>0, <3>1, RowTypes
    <3>3. access'[j].token = s
      BY <3>1
    <3> QED  BY <3>2, <3>3, NoneAssumption DEF HasToken
  <2> QED  BY <1>0, <1>3, <2>1, <2>2, PcStep
<1> QED  BY <1>2, <1>3 DEF Leasing

\* A job comes to life under the rows of the submission that creates it.
LEMMA NewlyLive ==
  ASSUME AdmissionAssumption, TimedRows, [Next]_vars, NEW j \in Jobs,
         Live(j)', ~Live(j)
  PROVE  \E s \in Submissions :
           /\ JobOf[s] = j /\ info[j] = None /\ info'[j].by = s
           /\ pc[s] = "submitting"
           /\ HasToken(admission, s) /\ admission[j].left > 0
           /\ HasToken(access, s) /\ access[j].left > 0
<1>0. TypeOK /\ TasksHaveRow /\ LeftInFlight /\ InFlightKeepsRows
  BY DEF TimedRows, Admits
<1>1. PICK s \in Submissions :
        JobOf[s] = j /\ info[j] = None /\ pc[s] = "submitting" /\ info'[j].by = s
  BY <1>0, RowsPersist
<1>2. HasToken(admission, s) /\ HasToken(access, s)
  BY <1>0, <1>1 DEF InFlightKeepsRows, InFlight, Over
<1>3. admission[j].left > 0 /\ access[j].left > 0
  BY <1>0, <1>1, <1>2 DEF LeftInFlight, Leasing, InFlight
<1> QED  BY <1>1, <1>2, <1>3

LEMMA LiveStep ==
  ASSUME AdmissionAssumption, TimedRows, [Next]_vars
  PROVE  LiveKeepsRows'
<1>0. TypeOK /\ RowsHaveCreator /\ TasksHaveRow /\ LiveKeepsRows
  BY DEF TimedRows, Admits
<1> SUFFICES ASSUME NEW j \in Jobs, Live(j)'
             PROVE  (HasToken(admission, info[j].by) /\ HasToken(access, info[j].by))'
  BY DEF LiveKeepsRows
<1>1. CASE Live(j)
  <2> DEFINE s == info[j].by
  <2>1. info[j] # None /\ info[j] \in JobRow /\ s \in Submissions
    BY <1>0, <1>1 DEF Live, TypeOK, JobRow
  <2>2. JobOf[s] = j /\ pc[s] \notin {"undo", "releasing"} /\ ~Over(j)
    BY <1>0, <1>1, <2>1 DEF RowsHaveCreator, Live, Over
  <2>3. HasToken(admission, s) /\ HasToken(access, s)
    BY <1>0, <1>1 DEF LiveKeepsRows
  <2>5. info'[j].by = s
    BY <1>0, <2>1, RowsPersist
  <2>6. info[JobOf[s]] # None
    BY <2>1, <2>2
  <2> HIDE DEF s
  <2>7. admission'[JobOf[s]] # None /\ admission'[JobOf[s]].token = s
    BY <1>0, <2>1, <2>2, <2>3, <2>6, AdmissionKept DEF HasToken
  <2>8. access'[JobOf[s]] # None /\ access'[JobOf[s]].token = s
    BY <1>0, <2>1, <2>2, <2>3, <2>6, AccessKept DEF HasToken
  <2> QED  BY <2>5, <2>7, <2>8 DEF HasToken
<1>2. CASE ~Live(j)
  <2>1. PICK s \in Submissions :
           /\ JobOf[s] = j /\ info[j] = None /\ info'[j].by = s
           /\ pc[s] = "submitting"
           /\ HasToken(admission, s) /\ admission[j].left > 0
           /\ HasToken(access, s) /\ access[j].left > 0
    BY <1>2, NewlyLive
  <2>2. HasToken(admission, s)' /\ HasToken(access, s)'
    BY <1>0, <2>1, AdmissionKept, AccessKept DEF Over
  <2> QED  BY <2>1, <2>2 DEF HasToken
<1> QED  BY <1>1, <1>2

\* A slot taken after a step was taken before it, in the same name, or was
\* just admitted.
LEMMA SlotStep ==
  ASSUME AdmissionAssumption, TimedRows, LiveKeepsRows', [Next]_vars,
         NEW j \in Jobs, Reserved(admission, j)' \/ Live(j)'
  PROVE  /\ Reserved(admission, j)'
         /\ \/ \E s \in Submissions : Admitted(s) /\ JobOf[s] = j
            \/ /\ Reserved(admission, j)
               /\ admission'[j].token = admission[j].token
<1>0. TypeOK /\ RowsHaveCreator /\ TasksHaveRow /\ LiveKeepsRows
      /\ LeaseInFlight /\ LeftInFlight
  BY DEF TimedRows, Admits
<1>1. CASE Live(j)'
  <2> DEFINE s == info'[j].by
  <2>1. admission'[JobOf[s]] # None /\ admission'[JobOf[s]].token = s
    BY <1>1 DEF LiveKeepsRows, HasToken
  <2>2. ASSUME Live(j)
        PROVE  JobOf[s] = j /\ HasToken(admission, s) /\ Reserved(admission, j)
    <3>1. s = info[j].by /\ JobOf[s] = j
      BY <1>0, <2>2, RowsPersist DEF RowsHaveCreator, Live
    <3>2. HasToken(admission, s)
      BY <1>0, <2>2, <3>1 DEF LiveKeepsRows
    <3> QED  BY <2>2, <3>1, <3>2 DEF HasToken, Reserved
  <2>3. ASSUME ~Live(j)
        PROVE  JobOf[s] = j /\ HasToken(admission, s) /\ Reserved(admission, j)
    BY <1>1, <2>3, NewlyLive DEF HasToken, Reserved
  <2> QED  BY <1>1, <2>1, <2>2, <2>3 DEF HasToken, Reserved
<1>2. CASE ~Live(j)'
  <2>1. admission'[j] # None /\ info'[j] = None /\ admission'[j].left > 0
    BY <1>2 DEF Reserved
  <2>2. info[j] = None
    BY <1>0, <2>1, RowsPersist
  <2>3. \/ \E s \in Submissions : Admitted(s) /\ JobOf[s] = j
        \/ /\ admission[j] # None
           /\ admission'[j].token = admission[j].token
           /\ admission[j].left > 0
    BY <1>0, <2>1, SlotRow
  <2> QED  BY <1>2, <2>2, <2>3 DEF Reserved
<1> QED  BY <1>1, <1>2

-----------------------------------------------------------------------------
(* The caps.                                                               *)

\* Sets of jobs have sizes, and one more job adds at most one.
LEMMA JobSets ==
  ASSUME AdmissionAssumption, NEW S \in SUBSET Jobs
  PROVE  /\ Cardinality(S) \in Nat
         /\ \A T \in SUBSET S : Cardinality(T) <= Cardinality(S)
         /\ \A j \in Jobs : \A T \in SUBSET (S \union {j}) :
              Cardinality(T) <= Cardinality(S) + 1
<1>1. IsFiniteSet(S)
  BY FS_Subset DEF AdmissionAssumption
<1>2. Cardinality(S) \in Nat
  BY <1>1, FS_CardinalityType
<1>3. \A T \in SUBSET S : Cardinality(T) <= Cardinality(S)
  BY <1>1, FS_Subset
<1>4. ASSUME NEW j \in Jobs, NEW T \in SUBSET (S \union {j})
      PROVE  Cardinality(T) <= Cardinality(S) + 1
  <2>1. IsFiniteSet(S \union {j}) /\ Cardinality(S \union {j}) <= Cardinality(S) + 1
    <3>1. /\ IsFiniteSet(S \union {j})
          /\ Cardinality(S \union {j}) = IF j \in S THEN Cardinality(S) ELSE Cardinality(S) + 1
      BY <1>1, FS_AddElement
    <3> QED  BY <1>2, <3>1
  <2>2. Cardinality(T) <= Cardinality(S \union {j}) /\ Cardinality(T) \in Nat
    BY <2>1, FS_Subset, FS_CardinalityType
  <2>3. Cardinality(S \union {j}) \in Nat
    BY <2>1, FS_CardinalityType
  <2> QED  BY <1>2, <2>1, <2>2, <2>3
<1> QED  BY <1>2, <1>3, <1>4

\* Only an admission takes a slot, and it has counted before.
LEMMA CountedStep ==
  ASSUME AdmissionAssumption, Timed, LiveKeepsRows', RowsHaveCreator', [Next]_vars
  PROVE  Counted'
<1>0. TimedRows /\ Counted /\ LiveKeepsRows /\ RowsHaveCreator /\ TypeOK
  BY DEF Timed, TimedRows, Admits
<1>a. \A t : \A o : ActiveGlobal(t) \subseteq Jobs /\ ActiveFor(t, o) \subseteq Jobs
  BY DEF ActiveGlobal, ActiveFor
<1>b. /\ ActiveGlobal(admission)' = {j \in Jobs : Reserved(admission, j)'}
      /\ \A o \in Owners : ActiveFor(admission, o)' =
           {j \in Jobs : Reserved(admission, j)' /\ OwnerOf[admission'[j].token] = o}
  <2>1. ASSUME NEW j \in Jobs, Live(j)'
        PROVE  /\ Reserved(admission, j)'
               /\ access'[j].token = admission'[j].token
    BY <2>1 DEF LiveKeepsRows, RowsHaveCreator, HasToken, Reserved, Live
  <2> QED  BY <2>1 DEF ActiveGlobal, ActiveFor
<1>1. CASE \A s \in Submissions : ~Admitted(s)
  <2>1. \A j \in Jobs : Reserved(admission, j)' =>
          Reserved(admission, j) /\ admission'[j].token = admission[j].token
    BY <1>0, <1>1, SlotStep
  <2>2. ActiveGlobal(admission)' \subseteq ActiveGlobal(admission)
    BY <1>b, <2>1 DEF ActiveGlobal
  <2>3. \A o \in Owners : ActiveFor(admission, o)' \subseteq ActiveFor(admission, o)
    BY <1>b, <2>1 DEF ActiveFor
  <2>4. Cardinality(ActiveGlobal(admission)') <= MaxGlobal
    <3>1. Cardinality(ActiveGlobal(admission)') <= Cardinality(ActiveGlobal(admission))
      BY <1>a, <2>2, JobSets
    <3>2. /\ Cardinality(ActiveGlobal(admission)) \in Nat
          /\ Cardinality(ActiveGlobal(admission)') \in Nat
      BY <1>a, <2>2, JobSets
    <3> QED  BY <1>0, <3>1, <3>2, Limits DEF Counted
  <2>5. ASSUME NEW o \in Owners
        PROVE  Cardinality(ActiveFor(admission, o)') <= MaxPerOwner
    <3>0. ActiveFor(admission, o)' \subseteq ActiveFor(admission, o)
      BY <2>3
    <3>1. Cardinality(ActiveFor(admission, o)') <= Cardinality(ActiveFor(admission, o))
      BY <1>a, <3>0, JobSets
    <3>2. /\ Cardinality(ActiveFor(admission, o)) \in Nat
          /\ Cardinality(ActiveFor(admission, o)') \in Nat
      BY <1>a, <3>0, JobSets
    <3> QED  BY <1>0, <3>1, <3>2, Limits DEF Counted
  <2> QED  BY <2>4, <2>5 DEF Counted
<1>2. ASSUME NEW s \in Submissions, Admitted(s)
      PROVE  Counted'
  <2> DEFINE j == JobOf[s]
  <2>0. j \in Jobs
    BY DEF AdmissionAssumption
  <2>1. /\ info' = info /\ Cleaned[j] = None
        /\ \A i \in Jobs : i # j => admission'[i] = Cleaned[i]
        /\ admission'[j].token = s
    BY <1>0, <1>2, <2>0, TableTypes DEF Admitted, Row
  <2>2. \A i \in Jobs : i # j /\ Reserved(admission, i)' => Reserved(Cleaned, i)
    BY <2>1 DEF Reserved, Live
  <2>3. /\ Cardinality(ActiveGlobal(Cleaned)) < MaxGlobal
        /\ Cardinality(ActiveFor(Cleaned, OwnerOf[s])) < MaxPerOwner
    BY <1>2 DEF Admitted, Admissible
  <2>4. Cardinality(ActiveGlobal(admission)') <= MaxGlobal
    <3>1. ActiveGlobal(admission)' \subseteq ActiveGlobal(Cleaned) \union {j}
      BY <1>b, <2>2 DEF ActiveGlobal
    <3>2. Cardinality(ActiveGlobal(admission)') <= Cardinality(ActiveGlobal(Cleaned)) + 1
      BY <1>a, <2>0, <3>1, JobSets
    <3>3. Cardinality(ActiveGlobal(Cleaned)) \in Nat
      BY <1>a, JobSets
    <3>4. Cardinality(ActiveGlobal(admission)') \in Nat
      BY <1>b, JobSets
    <3> QED  BY <2>3, <3>2, <3>3, <3>4, Limits
  <2>5. ASSUME NEW o \in Owners
        PROVE  Cardinality(ActiveFor(admission, o)') <= MaxPerOwner
    <3>a. Cardinality(ActiveFor(admission, o)') \in Nat
      BY <1>b, JobSets
    <3>1. CASE o = OwnerOf[s]
      <4>1. ActiveFor(admission, o)' \subseteq ActiveFor(Cleaned, o) \union {j}
        BY <1>b, <2>1, <2>2 DEF ActiveFor
      <4>2. Cardinality(ActiveFor(admission, o)') <= Cardinality(ActiveFor(Cleaned, o)) + 1
        BY <1>a, <2>0, <4>1, JobSets
      <4>3. Cardinality(ActiveFor(Cleaned, o)) \in Nat
        BY <1>a, JobSets
      <4> QED  BY <2>3, <3>1, <3>a, <4>2, <4>3, Limits
    <3>2. CASE o # OwnerOf[s]
      <4>1. \A i \in Jobs : Cleaned[i] # None => Cleaned[i] = admission[i]
        BY DEF Cleaned
      <4>2. ActiveFor(admission, o)' \subseteq ActiveFor(admission, o)
        <5>1. ASSUME NEW i \in ActiveFor(admission, o)'
              PROVE  i \in ActiveFor(admission, o)
          <6>1. i \in Jobs /\ Reserved(admission, i)' /\ OwnerOf[admission'[i].token] = o
            BY <1>b, <5>1
          <6>2. i # j
            BY <2>1, <3>2, <6>1
          <6>3. Reserved(Cleaned, i) /\ admission'[i] = Cleaned[i]
            BY <2>1, <2>2, <6>1, <6>2
          <6>4. Cleaned[i] = admission[i]
            BY <4>1, <6>1, <6>3 DEF Reserved
          <6>5. Reserved(admission, i) /\ OwnerOf[admission[i].token] = o
            BY <6>1, <6>3, <6>4 DEF Reserved
          <6> QED  BY <6>1, <6>5 DEF ActiveFor
        <5> QED  BY <5>1
      <4>3. Cardinality(ActiveFor(admission, o)') <= Cardinality(ActiveFor(admission, o))
        BY <1>a, <4>2, JobSets
      <4>4. Cardinality(ActiveFor(admission, o)) \in Nat
        BY <1>a, JobSets
      <4> QED  BY <1>0, <3>a, <4>3, <4>4, Limits DEF Counted
    <3> QED  BY <3>1, <3>2
  <2> QED  BY <2>4, <2>5 DEF Counted
<1> QED  BY <1>1, <1>2

LEMMA TimedStep ==
  ASSUME AdmissionAssumption, Timely, Timed, [Next]_vars
  PROVE  Timed'
<1>1. Admits /\ TypeOK /\ LeaseInFlight /\ LeftInFlight /\ TimedRows
  BY DEF Timed, TimedRows, Admits
<1>2. Admits'
  BY <1>1, AdmitsStep
<1>3. TypeOK' /\ RowsHaveCreator'
  BY <1>2 DEF Admits
<1>4. LeaseInFlight' /\ LeftInFlight'
  BY <1>1, <1>3, LeaseStep, LeftStep
<1>5. InFlightKeepsRows' /\ LiveKeepsRows'
  BY <1>1, InFlightStep, LiveStep
<1>6. Counted'
  BY <1>3, <1>5, CountedStep
<1> QED  BY <1>2, <1>4, <1>5, <1>6 DEF Timed

LEMMA InitTimed ==
  ASSUME AdmissionAssumption, Init
  PROVE  Timed
<1>1. Admits
  BY InitAdmits
<1>2. LeaseInFlight /\ LeftInFlight /\ InFlightKeepsRows /\ LiveKeepsRows
  BY DEF Init, LeaseInFlight, LeftInFlight, InFlightKeepsRows, LiveKeepsRows,
         InFlight, Leasing, Live
<1>3. /\ ActiveGlobal(admission) = {}
      /\ \A o \in Owners : ActiveFor(admission, o) = {}
  BY DEF Init, ActiveGlobal, ActiveFor, Reserved, Live
<1>4. Counted
  BY <1>3, FS_EmptySet, Limits DEF Counted
<1> QED  BY <1>1, <1>2, <1>4 DEF Timed

LEMMA AlwaysTimed == ASSUME AdmissionAssumption, Timely PROVE Spec => []Timed
<1>1. Init => Timed
  BY InitTimed
<1>2. Timed /\ [Next]_vars => Timed'
  BY TimedStep
<1> QED  BY <1>1, <1>2, PTL DEF Spec

\* Whatever the caps and however many replicas, submissions, owners and jobs:
\* the live jobs never exceed the caps when submissions renew in time.
THEOREM WithinCapacityHolds ==
  ASSUME AdmissionAssumption, Timely PROVE Spec => []WithinCapacity
<1>1. ASSUME Timed
      PROVE  WithinCapacity
  <2>0. TypeOK /\ RowsHaveCreator /\ LiveKeepsRows /\ Counted
    BY <1>1 DEF Timed, Admits
  <2>1. LiveJobs \subseteq ActiveGlobal(admission)
    BY DEF LiveJobs, ActiveGlobal
  <2>2. ASSUME NEW o \in Owners
        PROVE  {j \in LiveJobs : OwnerOf[info[j].by] = o} \subseteq ActiveFor(admission, o)
    BY <2>0 DEF LiveJobs, ActiveFor, Reserved, LiveKeepsRows, RowsHaveCreator, HasToken, Live
  <2>3. \A T : \A S \in SUBSET Jobs : T \subseteq S =>
          Cardinality(T) <= Cardinality(S) /\ Cardinality(T) \in Nat /\ Cardinality(S) \in Nat
    BY JobSets
  <2>4. ActiveGlobal(admission) \in SUBSET Jobs
    BY DEF ActiveGlobal
  <2>5. \A o \in Owners : ActiveFor(admission, o) \in SUBSET Jobs
    BY DEF ActiveFor
  <2>6. Cardinality(LiveJobs) <= MaxGlobal
    BY <2>0, <2>1, <2>3, <2>4, Limits DEF Counted
  <2>7. ASSUME NEW o \in Owners
        PROVE  Cardinality({j \in LiveJobs : OwnerOf[info[j].by] = o}) <= MaxPerOwner
    <3> DEFINE T == {j \in LiveJobs : OwnerOf[info[j].by] = o}
               S == ActiveFor(admission, o)
    <3>1. T \subseteq S /\ S \in SUBSET Jobs /\ Cardinality(S) <= MaxPerOwner
      BY <2>0, <2>2, <2>5 DEF Counted
    <3> HIDE DEF T, S
    <3>2. Cardinality(T) <= MaxPerOwner
      BY <2>3, <3>1, Limits
    <3> QED  BY <3>2 DEF T
  <2> QED  BY <2>6, <2>7 DEF WithinCapacity
<1> QED  BY <1>1, AlwaysTimed, PTL

\* A running job has the access row of its creator, when submissions renew in
\* time.
THEOREM RunsOwnedHolds ==
  ASSUME AdmissionAssumption, Timely PROVE Spec => []RunsOwned
<1>1. Timed => RunsOwned
  BY DEF Timed, Admits, LiveKeepsRows, RowsHaveCreator, HasToken, Live, RunsOwned
<1> QED  BY <1>1, AlwaysTimed, PTL

\* Nobody takes the rows of a timely submission in flight before its job is
\* over.
THEOREM InFlightKeepsRowsHolds ==
  ASSUME AdmissionAssumption, Timely PROVE Spec => []InFlightKeepsRows
<1>1. Timed => InFlightKeepsRows
  BY DEF Timed
<1> QED  BY <1>1, AlwaysTimed, PTL

-----------------------------------------------------------------------------
(* Artifacts: the inductive invariant.                                     *)

Finals == {AgentFinal, RunnerFinal}
Holds == {"storing", "inserting", "rollback", "counting"}

\* A content is in the store, or was until retention deleted it.
Stored(c) == \E i \in Ids : artifact[i].digest = c /\ (artifact[i].row \/ i \in expired)

\* Who captures has the lock.
Serialized == \A t \in Harvesters : capture[t].at \in Capturing => mutex = t

\* Who makes a final harvest has its lock, and none has been done.
OneFinal ==
  /\ \A t \in Finals : capture[t].at \in {"waiting"} \cup Capturing => finalOwner = t
  /\ finalOwner # Nothing => ~finalDone

\* No final harvest while the agent works, and no other one before its report.
Stages ==
  /\ step = "agent" => /\ capture[AgentFinal].at = "idle" /\ capture[RunnerFinal].at = "idle"
                       /\ ~finalDone
  /\ step = "report" => /\ capture[RunnerFinal].at = "idle"
                        /\ \A t \in Checkpoints : capture[t].at = "idle"

\* What is known of the artifact that a thread is storing.
Book(t) ==
  /\ capture[t].id \in Ids /\ capture[t].id \notin announced \cup expired
  /\ capture[t].digest \in Contents /\ capture[t].path \in Files
  /\ count < MaxCount /\ bytes + Size[capture[t].digest] <= MaxTotal
  /\ capture[t].at \in {"storing", "inserting"} =>
       /\ ~artifact[capture[t].id].row
       /\ \A k \in Rows : artifact[k].digest # capture[t].digest
  /\ capture[t].at = "storing" => provider = "s3"
  /\ capture[t].at = "inserting" /\ provider = "s3" => artifact[capture[t].id].bytes
  /\ capture[t].at = "counting" =>
       Kept(capture[t].id) /\ artifact[capture[t].id].digest = capture[t].digest
  /\ capture[t].at = "rollback" /\ provider = "s3" /\ artifact[capture[t].id].row =>
       capture[t].id \in torn

Held == \A t \in Harvesters : capture[t].at \in Holds => Book(t)

RowsHaveBytes == \A i \in Ids : artifact[i].row /\ ~artifact[i].bytes => i \in torn \cup expired

SeenStored == \A p \in Files, c \in Contents : <<p, c>> \in seen => Stored(c)

\* A final harvest that leaves nothing out knowingly has every good file on
\* its list, in the store or in its hands.
Covered ==
  \A t \in Finals : capture[t].at \in Capturing /\ ~shortfall =>
    \A p \in Files : file[p] \in Contents =>
      \/ p \in capture[t].todo
      \/ Stored(file[p])
      \/ capture[t].at \in Holds /\ capture[t].path = p /\ capture[t].digest = file[p]

InStore == RowsHaveBytes /\ AnnouncedStored /\ EmbeddedStored /\ RetentionLeaksNothing /\ ContentOnce

ArtInv ==
  /\ ArtTypeOK /\ Serialized /\ OneFinal /\ Stages /\ Held
  /\ InStore /\ SeenStored /\ CaptureBounded /\ Covered /\ FinalComplete

-----------------------------------------------------------------------------
(* What a step does to one thread and to one artifact.                     *)

\* The threads of a job, and where they are.
LEMMA ThreadsOf ==
  /\ Finals \subseteq Harvesters /\ Checkpoints \subseteq Harvesters /\ Nothing \notin Harvesters
  /\ Finals \cap Checkpoints = {} /\ AgentFinal # RunnerFinal
  /\ Capturing \cap Resting = {} /\ Holds \subseteq Capturing
  BY ArtifactsAssumption DEF Finals, Harvesters, Capturing, Resting, Holds

\* One thread takes a new state.
LEMMA BecomesTo ==
  ASSUME capture \in [Harvesters -> Captures], NEW t \in Harvesters, NEW next \in Captures, Becomes(t, next)
  PROVE  /\ capture' \in [Harvesters -> Captures] /\ capture'[t] = next
         /\ \A u \in Harvesters \ {t} : capture'[u] = capture[u]
  BY DEF Becomes

\* One artifact takes a new state.
LEMMA KeepsTo ==
  ASSUME artifact \in [Ids -> Stores], NEW i \in Ids, NEW a \in Stores, Keeps(i, a)
  PROVE  /\ artifact' \in [Ids -> Stores] /\ artifact'[i] = a
         /\ \A k \in Ids \ {i} : artifact'[k] = artifact[k]
  BY DEF Keeps

\* The state of one thread.
LEMMA CaptureOf ==
  ASSUME ArtTypeOK, NEW t \in Harvesters
  PROVE  /\ capture[t].at \in Capturing \cup Resting /\ capture[t].todo \subseteq Files
         /\ capture[t].path \in Files \cup {Nothing} /\ capture[t].digest \in Contents \cup {Nothing}
         /\ capture[t].id \in 0..MaxIds
         /\ capture[t] = [at |-> capture[t].at, todo |-> capture[t].todo, path |-> capture[t].path,
                          digest |-> capture[t].digest, id |-> capture[t].id]
  BY DEF ArtTypeOK, Captures

\* A thread moves on, and keeps what it holds.
LEMMA MovesTo ==
  ASSUME ArtTypeOK, NEW t \in Harvesters, NEW to \in Capturing \cup Resting, MovesOn(t, to)
  PROVE  /\ capture' \in [Harvesters -> Captures]
         /\ capture'[t].at = to /\ capture'[t].todo = capture[t].todo /\ capture'[t].path = capture[t].path
         /\ capture'[t].digest = capture[t].digest /\ capture'[t].id = capture[t].id
         /\ \A u \in Harvesters \ {t} : capture'[u] = capture[u]
  <1> DEFINE next == [capture[t] EXCEPT !.at = to]
  <1>1. /\ next \in Captures /\ next.at = to /\ next.todo = capture[t].todo /\ next.path = capture[t].path
        /\ next.digest = capture[t].digest /\ next.id = capture[t].id
    BY DEF ArtTypeOK, Captures
  <1>2. Becomes(t, next)
    BY DEF MovesOn
  <1> HIDE DEF next
  <1> QED
    BY <1>1, <1>2, BecomesTo DEF ArtTypeOK

\* A thread lists the entries it will take up.
LEMMA ListsTo ==
  ASSUME ArtTypeOK, NEW t \in Harvesters, NEW entries \in SUBSET Files, Lists(t, entries)
  PROVE  /\ capture' \in [Harvesters -> Captures]
         /\ capture'[t].at = "picking" /\ capture'[t].todo = entries
         /\ \A u \in Harvesters \ {t} : capture'[u] = capture[u]
  <1> DEFINE next == [capture[t] EXCEPT !.at = "picking", !.todo = entries]
  <1>1. next \in Captures /\ next.at = "picking" /\ next.todo = entries
    BY DEF ArtTypeOK, Captures, Capturing
  <1>2. Becomes(t, next)
    BY DEF Lists
  <1> HIDE DEF next
  <1> QED
    BY <1>1, <1>2, BecomesTo DEF ArtTypeOK

\* An entry leaves the list of its thread.
LEMMA DropsTo ==
  ASSUME ArtTypeOK, NEW t \in Harvesters, NEW p \in Files, Becomes(t, Unlisted(t, p))
  PROVE  /\ capture' \in [Harvesters -> Captures]
         /\ capture'[t].at = capture[t].at /\ capture'[t].todo = capture[t].todo \ {p}
         /\ \A u \in Harvesters \ {t} : capture'[u] = capture[u]
  <1>1. /\ Unlisted(t, p) \in Captures /\ Unlisted(t, p).at = capture[t].at
        /\ Unlisted(t, p).todo = capture[t].todo \ {p}
    BY DEF ArtTypeOK, Captures, Unlisted
  <1> QED
    BY <1>1, BecomesTo DEF ArtTypeOK

\* A thread takes up an entry, under a new id.
LEMMA TakesTo ==
  ASSUME ArtTypeOK, NEW t \in Harvesters, NEW p \in Files, NEW c \in Contents, NEW i \in Ids, Takes(t, p, c, i)
  PROVE  /\ capture' \in [Harvesters -> Captures]
         /\ capture'[t].at = IF provider = "sql" THEN "inserting" ELSE "storing"
         /\ capture'[t].todo = capture[t].todo \ {p} /\ capture'[t].path = p
         /\ capture'[t].digest = c /\ capture'[t].id = i
         /\ \A u \in Harvesters \ {t} : capture'[u] = capture[u]
  <1> DEFINE to == IF provider = "sql" THEN "inserting" ELSE "storing"
             next == [at |-> to, todo |-> capture[t].todo \ {p}, path |-> p, digest |-> c, id |-> i]
  <1>1. to \in Capturing
    BY DEF Capturing
  <1>2. capture[t].todo \ {p} \in SUBSET Files
    BY CaptureOf
  <1>3. i \in 0..MaxIds
    BY ArtifactsAssumption DEF Ids
  <1>4. Becomes(t, next)
    BY DEF Takes
  <1> HIDE DEF to
  <1>5. next \in Captures
    BY <1>1, <1>2, <1>3 DEF Captures
  <1>6. next.at = to /\ next.todo = capture[t].todo \ {p} /\ next.path = p /\ next.digest = c /\ next.id = i
    OBVIOUS
  <1> HIDE DEF next
  <1>7. capture' \in [Harvesters -> Captures] /\ capture'[t] = next /\ \A u \in Harvesters \ {t} : capture'[u] = capture[u]
    BY <1>4, <1>5, BecomesTo DEF ArtTypeOK
  <1> QED
    BY <1>6, <1>7 DEF to

\* Threads that hold nothing.
LEMMA NoCaptureType ==
  ASSUME NEW at \in Capturing \cup Resting, NEW todo \in SUBSET Files
  PROVE  /\ [NoCapture EXCEPT !.at = at, !.todo = todo] \in Captures
         /\ [NoCapture EXCEPT !.at = at, !.todo = todo].at = at
         /\ [NoCapture EXCEPT !.at = at, !.todo = todo].todo = todo
         /\ [NoCapture EXCEPT !.at = at] \in Captures /\ [NoCapture EXCEPT !.at = at].at = at
         /\ NoCapture \in Captures /\ NoCapture.at = "idle"
  <1>1. NoCapture \in Captures /\ NoCapture.at = "idle"
    BY ArtifactsAssumption DEF NoCapture, Captures, Capturing, Resting
  <1>2. /\ [NoCapture EXCEPT !.at = at] \in Captures
        /\ [NoCapture EXCEPT !.at = at].at = at
    BY <1>1 DEF Captures
  <1>3. /\ [NoCapture EXCEPT !.at = at, !.todo = todo] \in Captures
        /\ [NoCapture EXCEPT !.at = at, !.todo = todo].at = at
        /\ [NoCapture EXCEPT !.at = at, !.todo = todo].todo = todo
    BY <1>1 DEF Captures
  <1> QED
    BY <1>1, <1>2, <1>3

\* A thread that is asked for a final harvest holds nothing.
LEMMA AsksTo ==
  /\ AskedFinal \in Captures /\ AskedFinal.at = "asked"
  /\ NoCapture \in Captures /\ NoCapture.at = "idle"
  BY NoCaptureType DEF AskedFinal, Resting

\* The end of a harvest: its thread rests and gives back its locks.
LEMMA EndsTo ==
  ASSUME ArtTypeOK, NEW t \in Harvesters, NEW returned \in BOOLEAN, EndsHarvest(t, returned)
  PROVE  /\ capture' \in [Harvesters -> Captures]
         /\ capture'[t].at \in Resting /\ capture'[t].at \notin {"waiting", "asked"}
         /\ t \notin Finals => capture'[t].at = "idle"
         /\ \A u \in Harvesters \ {t} : capture'[u] = capture[u]
         /\ mutex' = (IF mutex = t THEN Nothing ELSE mutex)
         /\ finalOwner' = (IF finalOwner = t THEN Nothing ELSE finalOwner)
         /\ finalDone' = (finalDone \/ (t \in Finals /\ returned))
  <1> DEFINE at == EndsAt(t, returned)
             next == [NoCapture EXCEPT !.at = at]
  <1>1. at \in Resting /\ at \notin {"waiting", "asked"} /\ (t \notin Finals => at = "idle")
    BY DEF EndsAt, Resting, IsFinal, Finals
  <1>2. next \in Captures /\ next.at = at
    BY <1>1, NoCaptureType
  <1>3. Becomes(t, next)
    BY DEF EndsHarvest
  <1>4. /\ mutex' = (IF mutex = t THEN Nothing ELSE mutex)
        /\ finalOwner' = (IF finalOwner = t THEN Nothing ELSE finalOwner)
        /\ finalDone' = (finalDone \/ (t \in Finals /\ returned))
    BY DEF EndsHarvest, IsDone, IsFinal, Finals
  <1> HIDE DEF at, next
  <1>5. capture' \in [Harvesters -> Captures] /\ capture'[t] = next /\ \A u \in Harvesters \ {t} : capture'[u] = capture[u]
    BY <1>2, <1>3, BecomesTo DEF ArtTypeOK
  <1> QED
    BY <1>1, <1>2, <1>4, <1>5

\* Two threads do not capture.
LEMMA Alone ==
  ASSUME ArtInv, NEW t \in Harvesters, capture[t].at \in Capturing, NEW u \in Harvesters \ {t}
  PROVE  capture[u].at \notin Capturing
  BY DEF ArtInv, Serialized

\* While the lock is free, or retention works, nobody captures.
LEMMA Nobody ==
  ASSUME ArtInv, mutex = Nothing \/ Settled, NEW t \in Harvesters
  PROVE  capture[t].at \notin Capturing
  BY ThreadsOf DEF ArtInv, Serialized, Settled, Capturing

\* What a thread holds.
LEMMA BookOf ==
  ASSUME ArtInv, NEW t \in Harvesters, capture[t].at \in Holds
  PROVE  Book(t) /\ Holding(t) \in Ids /\ Holding(t) \notin announced \cup expired
  BY DEF ArtInv, Held, Book, Holding

\* The states retention and roll back give to an artifact.
LEMMA StoresOf ==
  ASSUME ArtTypeOK, NEW i \in Ids
  PROVE  /\ artifact[i].digest \in Contents \cup {Nothing} /\ artifact[i].row \in BOOLEAN
         /\ artifact[i].bytes \in BOOLEAN
         /\ NoBytes(i) \in Stores /\ NoBytes(i).digest = artifact[i].digest
         /\ NoBytes(i).row = artifact[i].row /\ NoBytes(i).bytes = FALSE
         /\ NoArtifact \in Stores /\ NoArtifact.row = FALSE /\ NoArtifact.bytes = FALSE /\ NoArtifact.digest = Nothing
         /\ NoRow(i) \in Stores /\ NoRow(i).digest = artifact[i].digest /\ NoRow(i).row = FALSE
         /\ NoRow(i).bytes = (IF provider = "sql" THEN FALSE ELSE artifact[i].bytes)
  BY DEF ArtTypeOK, Stores, NoBytes, NoArtifact, NoRow

\* The states an upload and an insert give to an artifact.
LEMMA WritesOf ==
  ASSUME ArtTypeOK, NEW t \in Harvesters, Holding(t) \in Ids, Digest(t) \in Contents
  PROVE  /\ Uploaded(t) \in Stores /\ Uploaded(t).digest = Digest(t) /\ Uploaded(t).bytes = TRUE
         /\ Uploaded(t).row = artifact[Holding(t)].row
         /\ Inserted(t) \in Stores /\ Inserted(t).digest = Digest(t) /\ Inserted(t).row = TRUE
         /\ Inserted(t).bytes = (artifact[Holding(t)].bytes \/ provider = "sql")
  BY DEF ArtTypeOK, Stores, Uploaded, Inserted

\* What storing, inserting and rolling back do to the store.
LEMMA StoreBytesTo ==
  ASSUME ArtInv, NEW t \in Harvesters, StoreBytes(t)
  PROVE  /\ capture[t].at = "storing" /\ Book(t)
         /\ artifact' \in [Ids -> Stores]
         /\ \A k \in Ids \ {Holding(t)} : artifact'[k] = artifact[k]
         /\ ~artifact'[Holding(t)].row
         /\ capture'[t].at \in {"inserting", "rollback"}
         /\ capture'[t].at = "inserting" => artifact'[Holding(t)].bytes
         /\ UNCHANGED <<torn, announced, expired, embedded, seen, count, bytes>>
         /\ capture' \in [Harvesters -> Captures]
         /\ capture'[t].todo = capture[t].todo /\ capture'[t].path = capture[t].path
         /\ capture'[t].digest = capture[t].digest /\ capture'[t].id = capture[t].id
         /\ \A u \in Harvesters \ {t} : capture'[u] = capture[u]
  <1>1. capture[t].at = "storing" /\ Book(t) /\ Holding(t) \in Ids /\ ~artifact[Holding(t)].row /\ Digest(t) \in Contents
    BY BookOf DEF StoreBytes, Holds, Book, Holding, Digest
  <1>2. PICK to \in {"inserting", "rollback"} :
          MovesOn(t, to) /\ (Keeps(Holding(t), Uploaded(t)) \/ (to = "rollback" /\ UNCHANGED artifact))
    BY DEF StoreBytes, FailedUpload
  <1>3. ArtTypeOK /\ to \in Capturing \cup Resting
    BY DEF ArtInv, Capturing
  <1>4. /\ artifact' \in [Ids -> Stores]
        /\ \A k \in Ids \ {Holding(t)} : artifact'[k] = artifact[k]
        /\ ~artifact'[Holding(t)].row
        /\ to = "inserting" => artifact'[Holding(t)].bytes
    <2>1. CASE Keeps(Holding(t), Uploaded(t))
      BY <1>1, <1>3, <2>1, WritesOf, KeepsTo DEF ArtTypeOK
    <2>2. CASE to = "rollback" /\ UNCHANGED artifact
      BY <1>1, <1>3, <2>2 DEF ArtTypeOK
    <2> QED
      BY <1>2, <2>1, <2>2
  <1> QED
    BY <1>1, <1>2, <1>3, <1>4, MovesTo DEF StoreBytes, books, told

LEMMA InsertRowTo ==
  ASSUME ArtInv, NEW t \in Harvesters, InsertRow(t)
  PROVE  /\ capture[t].at = "inserting" /\ Book(t)
         /\ artifact' \in [Ids -> Stores]
         /\ \A k \in Ids \ {Holding(t)} : artifact'[k] = artifact[k]
         /\ capture'[t].at \in {"counting", "rollback"}
         /\ \/ /\ artifact'[Holding(t)].row /\ artifact'[Holding(t)].bytes
               /\ artifact'[Holding(t)].digest = Digest(t)
               /\ capture'[t].at = "rollback" /\ provider = "s3" => Holding(t) \in torn'
            \/ UNCHANGED <<artifact, torn>> /\ capture'[t].at = "rollback"
         /\ torn \subseteq torn' /\ torn' \subseteq torn \cup {Holding(t)}
         /\ UNCHANGED <<announced, expired, embedded, seen, count, bytes>>
         /\ capture' \in [Harvesters -> Captures]
         /\ capture'[t].todo = capture[t].todo /\ capture'[t].path = capture[t].path
         /\ capture'[t].digest = capture[t].digest /\ capture'[t].id = capture[t].id
         /\ \A u \in Harvesters \ {t} : capture'[u] = capture[u]
  <1>1. capture[t].at = "inserting" /\ Book(t) /\ Holding(t) \in Ids /\ Digest(t) \in Contents
    BY BookOf DEF InsertRow, Holds, Book, Holding, Digest
  <1>2. PICK to \in {"counting", "rollback"} :
          /\ MovesOn(t, to)
          /\ \/ Keeps(Holding(t), Inserted(t)) /\ torn \subseteq torn' /\ torn' \subseteq torn \cup {Holding(t)}
                /\ (to = "rollback" /\ provider = "s3" => Holding(t) \in torn')
             \/ UNCHANGED <<artifact, torn>> /\ to = "rollback"
    BY DEF InsertRow, store
  <1>3. ArtTypeOK /\ to \in Capturing \cup Resting /\ provider \in {"sql", "s3"}
    BY DEF ArtInv, Capturing, ArtTypeOK
  <1>4. artifact[Holding(t)].bytes \/ provider = "sql"
    BY <1>1, <1>3 DEF Book, Holding
  <1>5. /\ artifact' \in [Ids -> Stores]
        /\ \A k \in Ids \ {Holding(t)} : artifact'[k] = artifact[k]
        /\ \/ /\ artifact'[Holding(t)].row /\ artifact'[Holding(t)].bytes
              /\ artifact'[Holding(t)].digest = Digest(t)
              /\ to = "rollback" /\ provider = "s3" => Holding(t) \in torn'
           \/ UNCHANGED <<artifact, torn>> /\ to = "rollback"
    <2>1. CASE Keeps(Holding(t), Inserted(t)) /\ (to = "rollback" /\ provider = "s3" => Holding(t) \in torn')
      BY <1>1, <1>3, <1>4, <2>1, WritesOf, KeepsTo DEF ArtTypeOK
    <2>2. CASE UNCHANGED <<artifact, torn>> /\ to = "rollback"
      BY <1>3, <2>2 DEF ArtTypeOK
    <2> QED
      BY <1>2, <2>1, <2>2
  <1> QED
    BY <1>1, <1>2, <1>3, <1>5, MovesTo DEF InsertRow, books, told

LEMMA RollBackTo ==
  ASSUME ArtInv, NEW t \in Harvesters, RollBack(t)
  PROVE  /\ capture[t].at = "rollback" /\ Book(t)
         /\ artifact' \in [Ids -> Stores]
         /\ \A k \in Ids \ {Holding(t)} : artifact'[k] = artifact[k]
         /\ artifact'[Holding(t)].row = artifact[Holding(t)].row
         /\ artifact[Holding(t)].row => artifact'[Holding(t)].digest = artifact[Holding(t)].digest
         /\ UNCHANGED artifact \/ (provider = "s3" /\ ~artifact'[Holding(t)].bytes)
         /\ UNCHANGED <<torn, announced, expired, embedded, seen, count, bytes>>
         /\ EndsHarvest(t, FALSE)
  <1>1. capture[t].at = "rollback" /\ Book(t) /\ Holding(t) \in Ids
    BY BookOf DEF RollBack, Holds, Book, Holding
  <1>2. ArtTypeOK
    BY DEF ArtInv
  <1>3. CASE provider = "s3" /\ Keeps(Holding(t), Deleted(Holding(t)))
    <2>1. /\ Deleted(Holding(t)) \in Stores /\ Deleted(Holding(t)).row = artifact[Holding(t)].row
          /\ Deleted(Holding(t)).bytes = FALSE
          /\ artifact[Holding(t)].row => Deleted(Holding(t)).digest = artifact[Holding(t)].digest
      BY <1>1, <1>2, StoresOf DEF Deleted
    <2>2. /\ artifact' \in [Ids -> Stores] /\ artifact'[Holding(t)] = Deleted(Holding(t))
          /\ \A k \in Ids \ {Holding(t)} : artifact'[k] = artifact[k]
      BY <1>1, <1>2, <1>3, <2>1, KeepsTo DEF ArtTypeOK
    <2> QED
      BY <1>1, <1>3, <2>1, <2>2 DEF RollBack, books, told
  <1>4. CASE UNCHANGED artifact
    BY <1>1, <1>2, <1>4 DEF RollBack, ArtTypeOK, books, told
  <1> QED
    BY <1>3, <1>4 DEF RollBack

LEMMA CountsTo ==
  ASSUME ArtInv, NEW t \in Harvesters, CountAndAnnounce(t)
  PROVE  /\ capture[t].at = "counting" /\ Book(t)
         /\ UNCHANGED <<artifact, torn, expired, embedded>>
         /\ seen' = seen \cup {<<capture[t].path, capture[t].digest>>}
         /\ count' = count + 1 /\ bytes' = bytes + Size[capture[t].digest]
         /\ \/ /\ announced' = announced \cup {capture[t].id}
               /\ UNCHANGED <<mutex, finalOwner, finalDone>>
               /\ capture' \in [Harvesters -> Captures]
               /\ capture'[t].at = "picking" /\ capture'[t].todo = capture[t].todo
               /\ \A u \in Harvesters \ {t} : capture'[u] = capture[u]
            \/ EndsHarvest(t, FALSE) /\ announced' = announced
  <1>1. capture[t].at = "counting" /\ Book(t)
    BY BookOf DEF CountAndAnnounce, Holds
  <1>2. ArtTypeOK /\ "picking" \in Capturing \cup Resting /\ capture[t].todo \in SUBSET Files
    BY CaptureOf DEF ArtInv, Capturing
  <1>3. CASE EndsHarvest(t, FALSE) /\ announced' = announced
    BY <1>1, <1>3 DEF CountAndAnnounce, Digest, store
  <1>4. CASE /\ Becomes(t, [NoCapture EXCEPT !.at = "picking", !.todo = capture[t].todo])
             /\ announced' = announced \cup {Holding(t)} /\ UNCHANGED <<locks, finalDone>>
    <2> DEFINE next == [NoCapture EXCEPT !.at = "picking", !.todo = capture[t].todo]
    <2>1. next \in Captures /\ next.at = "picking" /\ next.todo = capture[t].todo
      BY <1>2, NoCaptureType, ZenonT(40)
    <2>2. Becomes(t, next)
      BY <1>4
    <2> HIDE DEF next
    <2>3. capture' \in [Harvesters -> Captures] /\ capture'[t] = next /\ \A u \in Harvesters \ {t} : capture'[u] = capture[u]
      BY <1>2, <2>1, <2>2, BecomesTo DEF ArtTypeOK
    <2> QED
      BY <1>1, <1>4, <2>1, <2>3 DEF CountAndAnnounce, Digest, Holding, store, locks
  <1> QED
    BY <1>3, <1>4 DEF CountAndAnnounce

\* A file is left out, taken, or the end of the harvest.
Leaves(t, p) ==
  /\ Becomes(t, Unlisted(t, p)) /\ UNCHANGED <<mutex, finalOwner, finalDone>>
  /\ shortfall => shortfall'
  /\ t \in Finals /\ ~shortfall' => file[p] \notin Contents \/ Stored(file[p])
  /\ \/ seen' = seen
     \/ seen' = seen \cup {<<p, file[p]>>} /\ file[p] \in Contents /\ Stored(file[p])
GivesUp(t) == EndsHarvest(t, FALSE) /\ seen' = seen /\ (shortfall => shortfall')
TakesUp(t, p) ==
  /\ \E i \in Unused : Takes(t, p, file[p], i)
  /\ file[p] \in Contents /\ count < MaxCount /\ Fits(file[p])
  /\ \A k \in Rows : artifact[k].digest # file[p]
  /\ UNCHANGED <<mutex, finalOwner, finalDone, seen, shortfall>>

\* What Pick can do with the entry it takes.
LEMMA PickTo ==
  ASSUME ArtInv, NEW t \in Harvesters, Pick(t)
  PROVE  /\ capture[t].at = "picking" /\ shortfall' \in BOOLEAN
         /\ UNCHANGED <<count, bytes, artifact, torn, announced, embedded, expired, file, step, provider, attempt>>
         /\ \E p \in capture[t].todo : p \in Files /\ (Leaves(t, p) \/ GivesUp(t) \/ TakesUp(t, p))
  <1>1. PICK p \in capture[t].todo :
          \/ Rejects(t, p, TRUE)
          \/ file[p] = Nothing /\ Rejects(t, p, FALSE)
          \/ /\ count < MaxCount /\ file[p] # Nothing /\ Fits(file[p])
             /\ IF <<p, file[p]>> \in seen THEN Skips(t, p) /\ UNCHANGED seen ELSE FindsDigest(t, p, file[p])
             /\ UNCHANGED shortfall
    BY DEF Pick
  <1>2. p \in Files /\ file[p] \in Contents \cup {Nothing} /\ Nothing \notin Contents /\ shortfall \in BOOLEAN
    BY CaptureOf, ArtifactsAssumption DEF ArtInv, ArtTypeOK
  <1>3. ASSUME NEW known \in BOOLEAN, Rejects(t, p, known), known \/ file[p] = Nothing
        PROVE  (Leaves(t, p) \/ GivesUp(t)) /\ shortfall' \in BOOLEAN
    BY <1>2, <1>3 DEF Rejects, Skips, Leaves, GivesUp, IsFinal, Finals, locks
  <1>4. ASSUME count < MaxCount, file[p] # Nothing, Fits(file[p]), UNCHANGED shortfall,
               IF <<p, file[p]>> \in seen THEN Skips(t, p) /\ UNCHANGED seen ELSE FindsDigest(t, p, file[p])
        PROVE  Leaves(t, p) \/ GivesUp(t) \/ TakesUp(t, p)
    <2>1. CASE Skips(t, p) /\ UNCHANGED seen /\ <<p, file[p]>> \in seen
      BY <1>2, <1>4, <2>1 DEF Skips, Leaves, locks, ArtInv, SeenStored
    <2>2. CASE FindsDigest(t, p, file[p])
      <3>1. CASE EndsHarvest(t, FALSE) /\ UNCHANGED seen
        BY <1>4, <3>1 DEF GivesUp
      <3>2. CASE /\ \E i \in Ids : artifact[i].row /\ artifact[i].digest = file[p]
                 /\ seen' = seen \cup {<<p, file[p]>>} /\ Skips(t, p)
        BY <1>2, <1>4, <3>2 DEF Skips, Leaves, Stored, locks
      <3>3. CASE /\ ~\E i \in Ids : artifact[i].row /\ artifact[i].digest = file[p]
                 /\ Unused # {} /\ Takes(t, p, file[p], CHOOSE i \in Unused : TRUE)
                 /\ UNCHANGED <<seen, locks, finalDone>>
        BY <1>2, <1>4, <3>3 DEF TakesUp, Rows, locks
      <3> QED
        BY <2>2, <3>1, <3>2, <3>3 DEF FindsDigest
    <2> QED
      BY <1>4, <2>1, <2>2
  <1>5. /\ capture[t].at = "picking"
        /\ UNCHANGED <<count, bytes, artifact, torn, announced, embedded, expired, file, step, provider, attempt>>
    BY DEF Pick, store, told, jobSteps
  <1>6. (Leaves(t, p) \/ GivesUp(t) \/ TakesUp(t, p)) /\ shortfall' \in BOOLEAN
    BY <1>1, <1>2, <1>3, <1>4
  <1> QED
    BY <1>2, <1>5, <1>6

-----------------------------------------------------------------------------
(* What the other steps do to the threads.                                 *)

\* What the other steps do to their threads.
LEMMA CheckpointTo ==
  ASSUME ArtInv, NEW t \in Checkpoints, Checkpoint(t)
  PROVE  /\ t \in Harvesters \ Finals /\ capture[t].at = "idle"
         /\ capture' \in [Harvesters -> Captures] /\ capture'[t].at = "waiting"
         /\ \A u \in Harvesters \ {t} : capture'[u] = capture[u]
  BY ThreadsOf, MovesTo DEF ArtInv, Checkpoint, Resting

LEMMA EnterFinalTo ==
  ASSUME ArtInv, NEW t \in Harvesters, EnterFinal(t)
  PROVE  /\ capture[t].at = "asked" /\ finalOwner = Nothing
         /\ capture' \in [Harvesters -> Captures]
         /\ \A u \in Harvesters \ {t} : capture'[u] = capture[u]
         /\ \/ capture'[t].at = "returned" /\ finalOwner' = Nothing
            \/ capture'[t].at = "waiting" /\ finalOwner' = t /\ ~finalDone
  BY MovesTo DEF ArtInv, EnterFinal, Resting

LEMMA DiscoverTo ==
  ASSUME ArtInv, NEW t \in Harvesters, Discover(t)
  PROVE  /\ capture[t].at = "waiting" /\ mutex = Nothing /\ mutex' = t
         /\ capture' \in [Harvesters -> Captures] /\ capture'[t].at = "picking"
         /\ \A u \in Harvesters \ {t} : capture'[u] = capture[u]
         /\ shortfall' \in BOOLEAN
         /\ t \notin Finals => shortfall' = shortfall
         /\ t \in Finals /\ ~shortfall' => \A p \in Files : file[p] # Nothing => p \in capture'[t].todo
  <1>1. PICK declared \in SUBSET Files, scanned \in BOOLEAN :
          /\ Lists(t, declared \cup {p \in Files : scanned /\ file[p] # Nothing})
          /\ shortfall' = IF IsFinal(t) THEN ~scanned ELSE shortfall
    BY DEF Discover
  <1> DEFINE entries == declared \cup {p \in Files : scanned /\ file[p] # Nothing}
  <1>2. entries \in SUBSET Files /\ (scanned => \A p \in Files : file[p] # Nothing => p \in entries)
    OBVIOUS
  <1>3. Lists(t, entries)
    BY <1>1
  <1> HIDE DEF entries
  <1>4. /\ capture' \in [Harvesters -> Captures] /\ capture'[t].at = "picking" /\ capture'[t].todo = entries
        /\ \A u \in Harvesters \ {t} : capture'[u] = capture[u]
    BY <1>2, <1>3, ListsTo DEF ArtInv
  <1> QED
    BY <1>1, <1>2, <1>4 DEF Discover, MutexFree, IsFinal, Finals, ArtInv, ArtTypeOK

LEMMA EndHarvestTo ==
  ASSUME ArtInv, NEW t \in Harvesters, EndHarvest(t)
  PROVE  capture[t].at = "picking" /\ capture[t].todo = {} /\ EndsHarvest(t, TRUE)
  BY DEF EndHarvest

LEMMA AgentFinishesTo ==
  ASSUME ArtInv, AgentFinishes
  PROVE  /\ step = "agent" /\ \A t \in Checkpoints : capture[t].at = "idle"
         /\ capture' \in [Harvesters -> Captures] /\ capture'[AgentFinal].at = "asked"
         /\ \A u \in Harvesters \ {AgentFinal} : capture'[u] = capture[u]
  BY AsksTo, BecomesTo DEF ArtInv, ArtTypeOK, AgentFinishes, Harvesters

LEMMA EmbedTo ==
  ASSUME ArtInv, Embed
  PROVE  /\ \A t \in Harvesters : capture[t].at \notin Capturing
         /\ capture' \in [Harvesters -> Captures]
         /\ capture'[RunnerFinal].at = "asked" /\ capture'[AgentFinal].at = "idle"
         /\ \A u \in Harvesters \ {AgentFinal, RunnerFinal} : capture'[u] = capture[u]
         /\ embedded' \subseteq Rows
  BY AsksTo, ArtifactsAssumption DEF ArtInv, ArtTypeOK, Embed, Harvesters, Stages, JobOver, Capturing

LEMMA InterruptedTo ==
  ASSUME ArtInv, Interrupted
  PROVE  /\ capture' \in [Harvesters -> Captures]
         /\ capture'[RunnerFinal].at = "asked" \/ capture'[RunnerFinal] = capture[RunnerFinal]
         /\ \A u \in Harvesters \ {RunnerFinal} : capture'[u] = capture[u]
  BY AsksTo, BecomesTo DEF ArtInv, ArtTypeOK, Interrupted, Harvesters

LEMMA TaskEndsTo ==
  ASSUME ArtInv, TaskEnds
  PROVE  /\ capture' \in [Harvesters -> Captures] /\ capture'[RunnerFinal].at = "idle"
         /\ \A u \in Harvesters \ {RunnerFinal} : capture'[u] = capture[u]
  BY AsksTo, BecomesTo DEF ArtInv, ArtTypeOK, TaskEnds, Harvesters

LEMMA WorkerDiesTo ==
  ASSUME WorkerDies
  PROVE  capture' \in [Harvesters -> Captures] /\ \A u \in Harvesters : capture'[u].at = "idle"
  BY AsksTo DEF WorkerDies

\* What Pick does to its thread.
LEMMA PickOf ==
  ASSUME ArtInv, NEW t \in Harvesters, Pick(t)
  PROVE  /\ capture' \in [Harvesters -> Captures]
         /\ \A u \in Harvesters \ {t} : capture'[u] = capture[u]
         /\ \/ capture'[t].at \in Capturing /\ UNCHANGED <<mutex, finalOwner, finalDone>>
            \/ EndsHarvest(t, FALSE)
  <1>1. PICK p \in capture[t].todo : p \in Files /\ (Leaves(t, p) \/ GivesUp(t) \/ TakesUp(t, p))
    BY PickTo
  <1>2. capture[t].at = "picking" /\ ArtTypeOK /\ "picking" \in Capturing
    BY PickTo DEF ArtInv, Capturing
  <1>3. CASE Leaves(t, p)
    BY <1>1, <1>2, <1>3, DropsTo DEF Leaves
  <1>4. CASE GivesUp(t)
    BY <1>2, <1>4, EndsTo DEF GivesUp
  <1>5. CASE TakesUp(t, p)
    <2>1. PICK i \in Unused : Takes(t, p, file[p], i)
      BY <1>5 DEF TakesUp
    <2>2. i \in Ids /\ file[p] \in Contents /\ UNCHANGED <<mutex, finalOwner, finalDone>>
      BY <1>5 DEF TakesUp, Unused
    <2> QED
      BY <1>1, <1>2, <2>1, <2>2, TakesTo DEF Capturing
  <1> QED
    BY <1>1, <1>3, <1>4, <1>5

-----------------------------------------------------------------------------
(* The steps keep the invariant.                                           *)

\* The end of a harvest releases what its thread holds.
LEMMA EndsKeeps ==
  ASSUME ArtInv, NEW t \in Harvesters, capture[t].at \in Capturing, NEW returned \in BOOLEAN,
         EndsHarvest(t, returned)
  PROVE  Serialized' /\ OneFinal' /\ (step' = step => Stages')
  <1>1. /\ capture'[t].at \in Resting /\ capture'[t].at \notin {"waiting", "asked"}
        /\ t \notin Finals => capture'[t].at = "idle"
        /\ \A u \in Harvesters \ {t} : capture'[u] = capture[u]
        /\ mutex' = (IF mutex = t THEN Nothing ELSE mutex)
        /\ finalOwner' = (IF finalOwner = t THEN Nothing ELSE finalOwner)
        /\ finalDone' = (finalDone \/ (t \in Finals /\ returned))
    BY EndsTo DEF ArtInv
  <1>2. capture'[t].at \notin {"waiting"} \cup Capturing
    BY <1>1, ThreadsOf
  <1>3. \A u \in Harvesters \ {t} : capture[u].at \notin Capturing
    BY Alone
  <1>4. Serialized'
    BY <1>1, <1>2, <1>3 DEF Serialized
  <1>5. OneFinal'
    <2>1. ASSUME NEW u \in Finals, capture'[u].at \in {"waiting"} \cup Capturing PROVE finalOwner' = u
      <3>1. u # t /\ u \in Harvesters
        BY <1>2, <2>1, ThreadsOf
      <3>2. capture'[u] = capture[u]
        BY <1>1, <3>1
      <3>3. finalOwner = u
        BY <2>1, <3>2 DEF ArtInv, OneFinal
      <3> QED
        BY <1>1, <3>1, <3>3
    <2>2. ASSUME finalOwner' # Nothing PROVE ~finalDone'
      <3>1. finalOwner # t /\ finalOwner # Nothing
        BY <1>1, <2>2
      <3>2. t \notin Finals
        BY <3>1 DEF ArtInv, OneFinal
      <3>3. ~finalDone
        BY <3>1 DEF ArtInv, OneFinal
      <3> QED
        BY <1>1, <3>2, <3>3
    <2> QED
      BY <2>1, <2>2 DEF OneFinal
  <1>6. ASSUME step' = step PROVE Stages'
    <2>1. CASE step = "agent"
      <3>1. capture[AgentFinal].at = "idle" /\ capture[RunnerFinal].at = "idle" /\ ~finalDone
        BY <2>1 DEF ArtInv, Stages
      <3>2. "idle" \notin Capturing
        BY DEF Capturing
      <3>3. t # AgentFinal /\ t # RunnerFinal /\ t \notin Finals
        BY <3>1, <3>2 DEF Finals
      <3>4. capture'[AgentFinal] = capture[AgentFinal] /\ capture'[RunnerFinal] = capture[RunnerFinal]
        BY <1>1, <3>3 DEF Harvesters
      <3>5. ~finalDone'
        BY <1>1, <3>1, <3>3
      <3> QED
        BY <1>6, <2>1, <3>1, <3>4, <3>5 DEF Stages
    <2>2. CASE step = "report"
      <3>1. capture[RunnerFinal].at = "idle" /\ \A u \in Checkpoints : capture[u].at = "idle"
        BY <2>2 DEF ArtInv, Stages
      <3>2. "idle" \notin Capturing
        BY DEF Capturing
      <3>3. t # RunnerFinal /\ t \notin Checkpoints
        BY <3>1, <3>2
      <3>4. capture'[RunnerFinal] = capture[RunnerFinal] /\ \A u \in Checkpoints : capture'[u] = capture[u]
        BY <1>1, <3>3 DEF Harvesters
      <3> QED
        BY <1>6, <2>2, <3>1, <3>4 DEF Stages
    <2>3. CASE step \notin {"agent", "report"}
      BY <1>6, <2>3 DEF Stages
    <2> QED
      BY <2>1, <2>2, <2>3
  <1> QED
    BY <1>4, <1>5, <1>6

\* Conjunct by conjunct, the steps keep the invariant.
LEMMA SerializedStep ==
  ASSUME ArtInv, [ArtNext]_artVars PROVE Serialized'
  <1> USE ThreadsOf DEF ArtInv, ArtTypeOK, Serialized
  <1>1. ASSUME NEW p \in Files, WritesFile(p) PROVE Serialized'
    BY <1>1 DEF WritesFile, locks
  <1>2. ASSUME NEW t \in Checkpoints, Checkpoint(t) PROVE Serialized'
    BY <1>2, CheckpointTo DEF Checkpoint, locks, Capturing
  <1>3. ASSUME NEW t \in Harvesters, EnterFinal(t) PROVE Serialized'
    BY <1>3, EnterFinalTo DEF EnterFinal, Capturing
  <1>4. ASSUME NEW t \in Harvesters, Discover(t) PROVE Serialized'
    BY <1>4, DiscoverTo, Nobody
  <1>5. ASSUME NEW t \in Harvesters, Pick(t) PROVE Serialized'
    <2>1. capture[t].at = "picking" /\ "picking" \in Capturing
      BY <1>5, PickTo, PickOf DEF Capturing
    <2>2. CASE EndsHarvest(t, FALSE)
      BY <1>5, <2>1, <2>2, EndsKeeps DEF ArtInv, Pick, jobSteps
    <2>3. CASE ~EndsHarvest(t, FALSE)
      <3>1. /\ capture'[t].at \in Capturing /\ \A u \in Harvesters \ {t} : capture'[u] = capture[u]
            /\ UNCHANGED <<mutex, finalOwner, finalDone, step>>
        BY <1>5, <2>3, PickTo, PickOf DEF Pick, jobSteps, Capturing
      <3> QED
        BY <2>1, <3>1 DEF Capturing
    <2> QED
      BY <2>2, <2>3
  <1>6. ASSUME NEW t \in Harvesters, EndHarvest(t) PROVE Serialized'
    BY <1>6, EndHarvestTo, EndsKeeps DEF EndHarvest, Capturing
  <1>7. ASSUME NEW t \in Harvesters, StoreBytes(t) PROVE Serialized'
    BY <1>7, StoreBytesTo DEF StoreBytes, locks, Capturing
  <1>8. ASSUME NEW t \in Harvesters, InsertRow(t) PROVE Serialized'
    BY <1>8, InsertRowTo DEF InsertRow, locks, Capturing
  <1>9. ASSUME NEW t \in Harvesters, RollBack(t) PROVE Serialized'
    BY <1>9, RollBackTo, EndsKeeps DEF RollBack, Capturing
  <1>10. ASSUME NEW t \in Harvesters, CountAndAnnounce(t) PROVE Serialized'
    <2>1. capture[t].at = "counting" /\ "counting" \in Capturing
      BY <1>10, CountsTo DEF Capturing
    <2>2. CASE EndsHarvest(t, FALSE)
      BY <1>10, <2>1, <2>2, EndsKeeps DEF ArtInv, CountAndAnnounce, jobSteps
    <2>3. CASE ~EndsHarvest(t, FALSE)
      <3>1. /\ capture'[t].at \in Capturing /\ \A u \in Harvesters \ {t} : capture'[u] = capture[u]
            /\ UNCHANGED <<mutex, finalOwner, finalDone, step>>
        BY <1>10, <2>3, CountsTo DEF CountAndAnnounce, jobSteps, Capturing
      <3> QED
        BY <2>1, <3>1 DEF Capturing
    <2> QED
      BY <2>2, <2>3
  <1>11. CASE AgentFinishes
    BY <1>11, AgentFinishesTo DEF AgentFinishes, locks, Capturing
  <1>12. CASE Embed
    BY <1>12, EmbedTo DEF Embed, locks, Capturing
  <1>13. CASE Interrupted
    BY <1>13, InterruptedTo DEF Interrupted, locks, Capturing
  <1>14. CASE TaskEnds
    BY <1>14, TaskEndsTo DEF TaskEnds, locks, Capturing
  <1>15. CASE WorkerDies
    BY <1>15, WorkerDiesTo DEF Capturing
  <1>16. ASSUME NEW k \in Ids, ExpireBytes(k) PROVE Serialized'
    BY <1>16 DEF ExpireBytes, locks
  <1>17. ASSUME NEW k \in Ids, ExpireRow(k) PROVE Serialized'
    BY <1>17 DEF ExpireRow, locks
  <1>18. CASE UNCHANGED artVars
    BY <1>18 DEF artVars, locks
  <1> QED
    BY <1>1, <1>2, <1>3, <1>4, <1>5, <1>6, <1>7, <1>8, <1>9, <1>10, <1>11, <1>12, <1>13, <1>14, <1>15, <1>16, <1>17, <1>18 DEF ArtNext, HarvestStep

LEMMA OneFinalStep ==
  ASSUME ArtInv, [ArtNext]_artVars PROVE OneFinal'
  <1> USE ThreadsOf DEF ArtInv, ArtTypeOK, OneFinal, Finals
  <1>1. ASSUME NEW p \in Files, WritesFile(p) PROVE OneFinal'
    BY <1>1 DEF WritesFile, locks
  <1>2. ASSUME NEW t \in Checkpoints, Checkpoint(t) PROVE OneFinal'
    BY <1>2, CheckpointTo DEF Checkpoint, locks, Capturing
  <1>3. ASSUME NEW t \in Harvesters, EnterFinal(t) PROVE OneFinal'
    BY <1>3, EnterFinalTo DEF EnterFinal, Capturing
  <1>4. ASSUME NEW t \in Harvesters, Discover(t) PROVE OneFinal'
    BY <1>4, DiscoverTo DEF Discover
  <1>5. ASSUME NEW t \in Harvesters, Pick(t) PROVE OneFinal'
    <2>1. capture[t].at = "picking" /\ "picking" \in Capturing
      BY <1>5, PickTo, PickOf DEF Capturing
    <2>2. CASE EndsHarvest(t, FALSE)
      BY <1>5, <2>1, <2>2, EndsKeeps DEF ArtInv, Pick, jobSteps
    <2>3. CASE ~EndsHarvest(t, FALSE)
      <3>1. /\ capture'[t].at \in Capturing /\ \A u \in Harvesters \ {t} : capture'[u] = capture[u]
            /\ UNCHANGED <<mutex, finalOwner, finalDone, step>>
        BY <1>5, <2>3, PickTo, PickOf DEF Pick, jobSteps, Capturing
      <3> QED
        BY <2>1, <3>1 DEF Capturing
    <2> QED
      BY <2>2, <2>3
  <1>6. ASSUME NEW t \in Harvesters, EndHarvest(t) PROVE OneFinal'
    BY <1>6, EndHarvestTo, EndsKeeps DEF EndHarvest, Capturing
  <1>7. ASSUME NEW t \in Harvesters, StoreBytes(t) PROVE OneFinal'
    BY <1>7, StoreBytesTo DEF StoreBytes, locks, Capturing
  <1>8. ASSUME NEW t \in Harvesters, InsertRow(t) PROVE OneFinal'
    BY <1>8, InsertRowTo DEF InsertRow, locks, Capturing
  <1>9. ASSUME NEW t \in Harvesters, RollBack(t) PROVE OneFinal'
    BY <1>9, RollBackTo, EndsKeeps DEF RollBack, Capturing
  <1>10. ASSUME NEW t \in Harvesters, CountAndAnnounce(t) PROVE OneFinal'
    <2>1. capture[t].at = "counting" /\ "counting" \in Capturing
      BY <1>10, CountsTo DEF Capturing
    <2>2. CASE EndsHarvest(t, FALSE)
      BY <1>10, <2>1, <2>2, EndsKeeps DEF ArtInv, CountAndAnnounce, jobSteps
    <2>3. CASE ~EndsHarvest(t, FALSE)
      <3>1. /\ capture'[t].at \in Capturing /\ \A u \in Harvesters \ {t} : capture'[u] = capture[u]
            /\ UNCHANGED <<mutex, finalOwner, finalDone, step>>
        BY <1>10, <2>3, CountsTo DEF CountAndAnnounce, jobSteps, Capturing
      <3> QED
        BY <2>1, <3>1 DEF Capturing
    <2> QED
      BY <2>2, <2>3
  <1>11. CASE AgentFinishes
    BY <1>11, AgentFinishesTo DEF AgentFinishes, locks, Capturing
  <1>12. CASE Embed
    BY <1>12, EmbedTo DEF Embed, locks, Capturing
  <1>13. CASE Interrupted
    BY <1>13, InterruptedTo DEF Interrupted, locks, Capturing
  <1>14. CASE TaskEnds
    BY <1>14, TaskEndsTo DEF TaskEnds, locks, Capturing
  <1>15. CASE WorkerDies
    BY <1>15, WorkerDiesTo DEF WorkerDies, Capturing
  <1>16. ASSUME NEW k \in Ids, ExpireBytes(k) PROVE OneFinal'
    BY <1>16 DEF ExpireBytes, locks
  <1>17. ASSUME NEW k \in Ids, ExpireRow(k) PROVE OneFinal'
    BY <1>17 DEF ExpireRow, locks
  <1>18. CASE UNCHANGED artVars
    BY <1>18 DEF artVars, locks
  <1> QED
    BY <1>1, <1>2, <1>3, <1>4, <1>5, <1>6, <1>7, <1>8, <1>9, <1>10, <1>11, <1>12, <1>13, <1>14, <1>15, <1>16, <1>17, <1>18 DEF ArtNext, HarvestStep

LEMMA StagesStep ==
  ASSUME ArtInv, [ArtNext]_artVars PROVE Stages'
  <1> USE ThreadsOf DEF ArtInv, ArtTypeOK, Stages, Finals
  <1>1. ASSUME NEW p \in Files, WritesFile(p) PROVE Stages'
    BY <1>1 DEF WritesFile, jobSteps
  <1>2. ASSUME NEW t \in Checkpoints, Checkpoint(t) PROVE Stages'
    BY <1>2, CheckpointTo DEF Checkpoint, jobSteps
  <1>3. ASSUME NEW t \in Harvesters, EnterFinal(t) PROVE Stages'
    BY <1>3, EnterFinalTo DEF EnterFinal, jobSteps
  <1>4. ASSUME NEW t \in Harvesters, Discover(t) PROVE Stages'
    BY <1>4, DiscoverTo DEF Discover, jobSteps
  <1>5. ASSUME NEW t \in Harvesters, Pick(t) PROVE Stages'
    <2>1. capture[t].at = "picking" /\ "picking" \in Capturing
      BY <1>5, PickTo, PickOf DEF Capturing
    <2>2. CASE EndsHarvest(t, FALSE)
      BY <1>5, <2>1, <2>2, EndsKeeps DEF ArtInv, Pick, jobSteps
    <2>3. CASE ~EndsHarvest(t, FALSE)
      <3>1. /\ capture'[t].at \in Capturing /\ \A u \in Harvesters \ {t} : capture'[u] = capture[u]
            /\ UNCHANGED <<mutex, finalOwner, finalDone, step>>
        BY <1>5, <2>3, PickTo, PickOf DEF Pick, jobSteps, Capturing
      <3> QED
        BY <2>1, <3>1 DEF Capturing
    <2> QED
      BY <2>2, <2>3
  <1>6. ASSUME NEW t \in Harvesters, EndHarvest(t) PROVE Stages'
    BY <1>6, EndHarvestTo, EndsKeeps DEF EndHarvest, Capturing, jobSteps
  <1>7. ASSUME NEW t \in Harvesters, StoreBytes(t) PROVE Stages'
    BY <1>7, StoreBytesTo DEF StoreBytes, jobSteps, locks
  <1>8. ASSUME NEW t \in Harvesters, InsertRow(t) PROVE Stages'
    BY <1>8, InsertRowTo DEF InsertRow, jobSteps, locks
  <1>9. ASSUME NEW t \in Harvesters, RollBack(t) PROVE Stages'
    BY <1>9, RollBackTo, EndsKeeps DEF RollBack, Capturing, jobSteps
  <1>10. ASSUME NEW t \in Harvesters, CountAndAnnounce(t) PROVE Stages'
    <2>1. capture[t].at = "counting" /\ "counting" \in Capturing
      BY <1>10, CountsTo DEF Capturing
    <2>2. CASE EndsHarvest(t, FALSE)
      BY <1>10, <2>1, <2>2, EndsKeeps DEF ArtInv, CountAndAnnounce, jobSteps
    <2>3. CASE ~EndsHarvest(t, FALSE)
      <3>1. /\ capture'[t].at \in Capturing /\ \A u \in Harvesters \ {t} : capture'[u] = capture[u]
            /\ UNCHANGED <<mutex, finalOwner, finalDone, step>>
        BY <1>10, <2>3, CountsTo DEF CountAndAnnounce, jobSteps, Capturing
      <3> QED
        BY <2>1, <3>1 DEF Capturing
    <2> QED
      BY <2>2, <2>3
  <1>11. CASE AgentFinishes
    BY <1>11, AgentFinishesTo DEF AgentFinishes
  <1>12. CASE Embed
    BY <1>12, EmbedTo DEF Embed
  <1>13. CASE Interrupted
    BY <1>13, InterruptedTo DEF Interrupted
  <1>14. CASE TaskEnds
    BY <1>14, TaskEndsTo DEF TaskEnds
  <1>15. CASE WorkerDies
    BY <1>15, WorkerDiesTo DEF WorkerDies
  <1>16. ASSUME NEW k \in Ids, ExpireBytes(k) PROVE Stages'
    BY <1>16 DEF ExpireBytes, jobSteps
  <1>17. ASSUME NEW k \in Ids, ExpireRow(k) PROVE Stages'
    BY <1>17 DEF ExpireRow, jobSteps
  <1>18. CASE UNCHANGED artVars
    BY <1>18 DEF artVars, jobSteps
  <1> QED
    BY <1>1, <1>2, <1>3, <1>4, <1>5, <1>6, <1>7, <1>8, <1>9, <1>10, <1>11, <1>12, <1>13, <1>14, <1>15, <1>16, <1>17, <1>18 DEF ArtNext, HarvestStep

\* What is in the store stays, or retention deletes it.
LEMMA StoredStays ==
  ASSUME ArtInv, [ArtNext]_artVars, NEW c \in Contents, Stored(c)
  PROVE  Stored(c)'
  <1>0. PICK i \in Ids : artifact[i].digest = c /\ (artifact[i].row \/ i \in expired)
    BY DEF Stored
  <1> SUFFICES artifact'[i].digest = c /\ (artifact'[i].row \/ i \in expired')
    BY DEF Stored, Ids
  <1> USE <1>0 DEF ArtInv, ArtTypeOK
  <1>1. ASSUME NEW p \in Files, WritesFile(p) PROVE artifact'[i].digest = c /\ (artifact'[i].row \/ i \in expired')
    BY <1>1 DEF WritesFile, store
  <1>2. ASSUME NEW t \in Checkpoints, Checkpoint(t) PROVE artifact'[i].digest = c /\ (artifact'[i].row \/ i \in expired')
    BY <1>2 DEF Checkpoint, store
  <1>3. ASSUME NEW t \in Harvesters, EnterFinal(t) PROVE artifact'[i].digest = c /\ (artifact'[i].row \/ i \in expired')
    BY <1>3 DEF EnterFinal, store
  <1>4. ASSUME NEW t \in Harvesters, Discover(t) PROVE artifact'[i].digest = c /\ (artifact'[i].row \/ i \in expired')
    BY <1>4 DEF Discover, store
  <1>5. ASSUME NEW t \in Harvesters, Pick(t) PROVE artifact'[i].digest = c /\ (artifact'[i].row \/ i \in expired')
    BY <1>5, PickTo
  <1>6. ASSUME NEW t \in Harvesters, EndHarvest(t) PROVE artifact'[i].digest = c /\ (artifact'[i].row \/ i \in expired')
    BY <1>6 DEF EndHarvest, store
  <1>7. ASSUME NEW t \in Harvesters, StoreBytes(t) PROVE artifact'[i].digest = c /\ (artifact'[i].row \/ i \in expired')
    BY <1>7, StoreBytesTo DEF Book, Holding, Rows
  <1>8. ASSUME NEW t \in Harvesters, InsertRow(t) PROVE artifact'[i].digest = c /\ (artifact'[i].row \/ i \in expired')
    BY <1>8, InsertRowTo DEF Book, Holding, Rows
  <1>9. ASSUME NEW t \in Harvesters, RollBack(t) PROVE artifact'[i].digest = c /\ (artifact'[i].row \/ i \in expired')
    BY <1>9, RollBackTo DEF Book, Holding, Rows
  <1>10. ASSUME NEW t \in Harvesters, CountAndAnnounce(t) PROVE artifact'[i].digest = c /\ (artifact'[i].row \/ i \in expired')
    BY <1>10, CountsTo
  <1>11. CASE AgentFinishes
    BY <1>11 DEF AgentFinishes, store
  <1>12. CASE Embed
    BY <1>12 DEF Embed, store
  <1>13. CASE Interrupted
    BY <1>13 DEF Interrupted, store
  <1>14. CASE TaskEnds
    BY <1>14 DEF TaskEnds, store
  <1>15. CASE WorkerDies
    BY <1>15 DEF WorkerDies, store
  <1>16. ASSUME NEW k \in Ids, ExpireBytes(k) PROVE artifact'[i].digest = c /\ (artifact'[i].row \/ i \in expired')
    <2>1. CASE Keeps(k, NoBytes(k))
      <3>1. artifact'[k] = NoBytes(k) /\ \A j \in Ids \ {k} : artifact'[j] = artifact[j]
        BY <2>1, StoresOf, KeepsTo
      <3>2. /\ NoBytes(k).digest = artifact[k].digest
            /\ NoBytes(k).row = artifact[k].row \/ k \in expired'
        BY <1>16, StoresOf DEF ExpireBytes
      <3>3. expired \subseteq expired'
        BY <1>16 DEF ExpireBytes
      <3> QED
        BY <1>0, <3>1, <3>2, <3>3
    <2>2. CASE UNCHANGED artifact
      BY <1>16, <1>0, <2>2 DEF ExpireBytes
    <2> QED
      BY <1>16, <2>1, <2>2 DEF ExpireBytes
  <1>17. ASSUME NEW k \in Ids, ExpireRow(k) PROVE artifact'[i].digest = c /\ (artifact'[i].row \/ i \in expired')
    <2>1. CASE Keeps(k, NoRow(k))
      <3>1. artifact'[k] = NoRow(k) /\ \A j \in Ids \ {k} : artifact'[j] = artifact[j]
        BY <2>1, StoresOf, KeepsTo
      <3>2. /\ NoRow(k).digest = artifact[k].digest
            /\ NoRow(k).row = artifact[k].row \/ k \in expired'
        BY <1>17, StoresOf DEF ExpireRow
      <3>3. expired \subseteq expired'
        BY <1>17 DEF ExpireRow
      <3> QED
        BY <1>0, <3>1, <3>2, <3>3
    <2>2. CASE UNCHANGED artifact
      BY <1>17, <1>0, <2>2 DEF ExpireRow
    <2> QED
      BY <1>17, <2>1, <2>2 DEF ExpireRow
  <1>18. CASE UNCHANGED artVars
    BY <1>18 DEF artVars, store
  <1> QED
    BY <1>1, <1>2, <1>3, <1>4, <1>5, <1>6, <1>7, <1>8, <1>9, <1>10, <1>11, <1>12, <1>13, <1>14, <1>15, <1>16, <1>17, <1>18 DEF ArtNext, HarvestStep

\* A step that leaves store and books alone keeps what threads hold.
LEMMA HeldQuietly ==
  ASSUME ArtInv, UNCHANGED <<count, bytes, provider, announced, expired, artifact, torn>>,
         \A u \in Harvesters : capture'[u].at \in Holds => capture'[u] = capture[u]
  PROVE  Held'
  <1> SUFFICES ASSUME NEW u \in Harvesters, capture'[u].at \in Holds PROVE Book(u)'
    BY DEF Held, Harvesters
  <1>1. capture'[u] = capture[u] /\ Book(u)
    BY DEF ArtInv, Held
  <1> QED
    BY <1>1 DEF Book, Rows, Kept, Ids

\* What a thread holds stays true until it lets go.
LEMMA HeldStep ==
  ASSUME ArtInv, [ArtNext]_artVars PROVE Held'
  <1>1. ASSUME NEW p \in Files, WritesFile(p) PROVE Held'
    BY <1>1, HeldQuietly DEF WritesFile, jobSteps, books, store, told
  <1>2. ASSUME NEW t \in Checkpoints, Checkpoint(t) PROVE Held'
    BY <1>2, CheckpointTo, HeldQuietly DEF Checkpoint, jobSteps, books, store, told, Holds
  <1>3. ASSUME NEW t \in Harvesters, EnterFinal(t) PROVE Held'
    BY <1>3, EnterFinalTo, HeldQuietly DEF EnterFinal, jobSteps, books, store, told, Holds
  <1>4. ASSUME NEW t \in Harvesters, Discover(t) PROVE Held'
    <2>1. \A u \in Harvesters : capture'[u].at \notin Holds
      BY <1>4, DiscoverTo, Nobody, ThreadsOf DEF Holds
    <2> QED
      BY <2>1 DEF Held, Harvesters
  <1>5. ASSUME NEW t \in Harvesters, Pick(t) PROVE Held'
    <2>1. PICK p \in capture[t].todo : p \in Files /\ (Leaves(t, p) \/ GivesUp(t) \/ TakesUp(t, p))
      BY <1>5, PickTo
    <2>2. capture[t].at = "picking" /\ UNCHANGED <<count, bytes, provider, announced, expired, artifact, torn>>
      BY <1>5, PickTo
    <2>3. \A u \in Harvesters \ {t} : capture'[u] = capture[u] /\ capture[u].at \notin Holds
      BY <1>5, <2>2, PickOf, Alone, ThreadsOf DEF Capturing
    <2>4. CASE Leaves(t, p)
      <3>1. capture'[t].at = "picking"
        BY <2>1, <2>2, <2>4, DropsTo DEF Leaves, ArtInv
      <3> QED
        BY <2>3, <3>1 DEF Held, Holds, Harvesters
    <2>5. CASE GivesUp(t)
      <3>1. capture'[t].at \notin Holds
        BY <2>5, EndsTo, ThreadsOf DEF GivesUp, ArtInv
      <3> QED
        BY <2>3, <3>1 DEF Held, Harvesters
    <2>6. CASE TakesUp(t, p)
      <3>1. PICK i \in Unused : Takes(t, p, file[p], i)
        BY <2>6 DEF TakesUp
      <3>2. i \in Ids /\ artifact[i] = NoArtifact /\ i \notin expired \cup announced /\ file[p] \in Contents
        BY <2>6 DEF Unused, TakesUp
      <3>3. /\ capture'[t].at = (IF provider = "sql" THEN "inserting" ELSE "storing")
            /\ capture'[t].path = p /\ capture'[t].digest = file[p] /\ capture'[t].id = i
        BY <2>1, <3>1, <3>2, TakesTo DEF ArtInv
      <3>4. ~artifact[i].row
        BY <3>2 DEF NoArtifact
      <3>5. /\ count < MaxCount /\ bytes + Size[file[p]] <= MaxTotal
            /\ \A k \in Rows : artifact[k].digest # file[p]
        BY <2>6 DEF TakesUp, Fits
      <3>6. provider \in {"sql", "s3"}
        BY DEF ArtInv, ArtTypeOK
      <3>7. Book(t)'
        BY <2>1, <2>2, <3>2, <3>3, <3>4, <3>5, <3>6 DEF Book, Rows, Ids
      <3> QED
        BY <2>3, <3>7 DEF Held, Harvesters
    <2> QED
      BY <2>1, <2>4, <2>5, <2>6
  <1>6. ASSUME NEW t \in Harvesters, EndHarvest(t) PROVE Held'
    <2>1. \A u \in Harvesters : capture'[u].at \notin Holds
      BY <1>6, EndHarvestTo, EndsTo, Alone, ThreadsOf DEF ArtInv, Holds, Capturing
    <2> QED
      BY <2>1 DEF Held, Harvesters
  <1>7. ASSUME NEW t \in Harvesters, StoreBytes(t) PROVE Held'
    <2>1. \A u \in Harvesters \ {t} : capture'[u] = capture[u] /\ capture[u].at \notin Holds
      BY <1>7, StoreBytesTo, Alone, ThreadsOf DEF Capturing
    <2>2. provider' = provider
      BY <1>7 DEF StoreBytes, jobSteps
    <2>3. Book(t)'
      BY <1>7, <2>2, StoreBytesTo DEF Book, Holding, Rows, Ids, StoreBytes, jobSteps
    <2> QED
      BY <2>1, <2>3 DEF Held, Harvesters
  <1>8. ASSUME NEW t \in Harvesters, InsertRow(t) PROVE Held'
    <2>1. \A u \in Harvesters \ {t} : capture'[u] = capture[u] /\ capture[u].at \notin Holds
      BY <1>8, InsertRowTo, Alone, ThreadsOf DEF Capturing
    <2>2. provider' = provider
      BY <1>8 DEF InsertRow, jobSteps
    <2>3. Book(t)'
      BY <1>8, <2>2, InsertRowTo DEF Book, Holding, Digest, Rows, Ids, Kept, InsertRow, jobSteps
    <2> QED
      BY <2>1, <2>3 DEF Held, Harvesters
  <1>9. ASSUME NEW t \in Harvesters, RollBack(t) PROVE Held'
    <2>0. capture[t].at = "rollback" /\ EndsHarvest(t, FALSE)
      BY <1>9, RollBackTo
    <2>1. \A u \in Harvesters : capture'[u].at \notin Holds
      BY <2>0, EndsTo, Alone, ThreadsOf DEF ArtInv, Holds, Capturing
    <2> QED
      BY <2>1 DEF Held, Harvesters
  <1>10. ASSUME NEW t \in Harvesters, CountAndAnnounce(t) PROVE Held'
    <2>1. \A u \in Harvesters \ {t} : capture[u].at \notin Holds
      BY <1>10, CountsTo, Alone, ThreadsOf DEF Holds, Capturing
    <2>2. capture'[t].at \notin Holds /\ \A u \in Harvesters \ {t} : capture'[u] = capture[u]
      BY <1>10, CountsTo, EndsTo, ThreadsOf DEF ArtInv, Holds
    <2> QED
      BY <2>1, <2>2 DEF Held, Harvesters
  <1>11. CASE AgentFinishes
    BY <1>11, AgentFinishesTo, HeldQuietly DEF AgentFinishes, jobSteps, books, store, told, Holds
  <1>12. CASE Embed
    BY <1>12, EmbedTo, HeldQuietly DEF Embed, books, store, Holds, Capturing, Harvesters
  <1>13. CASE Interrupted
    BY <1>13, InterruptedTo, HeldQuietly DEF Interrupted, jobSteps, books, store, told, Holds
  <1>14. CASE TaskEnds
    BY <1>14, TaskEndsTo, HeldQuietly DEF TaskEnds, jobSteps, books, store, told, Holds
  <1>15. CASE WorkerDies
    BY <1>15, WorkerDiesTo DEF Held, Holds, Harvesters
  <1>16. ASSUME NEW k \in Ids, ExpireBytes(k) PROVE Held'
    <2>1. \A u \in Harvesters : capture'[u].at \notin Holds
      BY <1>16, Nobody, ThreadsOf DEF ExpireBytes
    <2> QED
      BY <2>1 DEF Held, Harvesters
  <1>17. ASSUME NEW k \in Ids, ExpireRow(k) PROVE Held'
    <2> SUFFICES ASSUME NEW u \in Harvesters, capture'[u].at \in Holds PROVE Book(u)'
      BY DEF Held, Harvesters
    <2>1. artifact'[k] = NoRow(k) /\ \A j \in Ids \ {k} : artifact'[j] = artifact[j]
      BY <1>17, StoresOf, KeepsTo DEF ExpireRow, ArtInv, ArtTypeOK
    <2>2. UNCHANGED <<capture, count, bytes, provider, announced, torn>> /\ expired' = expired
      BY <1>17 DEF ExpireRow, RowMayGo, jobSteps, books, told
    <2>3. Book(u) /\ k # capture[u].id
      BY <1>17, <2>2 DEF ArtInv, Held, Book, ExpireRow, RowMayGo
    <2>4. artifact'[capture[u].id] = artifact[capture[u].id]
      BY <2>1, <2>3 DEF Book
    <2>5. NoRow(k).row = FALSE
      BY StoresOf DEF ArtInv
    <2>6. \A j \in Rows' : j \in Rows /\ artifact'[j] = artifact[j]
      BY <2>1, <2>5 DEF Rows, Ids
    <2> QED
      BY <2>2, <2>3, <2>4, <2>6 DEF Book, Kept, Ids
  <1>18. CASE UNCHANGED artVars
    BY <1>18, HeldQuietly DEF artVars, jobSteps, books, store, told
  <1> QED
    BY <1>1, <1>2, <1>3, <1>4, <1>5, <1>6, <1>7, <1>8, <1>9, <1>10, <1>11, <1>12, <1>13, <1>14, <1>15, <1>16, <1>17, <1>18 DEF ArtNext, HarvestStep

\* No row comes, and none changes its content.
LEMMA OnceKept ==
  ASSUME ContentOnce, expired \subseteq expired',
         \A j \in Rows' : j \in Rows /\ artifact'[j].digest = artifact[j].digest
  PROVE  ContentOnce'
  BY DEF ContentOnce

\* What was told stays in the store.
LEMMA InStoreStep ==
  ASSUME ArtInv, [ArtNext]_artVars PROVE InStore'
  <1>0. ASSUME UNCHANGED <<artifact, torn, announced, embedded, expired>> PROVE InStore'
    BY <1>0 DEF ArtInv, InStore, RowsHaveBytes, AnnouncedStored, EmbeddedStored, RetentionLeaksNothing, ContentOnce, Kept, Rows, Ids
  <1>1. ASSUME NEW p \in Files, WritesFile(p) PROVE InStore'
    BY <1>1, <1>0 DEF WritesFile, store, told
  <1>2. ASSUME NEW t \in Checkpoints, Checkpoint(t) PROVE InStore'
    BY <1>2, <1>0 DEF Checkpoint, store, told
  <1>3. ASSUME NEW t \in Harvesters, EnterFinal(t) PROVE InStore'
    BY <1>3, <1>0 DEF EnterFinal, store, told
  <1>4. ASSUME NEW t \in Harvesters, Discover(t) PROVE InStore'
    BY <1>4, <1>0 DEF Discover, store, told
  <1>5. ASSUME NEW t \in Harvesters, Pick(t) PROVE InStore'
    BY <1>5, <1>0, PickTo
  <1>6. ASSUME NEW t \in Harvesters, EndHarvest(t) PROVE InStore'
    BY <1>6, <1>0 DEF EndHarvest, store, told
  <1>7. ASSUME NEW t \in Harvesters, StoreBytes(t) PROVE InStore'
    <2>1. RowsHaveBytes'
      BY <1>7, StoreBytesTo, ArtifactsAssumption DEF ArtInv, ArtTypeOK, InStore, Book, Holding, Digest, RowsHaveBytes, Kept, Rows, Ids
    <2>2. AnnouncedStored'
      BY <1>7, StoreBytesTo, ArtifactsAssumption DEF ArtInv, ArtTypeOK, InStore, Book, Holding, Digest, RowsHaveBytes, AnnouncedStored, Kept, Rows, Ids
    <2>3. EmbeddedStored'
      BY <1>7, StoreBytesTo, ArtifactsAssumption DEF ArtInv, ArtTypeOK, InStore, Book, Holding, Digest, RowsHaveBytes, EmbeddedStored, Kept, Rows, Ids
    <2>4. RetentionLeaksNothing'
      BY <1>7, StoreBytesTo, ArtifactsAssumption DEF ArtInv, ArtTypeOK, InStore, Book, Holding, Digest, RowsHaveBytes, RetentionLeaksNothing, Kept, Rows, Ids
    <2>5. ContentOnce'
      <3>1. \A j \in Rows' : j \in Rows /\ artifact'[j].digest = artifact[j].digest
        BY <1>7, StoreBytesTo DEF Rows, Ids
      <3> QED
        BY <1>7, <3>1, StoreBytesTo, OnceKept DEF ArtInv, InStore
    <2> QED
      BY <2>1, <2>2, <2>3, <2>4, <2>5 DEF InStore
  <1>8. ASSUME NEW t \in Harvesters, InsertRow(t) PROVE InStore'
    <2>1. RowsHaveBytes'
      BY <1>8, InsertRowTo, ArtifactsAssumption, SMTT(30) DEF ArtInv, ArtTypeOK, InStore, Book, Holding, Digest, RowsHaveBytes, Kept, Rows, Ids
    <2>2. AnnouncedStored'
      BY <1>8, InsertRowTo, ArtifactsAssumption DEF ArtInv, ArtTypeOK, InStore, Book, Holding, Digest, RowsHaveBytes, AnnouncedStored, Kept, Rows, Ids
    <2>3. EmbeddedStored'
      BY <1>8, InsertRowTo, ArtifactsAssumption DEF ArtInv, ArtTypeOK, InStore, Book, Holding, Digest, RowsHaveBytes, EmbeddedStored, Kept, Rows, Ids
    <2>4. RetentionLeaksNothing'
      BY <1>8, InsertRowTo, ArtifactsAssumption DEF ArtInv, ArtTypeOK, InStore, Book, Holding, Digest, RowsHaveBytes, RetentionLeaksNothing, Kept, Rows, Ids
    <2>5. ContentOnce'
      <3>1. UNCHANGED expired /\ \A k \in Ids \ {Holding(t)} : artifact'[k] = artifact[k]
        BY <1>8, InsertRowTo
      <3>2. CASE UNCHANGED artifact
        BY <3>1, <3>2, OnceKept DEF ArtInv, InStore, Rows, Ids
      <3>3. CASE artifact'[Holding(t)].row /\ artifact'[Holding(t)].digest = Digest(t)
        <4>1. \A k \in Rows : artifact[k].digest # Digest(t)
          BY <1>8, InsertRowTo DEF Book, Digest
        <4>2. \A j \in Rows' \ {Holding(t)} : j \in Rows /\ artifact'[j] = artifact[j]
          BY <3>1 DEF Rows, Ids
        <4> QED
          BY <3>1, <3>3, <4>1, <4>2 DEF ContentOnce, ArtInv, InStore
      <3> QED
        BY <1>8, <3>2, <3>3, InsertRowTo
    <2> QED
      BY <2>1, <2>2, <2>3, <2>4, <2>5 DEF InStore
  <1>9. ASSUME NEW t \in Harvesters, RollBack(t) PROVE InStore'
    <2>1. RowsHaveBytes'
      BY <1>9, RollBackTo, ArtifactsAssumption DEF ArtInv, ArtTypeOK, InStore, Book, Holding, Digest, RowsHaveBytes, Kept, Rows, Ids
    <2>2. AnnouncedStored'
      BY <1>9, RollBackTo, ArtifactsAssumption DEF ArtInv, ArtTypeOK, InStore, Book, Holding, Digest, RowsHaveBytes, AnnouncedStored, Kept, Rows, Ids
    <2>3. EmbeddedStored'
      BY <1>9, RollBackTo, ArtifactsAssumption DEF ArtInv, ArtTypeOK, InStore, Book, Holding, Digest, RowsHaveBytes, EmbeddedStored, Kept, Rows, Ids
    <2>4. RetentionLeaksNothing'
      BY <1>9, RollBackTo, ArtifactsAssumption DEF ArtInv, ArtTypeOK, InStore, Book, Holding, Digest, RowsHaveBytes, RetentionLeaksNothing, Kept, Rows, Ids
    <2>5. ContentOnce'
      <3>1. \A j \in Rows' : j \in Rows /\ artifact'[j].digest = artifact[j].digest
        BY <1>9, RollBackTo DEF Rows, Ids
      <3> QED
        BY <1>9, <3>1, RollBackTo, OnceKept DEF ArtInv, InStore
    <2> QED
      BY <2>1, <2>2, <2>3, <2>4, <2>5 DEF InStore
  <1>10. ASSUME NEW t \in Harvesters, CountAndAnnounce(t) PROVE InStore'
    <2>1. RowsHaveBytes'
      BY <1>10, CountsTo DEF ArtInv, InStore, Book, Holding, RowsHaveBytes, Kept, Rows, Ids
    <2>2. AnnouncedStored'
      <3>1. Kept(capture[t].id) /\ announced' \subseteq announced \cup {capture[t].id}
        BY <1>10, CountsTo DEF Book
      <3>2. UNCHANGED <<artifact, expired>>
        BY <1>10, CountsTo
      <3> QED
        BY <3>1, <3>2 DEF ArtInv, InStore, AnnouncedStored, Kept
    <2>3. EmbeddedStored'
      BY <1>10, CountsTo DEF ArtInv, InStore, Book, Holding, EmbeddedStored, Kept, Rows, Ids
    <2>4. RetentionLeaksNothing'
      BY <1>10, CountsTo DEF ArtInv, InStore, Book, Holding, RetentionLeaksNothing, Kept, Rows, Ids
    <2>5. ContentOnce'
      BY <1>10, CountsTo DEF ArtInv, InStore, Book, Holding, ContentOnce, Kept, Rows, Ids
    <2> QED
      BY <2>1, <2>2, <2>3, <2>4, <2>5 DEF InStore
  <1>11. CASE AgentFinishes
    BY <1>11, <1>0 DEF AgentFinishes, store, told
  <1>12. CASE Embed
    <2>1. RowsHaveBytes'
      BY <1>12, EmbedTo DEF ArtInv, InStore, RowsHaveBytes, Embed, store, RowsHaveBytes, Kept, Rows, Ids
    <2>2. AnnouncedStored'
      BY <1>12, EmbedTo DEF ArtInv, InStore, RowsHaveBytes, Embed, store, AnnouncedStored, Kept, Rows, Ids
    <2>3. EmbeddedStored'
      BY <1>12, EmbedTo DEF ArtInv, InStore, RowsHaveBytes, Embed, store, EmbeddedStored, Kept, Rows, Ids
    <2>4. RetentionLeaksNothing'
      BY <1>12, EmbedTo DEF ArtInv, InStore, RowsHaveBytes, Embed, store, RetentionLeaksNothing, Kept, Rows, Ids
    <2>5. ContentOnce'
      BY <1>12, EmbedTo DEF ArtInv, InStore, RowsHaveBytes, Embed, store, ContentOnce, Kept, Rows, Ids
    <2> QED
      BY <2>1, <2>2, <2>3, <2>4, <2>5 DEF InStore
  <1>13. CASE Interrupted
    BY <1>13, <1>0 DEF Interrupted, store, told
  <1>14. CASE TaskEnds
    BY <1>14, <1>0 DEF TaskEnds, store, told
  <1>15. CASE WorkerDies
    <2>1. RowsHaveBytes'
      BY <1>15, ThreadsOf DEF ArtInv, InStore, WorkerDies, store, RowsHaveBytes, Kept, Rows, Ids
    <2>2. AnnouncedStored'
      BY <1>15, ThreadsOf DEF ArtInv, InStore, WorkerDies, store, AnnouncedStored, Kept, Rows, Ids
    <2>3. EmbeddedStored'
      BY <1>15, ThreadsOf DEF ArtInv, InStore, WorkerDies, store, EmbeddedStored, Kept, Rows, Ids
    <2>4. RetentionLeaksNothing'
      BY <1>15, ThreadsOf DEF ArtInv, InStore, WorkerDies, store, RetentionLeaksNothing, Kept, Rows, Ids
    <2>5. ContentOnce'
      BY <1>15, ThreadsOf DEF ArtInv, InStore, WorkerDies, store, ContentOnce, Kept, Rows, Ids
    <2> QED
      BY <2>1, <2>2, <2>3, <2>4, <2>5 DEF InStore
  <1>16. ASSUME NEW k \in Ids, ExpireBytes(k) PROVE InStore'
    <2>0. \/ UNCHANGED artifact
          \/ /\ artifact'[k] = NoBytes(k) /\ \A j \in Ids \ {k} : artifact'[j] = artifact[j]
             /\ NoBytes(k).digest = artifact[k].digest
             /\ NoBytes(k).row = artifact[k].row /\ NoBytes(k).bytes = FALSE
      BY <1>16, StoresOf, KeepsTo DEF ExpireBytes, ArtInv, ArtTypeOK
    <2>rest. expired' = expired \cup {k} /\ UNCHANGED <<torn, announced, embedded>> /\ artifact[k].row
      BY <1>16 DEF ExpireBytes, told
    <2>ids. announced \cup embedded \cup expired \subseteq Ids
      BY DEF ArtInv, ArtTypeOK
    <2>1. RowsHaveBytes'
      BY <2>0, <2>rest, <2>ids DEF ArtInv, InStore, RowsHaveBytes, Kept
    <2>2. AnnouncedStored'
      BY <2>0, <2>rest, <2>ids DEF ArtInv, InStore, AnnouncedStored, Kept
    <2>3. EmbeddedStored'
      BY <2>0, <2>rest, <2>ids DEF ArtInv, InStore, EmbeddedStored, Kept
    <2>4. RetentionLeaksNothing'
      BY <2>0, <2>rest, <2>ids DEF ArtInv, InStore, RetentionLeaksNothing, Kept
    <2>5. ContentOnce'
      BY <1>16, <2>0, <2>rest DEF ArtInv, InStore, ContentOnce, Kept, Rows, Ids
    <2> QED
      BY <2>1, <2>2, <2>3, <2>4, <2>5 DEF InStore
  <1>17. ASSUME NEW k \in Ids, ExpireRow(k) PROVE InStore'
    <2>0. /\ artifact'[k] = NoRow(k) /\ \A j \in Ids \ {k} : artifact'[j] = artifact[j]
          /\ NoRow(k).digest = artifact[k].digest /\ NoRow(k).row = FALSE
          /\ NoRow(k).bytes = (IF provider = "sql" THEN FALSE ELSE artifact[k].bytes)
      BY <1>17, StoresOf, KeepsTo DEF ExpireRow, ArtInv, ArtTypeOK
    <2>rest. /\ expired' = expired /\ UNCHANGED <<torn, announced, embedded>> /\ k \in expired
           /\ (provider = "s3" => ~artifact[k].bytes) /\ provider \in {"sql", "s3"}
      BY <1>17 DEF ExpireRow, RowMayGo, told, ArtInv, ArtTypeOK
    <2>ids. announced \cup embedded \cup expired \subseteq Ids
      BY DEF ArtInv, ArtTypeOK
    <2>1. RowsHaveBytes'
      BY <2>0, <2>rest, <2>ids DEF ArtInv, InStore, RowsHaveBytes, Kept
    <2>2. AnnouncedStored'
      BY <2>0, <2>rest, <2>ids DEF ArtInv, InStore, AnnouncedStored, Kept
    <2>3. EmbeddedStored'
      BY <2>0, <2>rest, <2>ids DEF ArtInv, InStore, EmbeddedStored, Kept
    <2>4. RetentionLeaksNothing'
      BY <2>0, <2>rest, <2>ids DEF ArtInv, InStore, RetentionLeaksNothing, Kept
    <2>5. ContentOnce'
      BY <1>17, <2>0, <2>rest DEF ArtInv, InStore, ContentOnce, Kept, Rows, Ids
    <2> QED
      BY <2>1, <2>2, <2>3, <2>4, <2>5 DEF InStore
  <1>18. CASE UNCHANGED artVars
    BY <1>18, <1>0 DEF artVars, store, told
  <1> QED
    BY <1>1, <1>2, <1>3, <1>4, <1>5, <1>6, <1>7, <1>8, <1>9, <1>10, <1>11, <1>12, <1>13, <1>14, <1>15, <1>16, <1>17, <1>18 DEF ArtNext, HarvestStep

\* What comes to be seen is in the store.
LEMMA SeenGrows ==
  ASSUME ArtInv, [ArtNext]_artVars, NEW p \in Files, NEW c \in Contents, <<p, c>> \in seen'
  PROVE  <<p, c>> \in seen \/ Stored(c)
  <1>0. <<p, c>> \in seen'
    OBVIOUS
  <1>1. ASSUME NEW q \in Files, WritesFile(q) PROVE <<p, c>> \in seen \/ Stored(c)
    BY <1>1, <1>0 DEF WritesFile, books
  <1>2. ASSUME NEW t \in Checkpoints, Checkpoint(t) PROVE <<p, c>> \in seen \/ Stored(c)
    BY <1>2, <1>0 DEF Checkpoint, books
  <1>3. ASSUME NEW t \in Harvesters, EnterFinal(t) PROVE <<p, c>> \in seen \/ Stored(c)
    BY <1>3, <1>0 DEF EnterFinal, books
  <1>4. ASSUME NEW t \in Harvesters, Discover(t) PROVE <<p, c>> \in seen \/ Stored(c)
    BY <1>4, <1>0 DEF Discover, books
  <1>5. ASSUME NEW t \in Harvesters, Pick(t) PROVE <<p, c>> \in seen \/ Stored(c)
    <2>1. PICK q \in capture[t].todo : q \in Files /\ (Leaves(t, q) \/ GivesUp(t) \/ TakesUp(t, q))
      BY <1>5, PickTo
    <2>2. \/ seen' = seen
          \/ seen' = seen \cup {<<q, file[q]>>} /\ Stored(file[q])
      BY <2>1 DEF Leaves, GivesUp, TakesUp
    <2>3. CASE seen' = seen \cup {<<q, file[q]>>} /\ Stored(file[q])
      <3>1. CASE <<p, c>> = <<q, file[q]>>
        <4>1. c = file[q]
          BY <3>1
        <4> QED
          BY <2>3, <4>1
      <3> QED
        BY <1>0, <2>3, <3>1
    <2> QED
      BY <1>0, <2>2, <2>3
  <1>6. ASSUME NEW t \in Harvesters, EndHarvest(t) PROVE <<p, c>> \in seen \/ Stored(c)
    BY <1>6, <1>0 DEF EndHarvest, books
  <1>7. ASSUME NEW t \in Harvesters, StoreBytes(t) PROVE <<p, c>> \in seen \/ Stored(c)
    BY <1>7, <1>0, StoreBytesTo
  <1>8. ASSUME NEW t \in Harvesters, InsertRow(t) PROVE <<p, c>> \in seen \/ Stored(c)
    BY <1>8, <1>0, InsertRowTo
  <1>9. ASSUME NEW t \in Harvesters, RollBack(t) PROVE <<p, c>> \in seen \/ Stored(c)
    BY <1>9, <1>0, RollBackTo
  <1>10. ASSUME NEW t \in Harvesters, CountAndAnnounce(t) PROVE <<p, c>> \in seen \/ Stored(c)
    <2>1. seen' = seen \cup {<<capture[t].path, capture[t].digest>>} /\ capture[t].at = "counting" /\ Book(t)
      BY <1>10, CountsTo
    <2>2. Stored(capture[t].digest)
      BY <2>1 DEF Book, Kept, Stored, Ids
    <2> QED
      BY <1>0, <2>1, <2>2
  <1>11. CASE AgentFinishes
    BY <1>11, <1>0 DEF AgentFinishes, books
  <1>12. CASE Embed
    BY <1>12, <1>0 DEF Embed, books
  <1>13. CASE Interrupted
    BY <1>13, <1>0 DEF Interrupted, books
  <1>14. CASE TaskEnds
    BY <1>14, <1>0 DEF TaskEnds, books
  <1>15. CASE WorkerDies
    BY <1>15, <1>0 DEF WorkerDies
  <1>16. ASSUME NEW k \in Ids, ExpireBytes(k) PROVE <<p, c>> \in seen \/ Stored(c)
    BY <1>16, <1>0 DEF ExpireBytes, books
  <1>17. ASSUME NEW k \in Ids, ExpireRow(k) PROVE <<p, c>> \in seen \/ Stored(c)
    BY <1>17, <1>0 DEF ExpireRow, books
  <1>18. CASE UNCHANGED artVars
    BY <1>18, <1>0 DEF artVars, books
  <1> QED
    BY <1>1, <1>2, <1>3, <1>4, <1>5, <1>6, <1>7, <1>8, <1>9, <1>10, <1>11, <1>12, <1>13, <1>14, <1>15, <1>16, <1>17, <1>18 DEF ArtNext, HarvestStep

\* What is seen is in the store.
LEMMA SeenStep ==
  ASSUME ArtInv, [ArtNext]_artVars PROVE SeenStored'
  <1> SUFFICES ASSUME NEW p \in Files, NEW c \in Contents, <<p, c>> \in seen' PROVE Stored(c)'
    BY DEF SeenStored
  <1>1. Stored(c)
    BY SeenGrows DEF ArtInv, SeenStored
  <1> QED
    BY <1>1, StoredStays

\* Only an announcement counts, and it fits what Pick has checked.
LEMMA BoundedStep ==
  ASSUME ArtInv, [ArtNext]_artVars PROVE CaptureBounded'
  <1>0. ASSUME UNCHANGED <<count, bytes>> PROVE CaptureBounded'
    BY <1>0 DEF ArtInv, CaptureBounded
  <1>1. ASSUME NEW p \in Files, WritesFile(p) PROVE CaptureBounded'
    BY <1>1, <1>0 DEF WritesFile, books
  <1>2. ASSUME NEW t \in Checkpoints, Checkpoint(t) PROVE CaptureBounded'
    BY <1>2, <1>0 DEF Checkpoint, books
  <1>3. ASSUME NEW t \in Harvesters, EnterFinal(t) PROVE CaptureBounded'
    BY <1>3, <1>0 DEF EnterFinal, books
  <1>4. ASSUME NEW t \in Harvesters, Discover(t) PROVE CaptureBounded'
    BY <1>4, <1>0 DEF Discover, books
  <1>5. ASSUME NEW t \in Harvesters, Pick(t) PROVE CaptureBounded'
    BY <1>5, <1>0, PickTo
  <1>6. ASSUME NEW t \in Harvesters, EndHarvest(t) PROVE CaptureBounded'
    BY <1>6, <1>0 DEF EndHarvest, books
  <1>7. ASSUME NEW t \in Harvesters, StoreBytes(t) PROVE CaptureBounded'
    BY <1>7, <1>0, StoreBytesTo
  <1>8. ASSUME NEW t \in Harvesters, InsertRow(t) PROVE CaptureBounded'
    BY <1>8, <1>0, InsertRowTo
  <1>9. ASSUME NEW t \in Harvesters, RollBack(t) PROVE CaptureBounded'
    BY <1>9, <1>0, RollBackTo
  <1>10. ASSUME NEW t \in Harvesters, CountAndAnnounce(t) PROVE CaptureBounded'
    <2>1. count' = count + 1 /\ bytes' = bytes + Size[capture[t].digest] /\ Book(t)
      BY <1>10, CountsTo
    <2>2. count \in Nat /\ MaxCount \in Nat
      BY ArtifactsAssumption DEF ArtInv, ArtTypeOK
    <2> QED
      BY <2>1, <2>2 DEF Book, CaptureBounded
  <1>11. CASE AgentFinishes
    BY <1>11, <1>0 DEF AgentFinishes, books
  <1>12. CASE Embed
    BY <1>12, <1>0 DEF Embed, books
  <1>13. CASE Interrupted
    BY <1>13, <1>0 DEF Interrupted, books
  <1>14. CASE TaskEnds
    BY <1>14, <1>0 DEF TaskEnds, books
  <1>15. CASE WorkerDies
    BY <1>15, ArtifactsAssumption DEF WorkerDies, CaptureBounded
  <1>16. ASSUME NEW k \in Ids, ExpireBytes(k) PROVE CaptureBounded'
    BY <1>16, <1>0 DEF ExpireBytes, books
  <1>17. ASSUME NEW k \in Ids, ExpireRow(k) PROVE CaptureBounded'
    BY <1>17, <1>0 DEF ExpireRow, books
  <1>18. CASE UNCHANGED artVars
    BY <1>18, <1>0 DEF artVars, books
  <1> QED
    BY <1>1, <1>2, <1>3, <1>4, <1>5, <1>6, <1>7, <1>8, <1>9, <1>10, <1>11, <1>12, <1>13, <1>14, <1>15, <1>16, <1>17, <1>18 DEF ArtNext, HarvestStep

\* A final harvest that no step touches stays covered, and so does one that
\* keeps its list and its artifact.
LEMMA CoverStays ==
  ASSUME ArtInv, [ArtNext]_artVars, file' = file, shortfall => shortfall', ~shortfall',
         NEW u \in Finals, capture[u].at \in Capturing, NEW q \in Files, file'[q] \in Contents
  PROVE  \/ q \in capture[u].todo
         \/ Stored(file[q])'
         \/ capture[u].at \in Holds /\ capture[u].path = q /\ capture[u].digest = file'[q]
  <1> DEFINE c == file[q]
  <1>1. c \in Contents
    OBVIOUS
  <1>2. \/ q \in capture[u].todo
        \/ Stored(c)
        \/ capture[u].at \in Holds /\ capture[u].path = q /\ capture[u].digest = c
    BY DEF ArtInv, Covered
  <1>3. Stored(c) => Stored(file[q])'
    <2>1. ASSUME NEW d \in Contents, Stored(d), d = file'[q] PROVE Stored(file[q])'
      <3>1. Stored(d)'
        BY <2>1, StoredStays
      <3> QED
        BY <2>1, <3>1 DEF Stored
    <2> QED
      BY <1>1, <2>1
  <1> QED
    BY <1>2, <1>3

\* A step that starts no final harvest and touches no list keeps harvests covered.
LEMMA CoverQuietly ==
  ASSUME ArtInv, [ArtNext]_artVars, file' = file, shortfall => shortfall',
         \A u \in Finals : capture'[u].at \in Capturing => capture'[u] = capture[u]
  PROVE  Covered'
  <1> SUFFICES ASSUME NEW u \in Finals, capture'[u].at \in Capturing, ~shortfall',
                      NEW q \in Files, file'[q] \in Contents
               PROVE  \/ q \in capture'[u].todo
                      \/ Stored(file[q])'
                      \/ capture'[u].at \in Holds /\ capture'[u].path = q /\ capture'[u].digest = file'[q]
    BY DEF Covered, Finals
  <1>1. capture'[u] = capture[u]
    OBVIOUS
  <1> QED
    BY <1>1, CoverStays

\* The other final thread does not capture.
LEMMA CoverOne ==
  ASSUME ArtInv, [ArtNext]_artVars, NEW t \in Harvesters, capture[t].at \in Capturing,
         \A u \in Harvesters \ {t} : capture'[u] = capture[u],
         ASSUME t \in Finals, capture'[t].at \in Capturing, ~shortfall', NEW q \in Files, file'[q] \in Contents
         PROVE  \/ q \in capture'[t].todo
                \/ Stored(file[q])'
                \/ capture'[t].at \in Holds /\ capture'[t].path = q /\ capture'[t].digest = file'[q]
  PROVE  Covered'
  <1>1. \A u \in Finals \ {t} : capture'[u].at \notin Capturing
    BY Alone, ThreadsOf
  <1> QED
    BY <1>1 DEF Covered, Finals

\* A sandbox that is deleted has no files.
LEMMA NoGoodFiles ==
  ASSUME TearDown PROVE \A q \in Files : file'[q] \notin Contents
  BY ArtifactsAssumption DEF TearDown

\* A final harvest covers every good file, from its listing on.
LEMMA CoveredStep ==
  ASSUME ArtInv, [ArtNext]_artVars PROVE Covered'
  <1>1. ASSUME NEW p \in Files, WritesFile(p) PROVE Covered'
    <2>1. \A u \in Finals : capture'[u].at \notin Capturing
      BY <1>1 DEF WritesFile, ArtInv, Stages, Finals, Capturing
    <2> QED
      BY <2>1 DEF Covered, Finals
  <1>2. ASSUME NEW t \in Checkpoints, Checkpoint(t) PROVE Covered'
    <2>1. \A u \in Finals : capture'[u] = capture[u]
      BY <1>2, CheckpointTo, ThreadsOf
    <2>2. UNCHANGED <<file, shortfall>>
      BY <1>2 DEF Checkpoint
    <2> QED
      BY <2>1, <2>2, CoverQuietly
  <1>3. ASSUME NEW t \in Harvesters, EnterFinal(t) PROVE Covered'
    <2>1. \A u \in Finals : capture'[u].at \in Capturing => capture'[u] = capture[u]
      BY <1>3, EnterFinalTo, ThreadsOf DEF Capturing
    <2>2. UNCHANGED <<file, shortfall>>
      BY <1>3 DEF EnterFinal
    <2> QED
      BY <2>1, <2>2, CoverQuietly
  <1>4. ASSUME NEW t \in Harvesters, Discover(t) PROVE Covered'
    <2>1. \A u \in Finals \ {t} : capture'[u].at \notin Capturing
      BY <1>4, DiscoverTo, Nobody, ThreadsOf
    <2>2. file' = file
      BY <1>4 DEF Discover
    <2>3. ASSUME t \in Finals, ~shortfall', NEW q \in Files, file'[q] \in Contents PROVE q \in capture'[t].todo
      BY <1>4, <2>2, <2>3, DiscoverTo, ArtifactsAssumption
    <2> QED
      BY <2>1, <2>3 DEF Covered, Finals
  <1>5. ASSUME NEW t \in Harvesters, Pick(t) PROVE Covered'
    <2>1. PICK p \in capture[t].todo : p \in Files /\ (Leaves(t, p) \/ GivesUp(t) \/ TakesUp(t, p))
      BY <1>5, PickTo
    <2>2. /\ capture[t].at = "picking" /\ capture[t].at \in Capturing /\ capture[t].at \notin Holds /\ file' = file
          /\ \A u \in Harvesters \ {t} : capture'[u] = capture[u]
      BY <1>5, PickTo, PickOf DEF Capturing, Holds
    <2> SUFFICES ASSUME t \in Finals, capture'[t].at \in Capturing, ~shortfall', NEW q \in Files, file'[q] \in Contents
                 PROVE  \/ q \in capture'[t].todo
                        \/ Stored(file[q])'
                        \/ capture'[t].at \in Holds /\ capture'[t].path = q /\ capture'[t].digest = file'[q]
      BY <2>2, CoverOne
    <2>3. CASE Leaves(t, p)
      <3>1. shortfall => shortfall'
        BY <2>3 DEF Leaves
      <3>2. q \in capture[t].todo \/ Stored(file[q])'
        BY <2>2, <3>1, CoverStays
      <3>3. capture'[t].todo = capture[t].todo \ {p}
        BY <2>1, <2>3, DropsTo DEF Leaves, ArtInv
      <3>4. q = p => Stored(file[q])
        BY <2>2, <2>3, <3>1 DEF Leaves
      <3>5. Stored(file[q]) => Stored(file[q])'
        <4>1. ASSUME NEW d \in Contents, d = file[q], Stored(d) PROVE Stored(file[q])'
          <5>1. Stored(d)'
            BY <4>1, StoredStays
          <5> QED
            BY <2>2, <4>1, <5>1 DEF Stored
        <4> QED
          BY <2>2, <4>1
      <3> QED
        BY <3>2, <3>3, <3>4, <3>5
    <2>4. CASE GivesUp(t)
      <3>1. capture'[t].at \notin Capturing
        BY <2>4, EndsTo, ThreadsOf DEF GivesUp, ArtInv
      <3> QED
        BY <3>1
    <2>5. CASE TakesUp(t, p)
      <3>1. PICK i \in Unused : Takes(t, p, file[p], i)
        BY <2>5 DEF TakesUp
      <3>2. i \in Ids /\ file[p] \in Contents /\ UNCHANGED shortfall
        BY <2>5 DEF Unused, TakesUp
      <3>3. /\ capture'[t].at = (IF provider = "sql" THEN "inserting" ELSE "storing")
            /\ capture'[t].todo = capture[t].todo \ {p} /\ capture'[t].path = p /\ capture'[t].digest = file[p]
        BY <2>1, <3>1, <3>2, TakesTo DEF ArtInv
      <3>4. capture'[t].at \in Holds
        BY <3>3 DEF Holds
      <3>5. q \in capture[t].todo \/ Stored(file[q])'
        BY <2>2, <3>2, CoverStays
      <3> QED
        BY <2>2, <3>3, <3>4, <3>5
    <2> QED
      BY <2>1, <2>3, <2>4, <2>5
  <1>6. ASSUME NEW t \in Harvesters, EndHarvest(t) PROVE Covered'
    <2>1. capture[t].at = "picking" /\ EndsHarvest(t, TRUE)
      BY <1>6, EndHarvestTo
    <2>2. capture'[t].at \notin Capturing /\ \A u \in Harvesters \ {t} : capture'[u] = capture[u]
      BY <2>1, EndsTo, ThreadsOf DEF ArtInv
    <2>3. \A u \in Finals : capture'[u].at \in Capturing => capture'[u] = capture[u]
      BY <2>2, ThreadsOf
    <2>4. UNCHANGED <<file, shortfall>>
      BY <1>6 DEF EndHarvest
    <2> QED
      BY <2>3, <2>4, CoverQuietly
  <1>7. ASSUME NEW t \in Harvesters, StoreBytes(t) PROVE Covered'
    <2>1. /\ capture[t].at \in Capturing /\ capture'[t].at \in Holds /\ capture[t].at \in Holds
          /\ capture'[t].todo = capture[t].todo
          /\ capture'[t].path = capture[t].path /\ capture'[t].digest = capture[t].digest
          /\ \A u \in Harvesters \ {t} : capture'[u] = capture[u]
      BY <1>7, StoreBytesTo DEF Capturing, Holds
    <2>2. UNCHANGED <<file, shortfall>>
      BY <1>7 DEF StoreBytes
    <2>3. ASSUME t \in Finals, ~shortfall', NEW q \in Files, file'[q] \in Contents
          PROVE  \/ q \in capture'[t].todo
                 \/ Stored(file[q])'
                 \/ capture'[t].at \in Holds /\ capture'[t].path = q /\ capture'[t].digest = file'[q]
      BY <2>1, <2>2, <2>3, CoverStays
    <2> QED
      BY <2>1, <2>3, CoverOne
  <1>8. ASSUME NEW t \in Harvesters, InsertRow(t) PROVE Covered'
    <2>1. /\ capture[t].at \in Capturing /\ capture'[t].at \in Holds /\ capture[t].at \in Holds
          /\ capture'[t].todo = capture[t].todo
          /\ capture'[t].path = capture[t].path /\ capture'[t].digest = capture[t].digest
          /\ \A u \in Harvesters \ {t} : capture'[u] = capture[u]
      BY <1>8, InsertRowTo DEF Capturing, Holds
    <2>2. UNCHANGED <<file, shortfall>>
      BY <1>8 DEF InsertRow
    <2>3. ASSUME t \in Finals, ~shortfall', NEW q \in Files, file'[q] \in Contents
          PROVE  \/ q \in capture'[t].todo
                 \/ Stored(file[q])'
                 \/ capture'[t].at \in Holds /\ capture'[t].path = q /\ capture'[t].digest = file'[q]
      BY <2>1, <2>2, <2>3, CoverStays
    <2> QED
      BY <2>1, <2>3, CoverOne
  <1>9. ASSUME NEW t \in Harvesters, RollBack(t) PROVE Covered'
    <2>1. capture[t].at = "rollback" /\ EndsHarvest(t, FALSE)
      BY <1>9, RollBackTo
    <2>2. capture'[t].at \notin Capturing /\ \A u \in Harvesters \ {t} : capture'[u] = capture[u]
      BY <2>1, EndsTo, ThreadsOf DEF ArtInv
    <2>3. \A u \in Finals : capture'[u].at \in Capturing => capture'[u] = capture[u]
      BY <2>2, ThreadsOf
    <2>4. UNCHANGED <<file, shortfall>>
      BY <1>9 DEF RollBack
    <2> QED
      BY <2>3, <2>4, CoverQuietly
  <1>10. ASSUME NEW t \in Harvesters, CountAndAnnounce(t) PROVE Covered'
    <2>1. capture[t].at = "counting" /\ capture[t].at \in Capturing /\ Book(t) /\ artifact' = artifact /\ expired' = expired
      BY <1>10, CountsTo DEF Capturing
    <2>2. UNCHANGED <<file, shortfall>>
      BY <1>10 DEF CountAndAnnounce
    <2>3. CASE EndsHarvest(t, FALSE)
      <3>1. capture'[t].at \notin Capturing /\ \A u \in Harvesters \ {t} : capture'[u] = capture[u]
        BY <2>3, EndsTo, ThreadsOf DEF ArtInv
      <3>2. \A u \in Finals : capture'[u].at \in Capturing => capture'[u] = capture[u]
        BY <3>1, ThreadsOf
      <3> QED
        BY <2>2, <3>2, CoverQuietly
    <2>4. CASE ~EndsHarvest(t, FALSE)
      <3>1. capture'[t].todo = capture[t].todo /\ \A u \in Harvesters \ {t} : capture'[u] = capture[u]
        BY <1>10, <2>4, CountsTo
      <3>2. ASSUME t \in Finals, ~shortfall', NEW q \in Files, file'[q] \in Contents
            PROVE  q \in capture'[t].todo \/ Stored(file[q])'
        <4>1. q \in capture[t].todo \/ Stored(file[q])' \/ capture[t].digest = file'[q]
          BY <2>1, <2>2, <3>2, CoverStays
        <4>2. capture[t].digest = file'[q] => Stored(file[q])'
          BY <2>1 DEF Book, Kept, Stored, Ids
        <4> QED
          BY <3>1, <4>1, <4>2
      <3> QED
        BY <2>1, <3>1, <3>2, CoverOne
    <2> QED
      BY <2>3, <2>4
  <1>11. CASE AgentFinishes
    <2>1. \A u \in Finals : capture'[u].at \in Capturing => capture'[u] = capture[u]
      BY <1>11, AgentFinishesTo, ThreadsOf DEF Capturing
    <2>2. UNCHANGED <<file, shortfall>>
      BY <1>11 DEF AgentFinishes
    <2> QED
      BY <2>1, <2>2, CoverQuietly
  <1>12. CASE Embed
    <2>1. \A u \in Finals : capture'[u].at \notin Capturing
      BY <1>12, EmbedTo DEF Finals, Capturing
    <2> QED
      BY <2>1 DEF Covered, Finals
  <1>13. CASE Interrupted
    <2>1. \A u \in Finals : capture'[u].at \in Capturing => capture'[u] = capture[u]
      BY <1>13, InterruptedTo, ThreadsOf DEF Capturing
    <2>2. shortfall' = shortfall /\ (file' = file \/ TearDown)
      BY <1>13 DEF Interrupted
    <2>3. CASE file' = file
      BY <2>1, <2>2, <2>3, CoverQuietly
    <2>4. CASE TearDown
      BY <2>4, NoGoodFiles DEF Covered
    <2> QED
      BY <2>2, <2>3, <2>4
  <1>14. CASE TaskEnds
    <2>1. TearDown
      BY <1>14 DEF TaskEnds
    <2> QED
      BY <2>1, NoGoodFiles DEF Covered
  <1>15. CASE WorkerDies
    <2>1. TearDown
      BY <1>15 DEF WorkerDies
    <2> QED
      BY <2>1, NoGoodFiles DEF Covered
  <1>16. ASSUME NEW k \in Ids, ExpireBytes(k) PROVE Covered'
    BY <1>16, CoverQuietly DEF ExpireBytes
  <1>17. ASSUME NEW k \in Ids, ExpireRow(k) PROVE Covered'
    BY <1>17, CoverQuietly DEF ExpireRow
  <1>18. CASE UNCHANGED artVars
    BY <1>18, CoverQuietly DEF artVars
  <1> QED
    BY <1>1, <1>2, <1>3, <1>4, <1>5, <1>6, <1>7, <1>8, <1>9, <1>10, <1>11, <1>12, <1>13, <1>14, <1>15, <1>16, <1>17, <1>18 DEF ArtNext, HarvestStep

\* A step that completes no final harvest keeps the complete ones complete.
LEMMA FinalQuietly ==
  ASSUME ArtInv, [ArtNext]_artVars, file' = file, shortfall => shortfall', finalDone' => finalDone
  PROVE  FinalComplete'
  <1> SUFFICES ASSUME finalDone', ~shortfall', NEW q \in Files, NEW c \in Contents, file'[q] = c
               PROVE  Stored(c)'
    BY DEF FinalComplete, Stored, Ids
  <1>1. Stored(c)
    BY DEF ArtInv, FinalComplete, Stored
  <1> QED
    BY <1>1, StoredStays

\* A final harvest that ends has covered every good file.
LEMMA FinalStep ==
  ASSUME ArtInv, [ArtNext]_artVars PROVE FinalComplete'
  <1>1. ASSUME NEW p \in Files, WritesFile(p) PROVE FinalComplete'
    <2>1. ~finalDone'
      BY <1>1 DEF WritesFile, ArtInv, Stages
    <2> QED
      BY <2>1 DEF FinalComplete
  <1>2. ASSUME NEW t \in Checkpoints, Checkpoint(t) PROVE FinalComplete'
    BY <1>2, FinalQuietly DEF Checkpoint, locks
  <1>3. ASSUME NEW t \in Harvesters, EnterFinal(t) PROVE FinalComplete'
    BY <1>3, FinalQuietly DEF EnterFinal, locks
  <1>4. ASSUME NEW t \in Harvesters, Discover(t) PROVE FinalComplete'
    <2>1. UNCHANGED <<file, finalDone>>
      BY <1>4 DEF Discover
    <2>2. CASE t \in Finals
      <3>1. capture[t].at = "waiting"
        BY <1>4, DiscoverTo
      <3>2. finalOwner = t
        BY <2>2, <3>1 DEF ArtInv, OneFinal
      <3>3. ~finalDone
        BY <2>2, <3>2, ThreadsOf DEF ArtInv, OneFinal
      <3> QED
        BY <2>1, <3>3 DEF FinalComplete
    <2>3. CASE t \notin Finals
      BY <1>4, <2>1, <2>3, DiscoverTo, FinalQuietly
    <2> QED
      BY <2>2, <2>3
  <1>5. ASSUME NEW t \in Harvesters, Pick(t) PROVE FinalComplete'
    <2>1. PICK p \in capture[t].todo : p \in Files /\ (Leaves(t, p) \/ GivesUp(t) \/ TakesUp(t, p))
      BY <1>5, PickTo
    <2>2. file' = file
      BY <1>5, PickTo
    <2>3. shortfall => shortfall'
      BY <2>1 DEF Leaves, GivesUp, TakesUp
    <2>4. finalDone' = finalDone
      BY <2>1, EndsTo DEF Leaves, GivesUp, TakesUp, ArtInv, ArtTypeOK
    <2> QED
      BY <2>2, <2>3, <2>4, FinalQuietly
  <1>6. ASSUME NEW t \in Harvesters, EndHarvest(t) PROVE FinalComplete'
    <2>1. capture[t].at = "picking" /\ capture[t].todo = {} /\ EndsHarvest(t, TRUE)
      BY <1>6, EndHarvestTo
    <2>2. UNCHANGED <<file, shortfall>>
      BY <1>6 DEF EndHarvest
    <2>3. finalDone' = (finalDone \/ t \in Finals)
      BY <2>1, EndsTo DEF ArtInv
    <2>4. CASE t \in Finals
      <3> SUFFICES ASSUME ~shortfall', NEW q \in Files, NEW c \in Contents, file'[q] = c PROVE Stored(c)'
        BY DEF FinalComplete, Stored, Ids
      <3>1. capture[t].at \in Capturing /\ capture[t].at \notin Holds
        BY <2>1 DEF Capturing, Holds
      <3>2. Stored(file[q]) /\ file[q] = c
        BY <2>1, <2>2, <2>4, <3>1 DEF ArtInv, Covered
      <3> QED
        BY <3>2, StoredStays
    <2>5. CASE t \notin Finals
      BY <2>2, <2>3, <2>5, FinalQuietly
    <2> QED
      BY <2>4, <2>5
  <1>7. ASSUME NEW t \in Harvesters, StoreBytes(t) PROVE FinalComplete'
    BY <1>7, FinalQuietly DEF StoreBytes, locks
  <1>8. ASSUME NEW t \in Harvesters, InsertRow(t) PROVE FinalComplete'
    BY <1>8, FinalQuietly DEF InsertRow, locks
  <1>9. ASSUME NEW t \in Harvesters, RollBack(t) PROVE FinalComplete'
    <2>1. finalDone' = finalDone
      BY <1>9, EndsTo DEF RollBack, ArtInv, ArtTypeOK
    <2> QED
      BY <1>9, <2>1, FinalQuietly DEF RollBack
  <1>10. ASSUME NEW t \in Harvesters, CountAndAnnounce(t) PROVE FinalComplete'
    <2>1. UNCHANGED <<file, shortfall>>
      BY <1>10 DEF CountAndAnnounce
    <2>2. EndsHarvest(t, FALSE) \/ finalDone' = finalDone
      BY <1>10, CountsTo
    <2>3. finalDone' = finalDone
      BY <2>2, EndsTo DEF ArtInv, ArtTypeOK
    <2> QED
      BY <2>1, <2>3, FinalQuietly
  <1>11. CASE AgentFinishes
    BY <1>11, FinalQuietly DEF AgentFinishes, locks
  <1>12. CASE Embed
    BY <1>12, FinalQuietly DEF Embed, locks
  <1>13. CASE Interrupted
    <2>1. UNCHANGED <<finalDone, shortfall>> /\ (file' = file \/ TearDown)
      BY <1>13 DEF Interrupted
    <2> QED
      BY <2>1, FinalQuietly, NoGoodFiles DEF FinalComplete
  <1>14. CASE TaskEnds
    <2>1. TearDown
      BY <1>14 DEF TaskEnds
    <2> QED
      BY <2>1, NoGoodFiles DEF FinalComplete
  <1>15. CASE WorkerDies
    BY <1>15 DEF WorkerDies, FinalComplete
  <1>16. ASSUME NEW k \in Ids, ExpireBytes(k) PROVE FinalComplete'
    BY <1>16, FinalQuietly DEF ExpireBytes, locks
  <1>17. ASSUME NEW k \in Ids, ExpireRow(k) PROVE FinalComplete'
    BY <1>17, FinalQuietly DEF ExpireRow, locks
  <1>18. CASE UNCHANGED artVars
    BY <1>18, FinalQuietly DEF artVars
  <1> QED
    BY <1>1, <1>2, <1>3, <1>4, <1>5, <1>6, <1>7, <1>8, <1>9, <1>10, <1>11, <1>12, <1>13, <1>14, <1>15, <1>16, <1>17, <1>18 DEF ArtNext, HarvestStep

\* The conjuncts of the type invariant, one by one.
LEMMA TypesOf ==
  ASSUME ArtTypeOK
  PROVE  /\ provider \in {"sql", "s3"} /\ step \in {"agent", "report", "runner", "ended"}
         /\ attempt \in 1..MaxRuns /\ MaxRuns \in Nat
         /\ file \in [Files -> Contents \cup {Nothing}]
         /\ mutex \in Harvesters \cup {Nothing} /\ finalOwner \in Harvesters \cup {Nothing}
         /\ capture \in [Harvesters -> Captures]
         /\ finalDone \in BOOLEAN /\ shortfall \in BOOLEAN
         /\ seen \in SUBSET (Files \X Contents) /\ count \in Nat /\ bytes \in Nat
         /\ artifact \in [Ids -> Stores]
         /\ torn \subseteq Ids /\ announced \subseteq Ids /\ embedded \subseteq Ids /\ expired \subseteq Ids
  BY ArtifactsAssumption DEF ArtTypeOK

\* The type invariant, part by part.
LEMMA StepTypes ==
  ASSUME ArtInv, [ArtNext]_artVars PROVE provider' \in {"sql", "s3"} /\ step' \in {"agent", "report", "runner", "ended"} /\ attempt' \in 1..MaxRuns
  <1>1. ASSUME NEW p \in Files, WritesFile(p) PROVE provider' \in {"sql", "s3"} /\ step' \in {"agent", "report", "runner", "ended"} /\ attempt' \in 1..MaxRuns
    BY <1>1, TypesOf DEF ArtInv, WritesFile, jobSteps
  <1>2. ASSUME NEW t \in Checkpoints, Checkpoint(t) PROVE provider' \in {"sql", "s3"} /\ step' \in {"agent", "report", "runner", "ended"} /\ attempt' \in 1..MaxRuns
    BY <1>2, TypesOf DEF ArtInv, Checkpoint, jobSteps
  <1>3. ASSUME NEW t \in Harvesters, EnterFinal(t) PROVE provider' \in {"sql", "s3"} /\ step' \in {"agent", "report", "runner", "ended"} /\ attempt' \in 1..MaxRuns
    BY <1>3, TypesOf DEF ArtInv, EnterFinal, jobSteps
  <1>4. ASSUME NEW t \in Harvesters, Discover(t) PROVE provider' \in {"sql", "s3"} /\ step' \in {"agent", "report", "runner", "ended"} /\ attempt' \in 1..MaxRuns
    BY <1>4, TypesOf DEF ArtInv, Discover, jobSteps
  <1>5. ASSUME NEW t \in Harvesters, Pick(t) PROVE provider' \in {"sql", "s3"} /\ step' \in {"agent", "report", "runner", "ended"} /\ attempt' \in 1..MaxRuns
    BY <1>5, TypesOf DEF ArtInv, Pick, jobSteps
  <1>6. ASSUME NEW t \in Harvesters, EndHarvest(t) PROVE provider' \in {"sql", "s3"} /\ step' \in {"agent", "report", "runner", "ended"} /\ attempt' \in 1..MaxRuns
    BY <1>6, TypesOf DEF ArtInv, EndHarvest, jobSteps
  <1>7. ASSUME NEW t \in Harvesters, StoreBytes(t) PROVE provider' \in {"sql", "s3"} /\ step' \in {"agent", "report", "runner", "ended"} /\ attempt' \in 1..MaxRuns
    BY <1>7, TypesOf DEF ArtInv, StoreBytes, jobSteps
  <1>8. ASSUME NEW t \in Harvesters, InsertRow(t) PROVE provider' \in {"sql", "s3"} /\ step' \in {"agent", "report", "runner", "ended"} /\ attempt' \in 1..MaxRuns
    BY <1>8, TypesOf DEF ArtInv, InsertRow, jobSteps
  <1>9. ASSUME NEW t \in Harvesters, RollBack(t) PROVE provider' \in {"sql", "s3"} /\ step' \in {"agent", "report", "runner", "ended"} /\ attempt' \in 1..MaxRuns
    BY <1>9, TypesOf DEF ArtInv, RollBack, jobSteps
  <1>10. ASSUME NEW t \in Harvesters, CountAndAnnounce(t) PROVE provider' \in {"sql", "s3"} /\ step' \in {"agent", "report", "runner", "ended"} /\ attempt' \in 1..MaxRuns
    BY <1>10, TypesOf DEF ArtInv, CountAndAnnounce, jobSteps
  <1>11. CASE AgentFinishes
    BY <1>11, TypesOf DEF ArtInv, AgentFinishes, jobSteps
  <1>12. CASE Embed
    BY <1>12, TypesOf DEF ArtInv, Embed, jobSteps
  <1>13. CASE Interrupted
    BY <1>13, TypesOf DEF ArtInv, Interrupted, jobSteps
  <1>14. CASE TaskEnds
    BY <1>14, TypesOf DEF ArtInv, TaskEnds, jobSteps
  <1>15. CASE WorkerDies
    BY <1>15, TypesOf DEF ArtInv, WorkerDies, jobSteps
  <1>16. ASSUME NEW k \in Ids, ExpireBytes(k) PROVE provider' \in {"sql", "s3"} /\ step' \in {"agent", "report", "runner", "ended"} /\ attempt' \in 1..MaxRuns
    BY <1>16, TypesOf DEF ArtInv, ExpireBytes, jobSteps
  <1>17. ASSUME NEW k \in Ids, ExpireRow(k) PROVE provider' \in {"sql", "s3"} /\ step' \in {"agent", "report", "runner", "ended"} /\ attempt' \in 1..MaxRuns
    BY <1>17, TypesOf DEF ArtInv, ExpireRow, jobSteps
  <1>18. CASE UNCHANGED artVars
    BY <1>18, TypesOf DEF ArtInv, artVars, jobSteps
  <1> QED
    BY <1>1, <1>2, <1>3, <1>4, <1>5, <1>6, <1>7, <1>8, <1>9, <1>10, <1>11, <1>12, <1>13, <1>14, <1>15, <1>16, <1>17, <1>18 DEF ArtNext, HarvestStep

LEMMA FileTypes ==
  ASSUME ArtInv, [ArtNext]_artVars PROVE file' \in [Files -> Contents \cup {Nothing}]
  <1>1. ASSUME NEW p \in Files, WritesFile(p) PROVE file' \in [Files -> Contents \cup {Nothing}]
    BY <1>1, TypesOf DEF ArtInv, WritesFile
  <1>2. ASSUME NEW t \in Checkpoints, Checkpoint(t) PROVE file' \in [Files -> Contents \cup {Nothing}]
    BY <1>2, TypesOf DEF ArtInv, Checkpoint
  <1>3. ASSUME NEW t \in Harvesters, EnterFinal(t) PROVE file' \in [Files -> Contents \cup {Nothing}]
    BY <1>3, TypesOf DEF ArtInv, EnterFinal
  <1>4. ASSUME NEW t \in Harvesters, Discover(t) PROVE file' \in [Files -> Contents \cup {Nothing}]
    BY <1>4, TypesOf DEF ArtInv, Discover
  <1>5. ASSUME NEW t \in Harvesters, Pick(t) PROVE file' \in [Files -> Contents \cup {Nothing}]
    BY <1>5, TypesOf DEF ArtInv, Pick
  <1>6. ASSUME NEW t \in Harvesters, EndHarvest(t) PROVE file' \in [Files -> Contents \cup {Nothing}]
    BY <1>6, TypesOf DEF ArtInv, EndHarvest
  <1>7. ASSUME NEW t \in Harvesters, StoreBytes(t) PROVE file' \in [Files -> Contents \cup {Nothing}]
    BY <1>7, TypesOf DEF ArtInv, StoreBytes
  <1>8. ASSUME NEW t \in Harvesters, InsertRow(t) PROVE file' \in [Files -> Contents \cup {Nothing}]
    BY <1>8, TypesOf DEF ArtInv, InsertRow
  <1>9. ASSUME NEW t \in Harvesters, RollBack(t) PROVE file' \in [Files -> Contents \cup {Nothing}]
    BY <1>9, TypesOf DEF ArtInv, RollBack
  <1>10. ASSUME NEW t \in Harvesters, CountAndAnnounce(t) PROVE file' \in [Files -> Contents \cup {Nothing}]
    BY <1>10, TypesOf DEF ArtInv, CountAndAnnounce
  <1>11. CASE AgentFinishes
    BY <1>11, TypesOf DEF ArtInv, AgentFinishes
  <1>12. CASE Embed
    BY <1>12, TypesOf DEF ArtInv, Embed
  <1>13. CASE Interrupted
    BY <1>13, TypesOf DEF ArtInv, Interrupted, TearDown
  <1>14. CASE TaskEnds
    BY <1>14, TypesOf DEF ArtInv, TaskEnds, TearDown
  <1>15. CASE WorkerDies
    BY <1>15, TypesOf DEF ArtInv, WorkerDies, TearDown
  <1>16. ASSUME NEW k \in Ids, ExpireBytes(k) PROVE file' \in [Files -> Contents \cup {Nothing}]
    BY <1>16, TypesOf DEF ArtInv, ExpireBytes
  <1>17. ASSUME NEW k \in Ids, ExpireRow(k) PROVE file' \in [Files -> Contents \cup {Nothing}]
    BY <1>17, TypesOf DEF ArtInv, ExpireRow
  <1>18. CASE UNCHANGED artVars
    BY <1>18, TypesOf DEF ArtInv, artVars
  <1> QED
    BY <1>1, <1>2, <1>3, <1>4, <1>5, <1>6, <1>7, <1>8, <1>9, <1>10, <1>11, <1>12, <1>13, <1>14, <1>15, <1>16, <1>17, <1>18 DEF ArtNext, HarvestStep

LEMMA CaptureTypes ==
  ASSUME ArtInv, [ArtNext]_artVars PROVE capture' \in [Harvesters -> Captures]
  <1>1. ASSUME NEW p \in Files, WritesFile(p) PROVE capture' \in [Harvesters -> Captures]
    BY <1>1, TypesOf DEF ArtInv, WritesFile
  <1>2. ASSUME NEW t \in Checkpoints, Checkpoint(t) PROVE capture' \in [Harvesters -> Captures]
    BY <1>2, CheckpointTo
  <1>3. ASSUME NEW t \in Harvesters, EnterFinal(t) PROVE capture' \in [Harvesters -> Captures]
    BY <1>3, EnterFinalTo
  <1>4. ASSUME NEW t \in Harvesters, Discover(t) PROVE capture' \in [Harvesters -> Captures]
    BY <1>4, DiscoverTo
  <1>5. ASSUME NEW t \in Harvesters, Pick(t) PROVE capture' \in [Harvesters -> Captures]
    BY <1>5, PickOf
  <1>6. ASSUME NEW t \in Harvesters, EndHarvest(t) PROVE capture' \in [Harvesters -> Captures]
    BY <1>6, EndHarvestTo, EndsTo DEF ArtInv
  <1>7. ASSUME NEW t \in Harvesters, StoreBytes(t) PROVE capture' \in [Harvesters -> Captures]
    BY <1>7, StoreBytesTo
  <1>8. ASSUME NEW t \in Harvesters, InsertRow(t) PROVE capture' \in [Harvesters -> Captures]
    BY <1>8, InsertRowTo
  <1>9. ASSUME NEW t \in Harvesters, RollBack(t) PROVE capture' \in [Harvesters -> Captures]
    BY <1>9, RollBackTo, EndsTo DEF ArtInv
  <1>10. ASSUME NEW t \in Harvesters, CountAndAnnounce(t) PROVE capture' \in [Harvesters -> Captures]
    BY <1>10, CountsTo, EndsTo DEF ArtInv
  <1>11. CASE AgentFinishes
    BY <1>11, AgentFinishesTo
  <1>12. CASE Embed
    BY <1>12, EmbedTo
  <1>13. CASE Interrupted
    BY <1>13, InterruptedTo
  <1>14. CASE TaskEnds
    BY <1>14, TaskEndsTo
  <1>15. CASE WorkerDies
    BY <1>15, WorkerDiesTo
  <1>16. ASSUME NEW k \in Ids, ExpireBytes(k) PROVE capture' \in [Harvesters -> Captures]
    BY <1>16, TypesOf DEF ArtInv, ExpireBytes
  <1>17. ASSUME NEW k \in Ids, ExpireRow(k) PROVE capture' \in [Harvesters -> Captures]
    BY <1>17, TypesOf DEF ArtInv, ExpireRow
  <1>18. CASE UNCHANGED artVars
    BY <1>18, TypesOf DEF ArtInv, artVars
  <1> QED
    BY <1>1, <1>2, <1>3, <1>4, <1>5, <1>6, <1>7, <1>8, <1>9, <1>10, <1>11, <1>12, <1>13, <1>14, <1>15, <1>16, <1>17, <1>18 DEF ArtNext, HarvestStep

LEMMA LockTypes ==
  ASSUME ArtInv, [ArtNext]_artVars PROVE mutex' \in Harvesters \cup {Nothing} /\ finalOwner' \in Harvesters \cup {Nothing} /\ finalDone' \in BOOLEAN
  <1>1. ASSUME NEW p \in Files, WritesFile(p) PROVE mutex' \in Harvesters \cup {Nothing} /\ finalOwner' \in Harvesters \cup {Nothing} /\ finalDone' \in BOOLEAN
    BY <1>1, TypesOf DEF ArtInv, WritesFile, locks
  <1>2. ASSUME NEW t \in Checkpoints, Checkpoint(t) PROVE mutex' \in Harvesters \cup {Nothing} /\ finalOwner' \in Harvesters \cup {Nothing} /\ finalDone' \in BOOLEAN
    BY <1>2, TypesOf DEF ArtInv, Checkpoint, locks
  <1>3. ASSUME NEW t \in Harvesters, EnterFinal(t) PROVE mutex' \in Harvesters \cup {Nothing} /\ finalOwner' \in Harvesters \cup {Nothing} /\ finalDone' \in BOOLEAN
    BY <1>3, TypesOf DEF ArtInv, EnterFinal
  <1>4. ASSUME NEW t \in Harvesters, Discover(t) PROVE mutex' \in Harvesters \cup {Nothing} /\ finalOwner' \in Harvesters \cup {Nothing} /\ finalDone' \in BOOLEAN
    BY <1>4, TypesOf DEF ArtInv, Discover
  <1>5. ASSUME NEW t \in Harvesters, Pick(t) PROVE mutex' \in Harvesters \cup {Nothing} /\ finalOwner' \in Harvesters \cup {Nothing} /\ finalDone' \in BOOLEAN
    <2>1. EndsHarvest(t, FALSE) \/ UNCHANGED <<mutex, finalOwner, finalDone>>
      BY <1>5, PickOf
    <2> QED
      BY <2>1, EndsTo, TypesOf DEF ArtInv
  <1>6. ASSUME NEW t \in Harvesters, EndHarvest(t) PROVE mutex' \in Harvesters \cup {Nothing} /\ finalOwner' \in Harvesters \cup {Nothing} /\ finalDone' \in BOOLEAN
    <2>1. EndsHarvest(t, TRUE) \/ UNCHANGED <<mutex, finalOwner, finalDone>>
      BY <1>6, EndHarvestTo
    <2> QED
      BY <2>1, EndsTo, TypesOf DEF ArtInv
  <1>7. ASSUME NEW t \in Harvesters, StoreBytes(t) PROVE mutex' \in Harvesters \cup {Nothing} /\ finalOwner' \in Harvesters \cup {Nothing} /\ finalDone' \in BOOLEAN
    BY <1>7, TypesOf DEF ArtInv, StoreBytes, locks
  <1>8. ASSUME NEW t \in Harvesters, InsertRow(t) PROVE mutex' \in Harvesters \cup {Nothing} /\ finalOwner' \in Harvesters \cup {Nothing} /\ finalDone' \in BOOLEAN
    BY <1>8, TypesOf DEF ArtInv, InsertRow, locks
  <1>9. ASSUME NEW t \in Harvesters, RollBack(t) PROVE mutex' \in Harvesters \cup {Nothing} /\ finalOwner' \in Harvesters \cup {Nothing} /\ finalDone' \in BOOLEAN
    <2>1. EndsHarvest(t, FALSE) \/ UNCHANGED <<mutex, finalOwner, finalDone>>
      BY <1>9, RollBackTo
    <2> QED
      BY <2>1, EndsTo, TypesOf DEF ArtInv
  <1>10. ASSUME NEW t \in Harvesters, CountAndAnnounce(t) PROVE mutex' \in Harvesters \cup {Nothing} /\ finalOwner' \in Harvesters \cup {Nothing} /\ finalDone' \in BOOLEAN
    <2>1. EndsHarvest(t, FALSE) \/ UNCHANGED <<mutex, finalOwner, finalDone>>
      BY <1>10, CountsTo
    <2> QED
      BY <2>1, EndsTo, TypesOf DEF ArtInv
  <1>11. CASE AgentFinishes
    BY <1>11, TypesOf DEF ArtInv, AgentFinishes, locks
  <1>12. CASE Embed
    BY <1>12, TypesOf DEF ArtInv, Embed, locks
  <1>13. CASE Interrupted
    BY <1>13, TypesOf DEF ArtInv, Interrupted, locks
  <1>14. CASE TaskEnds
    BY <1>14, TypesOf DEF ArtInv, TaskEnds, locks
  <1>15. CASE WorkerDies
    BY <1>15, TypesOf DEF ArtInv, WorkerDies, locks
  <1>16. ASSUME NEW k \in Ids, ExpireBytes(k) PROVE mutex' \in Harvesters \cup {Nothing} /\ finalOwner' \in Harvesters \cup {Nothing} /\ finalDone' \in BOOLEAN
    BY <1>16, TypesOf DEF ArtInv, ExpireBytes, locks
  <1>17. ASSUME NEW k \in Ids, ExpireRow(k) PROVE mutex' \in Harvesters \cup {Nothing} /\ finalOwner' \in Harvesters \cup {Nothing} /\ finalDone' \in BOOLEAN
    BY <1>17, TypesOf DEF ArtInv, ExpireRow, locks
  <1>18. CASE UNCHANGED artVars
    BY <1>18, TypesOf DEF ArtInv, artVars, locks
  <1> QED
    BY <1>1, <1>2, <1>3, <1>4, <1>5, <1>6, <1>7, <1>8, <1>9, <1>10, <1>11, <1>12, <1>13, <1>14, <1>15, <1>16, <1>17, <1>18 DEF ArtNext, HarvestStep

LEMMA ShortfallTypes ==
  ASSUME ArtInv, [ArtNext]_artVars PROVE shortfall' \in BOOLEAN
  <1>1. ASSUME NEW p \in Files, WritesFile(p) PROVE shortfall' \in BOOLEAN
    BY <1>1, TypesOf DEF ArtInv, WritesFile
  <1>2. ASSUME NEW t \in Checkpoints, Checkpoint(t) PROVE shortfall' \in BOOLEAN
    BY <1>2, TypesOf DEF ArtInv, Checkpoint
  <1>3. ASSUME NEW t \in Harvesters, EnterFinal(t) PROVE shortfall' \in BOOLEAN
    BY <1>3, TypesOf DEF ArtInv, EnterFinal
  <1>4. ASSUME NEW t \in Harvesters, Discover(t) PROVE shortfall' \in BOOLEAN
    BY <1>4, DiscoverTo
  <1>5. ASSUME NEW t \in Harvesters, Pick(t) PROVE shortfall' \in BOOLEAN
    BY <1>5, PickTo
  <1>6. ASSUME NEW t \in Harvesters, EndHarvest(t) PROVE shortfall' \in BOOLEAN
    BY <1>6, TypesOf DEF ArtInv, EndHarvest
  <1>7. ASSUME NEW t \in Harvesters, StoreBytes(t) PROVE shortfall' \in BOOLEAN
    BY <1>7, TypesOf DEF ArtInv, StoreBytes
  <1>8. ASSUME NEW t \in Harvesters, InsertRow(t) PROVE shortfall' \in BOOLEAN
    BY <1>8, TypesOf DEF ArtInv, InsertRow
  <1>9. ASSUME NEW t \in Harvesters, RollBack(t) PROVE shortfall' \in BOOLEAN
    BY <1>9, TypesOf DEF ArtInv, RollBack
  <1>10. ASSUME NEW t \in Harvesters, CountAndAnnounce(t) PROVE shortfall' \in BOOLEAN
    BY <1>10, TypesOf DEF ArtInv, CountAndAnnounce
  <1>11. CASE AgentFinishes
    BY <1>11, TypesOf DEF ArtInv, AgentFinishes
  <1>12. CASE Embed
    BY <1>12, TypesOf DEF ArtInv, Embed
  <1>13. CASE Interrupted
    BY <1>13, TypesOf DEF ArtInv, Interrupted
  <1>14. CASE TaskEnds
    BY <1>14, TypesOf DEF ArtInv, TaskEnds
  <1>15. CASE WorkerDies
    BY <1>15, TypesOf DEF ArtInv, WorkerDies
  <1>16. ASSUME NEW k \in Ids, ExpireBytes(k) PROVE shortfall' \in BOOLEAN
    BY <1>16, TypesOf DEF ArtInv, ExpireBytes
  <1>17. ASSUME NEW k \in Ids, ExpireRow(k) PROVE shortfall' \in BOOLEAN
    BY <1>17, TypesOf DEF ArtInv, ExpireRow
  <1>18. CASE UNCHANGED artVars
    BY <1>18, TypesOf DEF ArtInv, artVars
  <1> QED
    BY <1>1, <1>2, <1>3, <1>4, <1>5, <1>6, <1>7, <1>8, <1>9, <1>10, <1>11, <1>12, <1>13, <1>14, <1>15, <1>16, <1>17, <1>18 DEF ArtNext, HarvestStep

LEMMA BookTypes ==
  ASSUME ArtInv, [ArtNext]_artVars PROVE seen' \in SUBSET (Files \X Contents) /\ count' \in Nat /\ bytes' \in Nat
  <1>1. ASSUME NEW p \in Files, WritesFile(p) PROVE seen' \in SUBSET (Files \X Contents) /\ count' \in Nat /\ bytes' \in Nat
    BY <1>1, TypesOf DEF ArtInv, WritesFile, books
  <1>2. ASSUME NEW t \in Checkpoints, Checkpoint(t) PROVE seen' \in SUBSET (Files \X Contents) /\ count' \in Nat /\ bytes' \in Nat
    BY <1>2, TypesOf DEF ArtInv, Checkpoint, books
  <1>3. ASSUME NEW t \in Harvesters, EnterFinal(t) PROVE seen' \in SUBSET (Files \X Contents) /\ count' \in Nat /\ bytes' \in Nat
    BY <1>3, TypesOf DEF ArtInv, EnterFinal, books
  <1>4. ASSUME NEW t \in Harvesters, Discover(t) PROVE seen' \in SUBSET (Files \X Contents) /\ count' \in Nat /\ bytes' \in Nat
    BY <1>4, TypesOf DEF ArtInv, Discover, books
  <1>5. ASSUME NEW t \in Harvesters, Pick(t) PROVE seen' \in SUBSET (Files \X Contents) /\ count' \in Nat /\ bytes' \in Nat
    <2>1. PICK q \in capture[t].todo : q \in Files /\ (Leaves(t, q) \/ GivesUp(t) \/ TakesUp(t, q))
      BY <1>5, PickTo
    <2>2. seen' = seen \/ (seen' = seen \cup {<<q, file[q]>>} /\ file[q] \in Contents)
      BY <2>1 DEF Leaves, GivesUp, TakesUp
    <2> QED
      BY <1>5, <2>1, <2>2, PickTo, TypesOf DEF ArtInv
  <1>6. ASSUME NEW t \in Harvesters, EndHarvest(t) PROVE seen' \in SUBSET (Files \X Contents) /\ count' \in Nat /\ bytes' \in Nat
    BY <1>6, TypesOf DEF ArtInv, EndHarvest, books
  <1>7. ASSUME NEW t \in Harvesters, StoreBytes(t) PROVE seen' \in SUBSET (Files \X Contents) /\ count' \in Nat /\ bytes' \in Nat
    BY <1>7, StoreBytesTo, TypesOf DEF ArtInv
  <1>8. ASSUME NEW t \in Harvesters, InsertRow(t) PROVE seen' \in SUBSET (Files \X Contents) /\ count' \in Nat /\ bytes' \in Nat
    BY <1>8, InsertRowTo, TypesOf DEF ArtInv
  <1>9. ASSUME NEW t \in Harvesters, RollBack(t) PROVE seen' \in SUBSET (Files \X Contents) /\ count' \in Nat /\ bytes' \in Nat
    BY <1>9, RollBackTo, TypesOf DEF ArtInv
  <1>10. ASSUME NEW t \in Harvesters, CountAndAnnounce(t) PROVE seen' \in SUBSET (Files \X Contents) /\ count' \in Nat /\ bytes' \in Nat
    <2>1. /\ seen' = seen \cup {<<capture[t].path, capture[t].digest>>}
          /\ count' = count + 1 /\ bytes' = bytes + Size[capture[t].digest]
          /\ capture[t].path \in Files /\ capture[t].digest \in Contents
      BY <1>10, CountsTo DEF Book
    <2>2. Size[capture[t].digest] \in Nat
      BY <2>1, ArtifactsAssumption
    <2> QED
      BY <2>1, <2>2, TypesOf DEF ArtInv
  <1>11. CASE AgentFinishes
    BY <1>11, TypesOf DEF ArtInv, AgentFinishes, books
  <1>12. CASE Embed
    BY <1>12, TypesOf DEF ArtInv, Embed, books
  <1>13. CASE Interrupted
    BY <1>13, TypesOf DEF ArtInv, Interrupted, books
  <1>14. CASE TaskEnds
    BY <1>14, TypesOf DEF ArtInv, TaskEnds, books
  <1>15. CASE WorkerDies
    BY <1>15 DEF WorkerDies
  <1>16. ASSUME NEW k \in Ids, ExpireBytes(k) PROVE seen' \in SUBSET (Files \X Contents) /\ count' \in Nat /\ bytes' \in Nat
    BY <1>16, TypesOf DEF ArtInv, ExpireBytes, books
  <1>17. ASSUME NEW k \in Ids, ExpireRow(k) PROVE seen' \in SUBSET (Files \X Contents) /\ count' \in Nat /\ bytes' \in Nat
    BY <1>17, TypesOf DEF ArtInv, ExpireRow, books
  <1>18. CASE UNCHANGED artVars
    BY <1>18, TypesOf DEF ArtInv, artVars, books
  <1> QED
    BY <1>1, <1>2, <1>3, <1>4, <1>5, <1>6, <1>7, <1>8, <1>9, <1>10, <1>11, <1>12, <1>13, <1>14, <1>15, <1>16, <1>17, <1>18 DEF ArtNext, HarvestStep

LEMMA ArtifactTypesStep ==
  ASSUME ArtInv, [ArtNext]_artVars PROVE artifact' \in [Ids -> Stores]
  <1>1. ASSUME NEW p \in Files, WritesFile(p) PROVE artifact' \in [Ids -> Stores]
    BY <1>1, TypesOf DEF ArtInv, WritesFile, store
  <1>2. ASSUME NEW t \in Checkpoints, Checkpoint(t) PROVE artifact' \in [Ids -> Stores]
    BY <1>2, TypesOf DEF ArtInv, Checkpoint, store
  <1>3. ASSUME NEW t \in Harvesters, EnterFinal(t) PROVE artifact' \in [Ids -> Stores]
    BY <1>3, TypesOf DEF ArtInv, EnterFinal, store
  <1>4. ASSUME NEW t \in Harvesters, Discover(t) PROVE artifact' \in [Ids -> Stores]
    BY <1>4, TypesOf DEF ArtInv, Discover, store
  <1>5. ASSUME NEW t \in Harvesters, Pick(t) PROVE artifact' \in [Ids -> Stores]
    BY <1>5, PickTo, TypesOf DEF ArtInv
  <1>6. ASSUME NEW t \in Harvesters, EndHarvest(t) PROVE artifact' \in [Ids -> Stores]
    BY <1>6, TypesOf DEF ArtInv, EndHarvest, store
  <1>7. ASSUME NEW t \in Harvesters, StoreBytes(t) PROVE artifact' \in [Ids -> Stores]
    BY <1>7, StoreBytesTo
  <1>8. ASSUME NEW t \in Harvesters, InsertRow(t) PROVE artifact' \in [Ids -> Stores]
    BY <1>8, InsertRowTo
  <1>9. ASSUME NEW t \in Harvesters, RollBack(t) PROVE artifact' \in [Ids -> Stores]
    BY <1>9, RollBackTo
  <1>10. ASSUME NEW t \in Harvesters, CountAndAnnounce(t) PROVE artifact' \in [Ids -> Stores]
    BY <1>10, CountsTo, TypesOf DEF ArtInv
  <1>11. CASE AgentFinishes
    BY <1>11, TypesOf DEF ArtInv, AgentFinishes, store
  <1>12. CASE Embed
    BY <1>12, TypesOf DEF ArtInv, Embed, store
  <1>13. CASE Interrupted
    BY <1>13, TypesOf DEF ArtInv, Interrupted, store
  <1>14. CASE TaskEnds
    BY <1>14, TypesOf DEF ArtInv, TaskEnds, store
  <1>15. CASE WorkerDies
    BY <1>15, TypesOf DEF ArtInv, WorkerDies, store
  <1>16. ASSUME NEW k \in Ids, ExpireBytes(k) PROVE artifact' \in [Ids -> Stores]
    BY <1>16, TypesOf, StoresOf, KeepsTo DEF ArtInv, ExpireBytes
  <1>17. ASSUME NEW k \in Ids, ExpireRow(k) PROVE artifact' \in [Ids -> Stores]
    BY <1>17, TypesOf, StoresOf, KeepsTo DEF ArtInv, ExpireRow
  <1>18. CASE UNCHANGED artVars
    BY <1>18, TypesOf DEF ArtInv, artVars, store
  <1> QED
    BY <1>1, <1>2, <1>3, <1>4, <1>5, <1>6, <1>7, <1>8, <1>9, <1>10, <1>11, <1>12, <1>13, <1>14, <1>15, <1>16, <1>17, <1>18 DEF ArtNext, HarvestStep

LEMMA ToldTypes ==
  ASSUME ArtInv, [ArtNext]_artVars PROVE torn' \subseteq Ids /\ announced' \subseteq Ids /\ embedded' \subseteq Ids /\ expired' \subseteq Ids
  <1>1. ASSUME NEW p \in Files, WritesFile(p) PROVE torn' \subseteq Ids /\ announced' \subseteq Ids /\ embedded' \subseteq Ids /\ expired' \subseteq Ids
    BY <1>1, TypesOf DEF ArtInv, WritesFile, store, told
  <1>2. ASSUME NEW t \in Checkpoints, Checkpoint(t) PROVE torn' \subseteq Ids /\ announced' \subseteq Ids /\ embedded' \subseteq Ids /\ expired' \subseteq Ids
    BY <1>2, TypesOf DEF ArtInv, Checkpoint, store, told
  <1>3. ASSUME NEW t \in Harvesters, EnterFinal(t) PROVE torn' \subseteq Ids /\ announced' \subseteq Ids /\ embedded' \subseteq Ids /\ expired' \subseteq Ids
    BY <1>3, TypesOf DEF ArtInv, EnterFinal, store, told
  <1>4. ASSUME NEW t \in Harvesters, Discover(t) PROVE torn' \subseteq Ids /\ announced' \subseteq Ids /\ embedded' \subseteq Ids /\ expired' \subseteq Ids
    BY <1>4, TypesOf DEF ArtInv, Discover, store, told
  <1>5. ASSUME NEW t \in Harvesters, Pick(t) PROVE torn' \subseteq Ids /\ announced' \subseteq Ids /\ embedded' \subseteq Ids /\ expired' \subseteq Ids
    BY <1>5, PickTo, TypesOf DEF ArtInv
  <1>6. ASSUME NEW t \in Harvesters, EndHarvest(t) PROVE torn' \subseteq Ids /\ announced' \subseteq Ids /\ embedded' \subseteq Ids /\ expired' \subseteq Ids
    BY <1>6, TypesOf DEF ArtInv, EndHarvest, store, told
  <1>7. ASSUME NEW t \in Harvesters, StoreBytes(t) PROVE torn' \subseteq Ids /\ announced' \subseteq Ids /\ embedded' \subseteq Ids /\ expired' \subseteq Ids
    BY <1>7, StoreBytesTo, TypesOf DEF ArtInv
  <1>8. ASSUME NEW t \in Harvesters, InsertRow(t) PROVE torn' \subseteq Ids /\ announced' \subseteq Ids /\ embedded' \subseteq Ids /\ expired' \subseteq Ids
    <2>1. torn' \subseteq torn \cup {Holding(t)} /\ UNCHANGED <<announced, embedded, expired>>
      BY <1>8, InsertRowTo
    <2>2. Holding(t) \in Ids
      BY <1>8, InsertRowTo DEF Book, Holding
    <2> QED
      BY <2>1, <2>2, TypesOf DEF ArtInv
  <1>9. ASSUME NEW t \in Harvesters, RollBack(t) PROVE torn' \subseteq Ids /\ announced' \subseteq Ids /\ embedded' \subseteq Ids /\ expired' \subseteq Ids
    BY <1>9, RollBackTo, TypesOf DEF ArtInv
  <1>10. ASSUME NEW t \in Harvesters, CountAndAnnounce(t) PROVE torn' \subseteq Ids /\ announced' \subseteq Ids /\ embedded' \subseteq Ids /\ expired' \subseteq Ids
    <2>1. announced' \subseteq announced \cup {capture[t].id} /\ UNCHANGED <<torn, embedded, expired>>
      BY <1>10, CountsTo
    <2>2. capture[t].id \in Ids
      BY <1>10, CountsTo DEF Book
    <2> QED
      BY <2>1, <2>2, TypesOf DEF ArtInv
  <1>11. CASE AgentFinishes
    BY <1>11, TypesOf DEF ArtInv, AgentFinishes, store, told
  <1>12. CASE Embed
    <2>1. embedded' \subseteq Ids
      BY <1>12, EmbedTo DEF Rows
    <2> QED
      BY <1>12, <2>1, TypesOf DEF ArtInv, Embed, store
  <1>13. CASE Interrupted
    BY <1>13, TypesOf DEF ArtInv, Interrupted, store, told
  <1>14. CASE TaskEnds
    BY <1>14, TypesOf DEF ArtInv, TaskEnds, store, told
  <1>15. CASE WorkerDies
    BY <1>15, TypesOf DEF ArtInv, WorkerDies, store
  <1>16. ASSUME NEW k \in Ids, ExpireBytes(k) PROVE torn' \subseteq Ids /\ announced' \subseteq Ids /\ embedded' \subseteq Ids /\ expired' \subseteq Ids
    BY <1>16, TypesOf DEF ArtInv, ExpireBytes, told
  <1>17. ASSUME NEW k \in Ids, ExpireRow(k) PROVE torn' \subseteq Ids /\ announced' \subseteq Ids /\ embedded' \subseteq Ids /\ expired' \subseteq Ids
    BY <1>17, TypesOf DEF ArtInv, ExpireRow, told
  <1>18. CASE UNCHANGED artVars
    BY <1>18, TypesOf DEF ArtInv, artVars, store, told
  <1> QED
    BY <1>1, <1>2, <1>3, <1>4, <1>5, <1>6, <1>7, <1>8, <1>9, <1>10, <1>11, <1>12, <1>13, <1>14, <1>15, <1>16, <1>17, <1>18 DEF ArtNext, HarvestStep

\* The parts together.
LEMMA ArtTypeStep ==
  ASSUME ArtInv, [ArtNext]_artVars PROVE ArtTypeOK'
  <1>1. Ids' = Ids /\ Harvesters' = Harvesters /\ Captures' = Captures /\ Stores' = Stores
    BY DEF Ids, Harvesters, Captures, Stores, Capturing, Resting
  <1>2. {mutex', finalOwner'} \subseteq Harvesters \cup {Nothing}
    BY LockTypes
  <1>3. torn' \cup announced' \cup embedded' \cup expired' \subseteq Ids
    BY ToldTypes
  <1>4. seen' \subseteq Files \X Contents
    BY BookTypes
  <1> QED
    BY <1>1, <1>2, <1>3, <1>4, StepTypes, FileTypes, CaptureTypes, LockTypes, ShortfallTypes, BookTypes,
       ArtifactTypesStep DEF ArtTypeOK

-----------------------------------------------------------------------------
(* The theorems.                                                           *)

\* The first state.
LEMMA ArtInvInit ==
  ASSUME ArtInit PROVE ArtInv
  <1> USE ArtifactsAssumption DEF ArtInit
  <1>1. NoCapture \in Captures /\ NoCapture.at = "idle"
    BY AsksTo
  <1>2. capture \in [Harvesters -> Captures] /\ \A t \in Harvesters : capture[t].at = "idle"
    BY <1>1
  <1>3. /\ artifact \in [Ids -> Stores]
        /\ \A i \in Ids : ~artifact[i].row /\ artifact[i].bytes = FALSE
    BY DEF NoArtifact, Stores
  <1>4. ArtTypeOK
    <2>1. torn \cup announced \cup embedded \cup expired \subseteq Ids /\ seen \subseteq Files \X Contents
      OBVIOUS
    <2>2. attempt \in 1..MaxRuns
      OBVIOUS
    <2> QED
      BY <1>2, <1>3, <2>1, <2>2 DEF ArtTypeOK
  <1>5. Serialized /\ OneFinal /\ Stages /\ Held /\ Covered
    BY <1>2, ThreadsOf DEF Serialized, OneFinal, Stages, Held, Covered, Capturing, Holds, Harvesters
  <1>6. InStore
    BY <1>3 DEF InStore, RowsHaveBytes, AnnouncedStored, EmbeddedStored, RetentionLeaksNothing, ContentOnce, Rows
  <1>7. SeenStored /\ CaptureBounded /\ FinalComplete
    BY DEF SeenStored, CaptureBounded, FinalComplete
  <1> QED
    BY <1>4, <1>5, <1>6, <1>7 DEF ArtInv

\* The invariant: what a thread of a harvest holds, what the locks keep apart,
\* and what the store has for each announced, embedded and seen artifact, in
\* every state of ArtifactManager, the store and retention.
THEOREM ArtifactInvariant == ArtSpec => []ArtInv
  <1>1. ArtInv /\ [ArtNext]_artVars => ArtInv'
    BY ArtTypeStep, SerializedStep, OneFinalStep, StagesStep, HeldStep, InStoreStep, SeenStep, BoundedStep,
       CoveredStep, FinalStep DEF ArtInv
  <1> QED
    BY <1>1, ArtInvInit, PTL DEF ArtSpec

\* What clients were told of and what the report shows can be fetched until
\* retention deletes it, retention leaves no bytes behind, and a final harvest
\* that knows of no omission has every good file in the store (put,
\* final_harvest, cleanup_old_artifacts): for any files, quotas, threads,
\* failures and restarts of the task.
THEOREM ArtifactsAlwaysKept == ArtSpec => []ArtifactsKept
  <1>1. ArtInv => ArtifactsKept
    BY DEF ArtInv, InStore, ArtifactsKept
  <1> QED
    BY <1>1, ArtifactInvariant, PTL

\* However captures interleave, the lock of ArtifactManager keeps a content
\* from being stored twice and a run from exceeding its quotas.
THEOREM CapturesAlwaysSerialized == ArtSpec => []CapturesSerialized
  <1>1. ArtInv => CapturesSerialized
    BY DEF ArtInv, InStore, CapturesSerialized
  <1> QED
    BY <1>1, ArtifactInvariant, PTL
=============================================================================
