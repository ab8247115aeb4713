---------------------------- MODULE JobAdmission ----------------------------
(***************************************************************************)
(* Admission of deep-research jobs: submit_agent_job (jobs/submit.py) on   *)
(* any number of API replicas, the reservation tables it shares with them  *)
(* (jobs/admission.py, jobs/access.py), NAT's job_info, the fencing check  *)
(* of the worker (jobs/runner.py) and the periodic cleanup.                *)
(*                                                                         *)
(* A submission is known by its opaque token.  Each database transaction   *)
(* is one action.  Clocks are replaced by ages that Tick moves: how long   *)
(* ago a row was admitted and how long its reservation still lasts.        *)
(* JobStore.submit_job is external: it inserts job_info, which fails on a  *)
(* taken id, and then hands the task to Dask.                              *)
(***************************************************************************)
EXTENDS Naturals, FiniteSets

CONSTANTS
  Submissions,  \* calls of submit_agent_job, each with a token of its own
  Jobs, JobOf,  \* job ids, and the one each submission asks for
  Owners, OwnerOf,
  MaxGlobal,    \* AIQ_MAX_ACTIVE_DEEP_RESEARCH_JOBS_GLOBAL
  MaxPerOwner,  \* AIQ_MAX_ACTIVE_DEEP_RESEARCH_JOBS_PER_PRINCIPAL
  MaxRate,      \* AIQ_MAX_DEEP_RESEARCH_SUBMISSIONS_PER_MINUTE
  Ttl,          \* DEFAULT_RESERVATION_TTL_SECONDS, in ticks
  Window,       \* _RATE_WINDOW_SECONDS, in ticks
  Timely,       \* no submission in flight is delayed past its reservation
  None

ASSUME AdmissionAssumption ==
  /\ JobOf \in [Submissions -> Jobs]
  /\ OwnerOf \in [Submissions -> Owners]
  /\ {MaxGlobal, MaxPerOwner, MaxRate, Ttl} \subseteq Nat \ {0}
  /\ Window \in Nat
  /\ Timely \in BOOLEAN
  /\ IsFiniteSet(Jobs)

VARIABLES
  admission,  \* deep_research_admission: per job id a row or None
  access,     \* job_access: per job id a row or None
  info,       \* job_info: per job id a row or None
  pc,         \* where each submission is
  lease,      \* its renewal task
  task        \* its Dask task: "none", "queued", or "fenced" (past the check)

vars == <<admission, access, info, pc, lease, task>>

-----------------------------------------------------------------------------
\* admission rows: the token, ticks since admitted_at (no longer counted
\* once outside the window), ticks left until reservation_expires_at.
Reservation == [token : Submissions, age : 0..(Window + 1), left : 0..Ttl]

\* access rows: the token, whose owner the row names, and its expiry.
Ownership == [token : Submissions, left : 0..Ttl]

\* job_info rows: the submission that created it, and the status.
JobRow == [by : Submissions, status : {"submitted", "running", "terminal", "expired"}]

ASSUME NoneAssumption == None \notin Reservation \union Ownership \union JobRow

\* new, reserved (admission row), submitting (access row; NAT called),
\* created (job_info row), enqueued; then accepted, rejected or failed.
\* releasing, undo: the access row, then the admission row is given back.
InFlight == {"reserved", "submitting", "created", "enqueued"}
PCs == {"new", "releasing", "undo", "accepted", "rejected", "failed"} \union InFlight

TypeOK ==
  /\ admission \in [Jobs -> Reservation \union {None}]
  /\ access \in [Jobs -> Ownership \union {None}]
  /\ info \in [Jobs -> JobRow \union {None}]
  /\ pc \in [Submissions -> PCs]
  /\ lease \in [Submissions -> {"off", "idle", "half", "halfLost", "lost"}]
  /\ task \in [Submissions -> {"none", "queued", "fenced"}]

Init ==
  /\ admission = [j \in Jobs |-> None]
  /\ access = [j \in Jobs |-> None]
  /\ info = [j \in Jobs |-> None]
  /\ pc = [s \in Submissions |-> "new"]
  /\ lease = [s \in Submissions |-> "off"]
  /\ task = [s \in Submissions |-> "none"]

-----------------------------------------------------------------------------
(* The queries.                                                            *)

Live(j) == info[j] # None /\ info[j].status \in {"submitted", "running"}
Over(j) == info[j] # None /\ info[j].status \in {"terminal", "expired"}

HasToken(table, s) == table[JobOf[s]] # None /\ table[JobOf[s]].token = s

\* _CLEANUP_RESERVATIONS_SQL keeps a row inside the rate window, of a job
\* that is not over, or, before there is one, of a live reservation.
Cleaned ==
  [j \in Jobs |->
     IF /\ admission[j] # None
        /\ admission[j].age > Window
        /\ Over(j) \/ (info[j] = None /\ admission[j].left = 0)
     THEN None ELSE admission[j]]

\* Mutant: only jobs that exist are counted, not reservations for new ones.
ReservedLive(t, j) == t[j] # None /\ Live(j)

\* _COUNT_ACTIVE_GLOBAL_SQL and _COUNT_ACTIVE_FOR_OWNER_SQL over table t.
Reserved(t, j) == t[j] # None /\ (Live(j) \/ (info[j] = None /\ t[j].left > 0))
ActiveGlobal(t) == {j \in Jobs : Reserved(t, j) \/ Live(j)}
ActiveFor(t, o) ==
  {j \in Jobs :
     \/ Reserved(t, j) /\ OwnerOf[t[j].token] = o
     \/ Live(j) /\ access[j] # None /\ OwnerOf[access[j].token] = o}

\* _COUNT_RECENT_SQL.
RecentFor(t, o) ==
  {j \in Jobs : t[j] # None /\ t[j].age <= Window /\ OwnerOf[t[j].token] = o}

Admissible(t, o) ==
  /\ Cardinality(RecentFor(t, o)) < MaxRate
  /\ Cardinality(ActiveFor(t, o)) < MaxPerOwner
  /\ Cardinality(ActiveGlobal(t)) < MaxGlobal

-----------------------------------------------------------------------------
(* submit_agent_job.                                                       *)

\* reserve_deep_research_job, one serialized transaction: clean up, count,
\* insert.  A conflict rolls the cleanup back, a rejection commits it.
Reserve(s) ==
  LET j == JobOf[s]
      row == [token |-> s, age |-> 0, left |-> Ttl]
  IN /\ pc[s] = "new"
     /\ \/ /\ Admissible(Cleaned, OwnerOf[s])
           /\ Cleaned[j] = None
           /\ admission' = [Cleaned EXCEPT ![j] = row]
           /\ pc' = [pc EXCEPT ![s] = "reserved"]
        \/ /\ Admissible(Cleaned, OwnerOf[s])
           /\ Cleaned[j] # None
           /\ pc' = [pc EXCEPT ![s] = "rejected"]
           /\ UNCHANGED admission
        \/ /\ ~Admissible(Cleaned, OwnerOf[s])
           /\ admission' = Cleaned
           /\ pc' = [pc EXCEPT ![s] = "rejected"]
     /\ UNCHANGED <<access, info, lease, task>>

\* create_job_access with a submission token: reclaim an expired row that
\* never got a job, refuse an id that has a job or a row, insert.  The lease
\* task starts with success.  A store error may come after the commit, so
\* both rows are given back, after a conflict only the admission row.
CreateAccess(s) ==
  LET j == JobOf[s]
      free == info[j] = None /\ (access[j] # None => access[j].left = 0)
      inserted == [access EXCEPT ![j] = [token |-> s, left |-> Ttl]]
  IN /\ pc[s] = "reserved"
     /\ \/ /\ free
           /\ access' = inserted
           /\ pc' = [pc EXCEPT ![s] = "submitting"]
           /\ lease' = [lease EXCEPT ![s] = "idle"]
        \/ /\ ~free
           /\ pc' = [pc EXCEPT ![s] = "undo"]
           /\ UNCHANGED <<access, lease>>
        \/ /\ access' \in {access} \union (IF free THEN {inserted} ELSE {})
           /\ pc' = [pc EXCEPT ![s] = "releasing"]
           /\ UNCHANGED lease
     /\ UNCHANGED <<admission, info, task>>

\* Mutant: rows are released by job id, whoever holds them.
WithoutJob(table, s) == [table EXCEPT ![JobOf[s]] = None]

Without(table, s) ==
  [j \in Jobs |-> IF j = JobOf[s] /\ HasToken(table, s) THEN None ELSE table[j]]

\* _release_submission_reservations: release_job_access_reservation, then
\* release_deep_research_job_reservation, each by token.  When the first
\* fails the second is still made.
ReleaseAccess(s) ==
  /\ pc[s] = "releasing"
  /\ access' \in {access, Without(access, s)}
  /\ pc' = [pc EXCEPT ![s] = "undo"]
  /\ UNCHANGED <<admission, info, lease, task>>

ReleaseAdmission(s) ==
  /\ pc[s] = "undo"
  /\ admission' = Without(admission, s)
  /\ pc' = [pc EXCEPT ![s] = "rejected"]
  /\ UNCHANGED <<access, info, lease, task>>

\* JobStore._create_job: the primary key decides between two submissions.
CreateJob(s) ==
  LET j == JobOf[s]
  IN /\ pc[s] = "submitting"
     /\ IF info[j] = None
        THEN /\ info' = [info EXCEPT ![j] = [by |-> s, status |-> "submitted"]]
             /\ pc' = [pc EXCEPT ![s] = "created"]
             /\ UNCHANGED lease
        ELSE /\ pc' = [pc EXCEPT ![s] = "releasing"]
             /\ lease' = [lease EXCEPT ![s] = "off"]
             /\ UNCHANGED info
     /\ UNCHANGED <<admission, access, task>>

Enqueue(s) ==
  /\ pc[s] = "created"
  /\ task' = [task EXCEPT ![s] = "queued"]
  /\ pc' = [pc EXCEPT ![s] = "enqueued"]
  /\ UNCHANGED <<admission, access, info, lease>>

Accept(s) ==
  /\ pc[s] = "enqueued"
  /\ pc' = [pc EXCEPT ![s] = "accepted"]
  /\ lease' = [lease EXCEPT ![s] = "off"]
  /\ UNCHANGED <<admission, access, info, task>>

\* An error or a cancellation after the rows exist, the death of the API
\* process, or a release of the admission row that fails: what was written
\* stays.
Fail(s) ==
  /\ pc[s] \in InFlight \union {"releasing", "undo"}
  /\ pc' = [pc EXCEPT ![s] = "failed"]
  /\ lease' = [lease EXCEPT ![s] = "off"]
  /\ UNCHANGED <<admission, access, info, task>>

-----------------------------------------------------------------------------
(* _maintain_submission_lease: access first, then admission; a row that is *)
(* gone loses the lease and fails the submission (a store error: Fail).    *)

Renewed(table, s) ==
  IF HasToken(table, s) THEN [table EXCEPT ![JobOf[s]].left = Ttl] ELSE table

RenewAccess(s) ==
  /\ lease[s] = "idle"
  /\ access' = Renewed(access, s)
  /\ lease' = [lease EXCEPT ![s] = IF HasToken(access, s) THEN "half" ELSE "halfLost"]
  /\ UNCHANGED <<admission, info, pc, task>>

RenewAdmission(s) ==
  /\ lease[s] \in {"half", "halfLost"}
  /\ admission' = Renewed(admission, s)
  /\ lease' = [lease EXCEPT ![s] =
                 IF lease[s] = "half" /\ HasToken(admission, s) THEN "idle" ELSE "lost"]
  /\ UNCHANGED <<access, info, pc, task>>

LeaseLost(s) ==
  /\ lease[s] = "lost"
  /\ pc' = [pc EXCEPT ![s] = "failed"]
  /\ lease' = [lease EXCEPT ![s] = "off"]
  /\ UNCHANGED <<admission, access, info, task>>

-----------------------------------------------------------------------------
(* The worker and the periodic cleanup.                                    *)

\* run_agent_job: the admission token must still be current.  A check that
\* fails, and an encryption policy that does not match, reject the job too.
Fence(s) ==
  /\ task[s] = "queued"
  /\ \/ /\ HasToken(admission, s)
        /\ task' = [task EXCEPT ![s] = "fenced"]
        /\ UNCHANGED info
     \/ /\ task' = [task EXCEPT ![s] = "none"]
        /\ info' = [info EXCEPT ![JobOf[s]].status = "terminal"]
  /\ UNCHANGED <<admission, access, pc, lease>>

\* The RUNNING write.
Run(s) ==
  /\ task[s] = "fenced"
  /\ task' = [task EXCEPT ![s] = "none"]
  /\ info' = [info EXCEPT ![JobOf[s]].status = "running"]
  /\ UNCHANGED <<admission, access, pc, lease>>

JobEnds(j) ==
  /\ info[j] # None /\ info[j].status = "running"
  /\ info' = [info EXCEPT ![j].status = "terminal"]
  /\ UNCHANGED <<admission, access, pc, lease, task>>

\* JobStore.cleanup_expired_jobs marks finished jobs.
JobExpires(j) ==
  /\ info[j] # None /\ info[j].status = "terminal"
  /\ info' = [info EXCEPT ![j].status = "expired"]
  /\ UNCHANGED <<admission, access, pc, lease, task>>

\* Mutant: a row without a live job is garbage, its lease is not looked at.
CleanupAccessEagerly ==
  /\ access' = [j \in Jobs |->
       IF /\ access[j] # None
          /\ info[j] = None \/ info[j].status = "expired"
       THEN None ELSE access[j]]
  /\ UNCHANGED <<admission, info, pc, lease, task>>

\* cleanup_job_access; every row written here has a token.
CleanupAccess ==
  /\ access' = [j \in Jobs |->
       IF /\ access[j] # None
          /\ info[j] = None \/ info[j].status = "expired"
          /\ access[j].left = 0
       THEN None ELSE access[j]]
  /\ UNCHANGED <<admission, info, pc, lease, task>>

-----------------------------------------------------------------------------
(* Time.                                                                   *)

LeftOf(s, table) == IF HasToken(table, s) THEN table[JobOf[s]].left ELSE Ttl

\* A submission in flight whose rows the next tick would let expire.
Delayed(s) ==
  /\ pc[s] \in InFlight
  /\ LeftOf(s, admission) <= 1 \/ LeftOf(s, access) <= 1

Less(n) == IF n > 0 THEN n - 1 ELSE 0

Tick ==
  /\ Timely => \A s \in Submissions : ~Delayed(s)
  /\ admission' = [j \in Jobs |->
       IF admission[j] = None THEN None
       ELSE [admission[j] EXCEPT
               !.age = IF @ <= Window THEN @ + 1 ELSE @, !.left = Less(@)]]
  /\ access' = [j \in Jobs |->
       IF access[j] = None THEN None ELSE [access[j] EXCEPT !.left = Less(@)]]
  /\ UNCHANGED <<info, pc, lease, task>>

-----------------------------------------------------------------------------
SubmitSteps(s) ==
  \/ Reserve(s) \/ CreateAccess(s) \/ CreateJob(s) \/ Enqueue(s)
  \/ ReleaseAccess(s) \/ ReleaseAdmission(s) \/ Accept(s) \/ Fail(s)

LeaseSteps(s) == RenewAccess(s) \/ RenewAdmission(s) \/ LeaseLost(s)

Next ==
  \/ \E s \in Submissions : SubmitSteps(s) \/ LeaseSteps(s) \/ Fence(s) \/ Run(s)
  \/ \E j \in Jobs : JobEnds(j) \/ JobExpires(j)
  \/ CleanupAccess
  \/ Tick

\* No fairness: submissions, workers and cleanups may all stop.
Spec == Init /\ [][Next]_vars

-----------------------------------------------------------------------------
(* Properties.                                                             *)

LiveJobs == {j \in Jobs : Live(j)}

\* "Backend replicas ... cannot race past the configured capacity": there are
\* never more submitted or running jobs than the caps allow, for the
\* deployment and for each owner, although a slot is reserved before its job
\* exists and counted in two tables after.  (Holds of timely submissions.)
WithinCapacity ==
  /\ Cardinality(LiveJobs) <= MaxGlobal
  /\ \A o \in Owners :
       Cardinality({j \in LiveJobs : OwnerOf[info[j].by] = o}) <= MaxPerOwner

\* A running job has the access row of the submission that created it:
\* "Ownership is durable before Dask can run the task".  (Holds of timely
\* submissions; see the run "ownerless" for the others.)
RunsOwned ==
  \A j \in Jobs :
    info[j] # None /\ info[j].status = "running" =>
      access[j] # None /\ access[j].token = info[j].by

\* Until its job is over, nobody takes the rows of a timely submission in
\* flight: no cleanup, no colliding submission, no late release by token.
InFlightKeepsRows ==
  \A s \in Submissions : ~Over(JobOf[s]) =>
    /\ pc[s] \in InFlight => HasToken(admission, s)
    /\ pc[s] \in InFlight \ {"reserved"} => HasToken(access, s)

\* However delayed its submission was, a running job holds the admission
\* row, in the name of the submission that created it: a slot is not given
\* away under a running task.
RunsAdmitted ==
  \A j \in Jobs :
    info[j] # None /\ info[j].status = "running" =>
      admission[j] # None /\ admission[j].token = info[j].by
=============================================================================
