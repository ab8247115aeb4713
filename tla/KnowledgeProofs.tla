-------------------------- MODULE KnowledgeProofs --------------------------
(***************************************************************************)
(* What the six ingestion backends keep, for any jobs, numbers of files,   *)
(* deletions and failures.                                                 *)
(*                                                                         *)
(* Each backend has an inductive invariant of its own, and is followed     *)
(* alone first (the lemmas ...First and ...Step); the last part puts the    *)
(* results together for the choice of a backend that MCKnowledge makes.    *)
(***************************************************************************)
EXTENDS MCKnowledge, FiniteSetTheorems, SequenceTheorems, TLAPS

-----------------------------------------------------------------------------
(* Files, and what the backends share.                                     *)

Settled == {"SUCCESS", "FAILED"}
Places ==
  {"none", "new", "setup", "file", "insert", "inserting", "summary", "submit", "send",
   "bulk", "stamp", "manifests", "note", "upload", "check", "success", "fail", "undo",
   "queued", "create", "open", "answer", "failed", "done"}

\* TypeOK, in the form that steps preserve.
Typed ==
  /\ exists \in {"none", "active", "deleting"}
  /\ stored \in [Files -> {"none", "part", "all"}]
  /\ status \in [Files -> FileStates]
  /\ job \in [Jobs -> JobStates]
  /\ at \in [Jobs -> Places]
  /\ next \in [Jobs -> Nat] /\ \A j \in Jobs : next[j] \in 1..(Count[j] + 1)
  /\ harmed \subseteq Files
  /\ lost \subseteq Jobs

\* A file reported SUCCESS is searchable, or lost chunks to a deletion.
Searchable ==
  \A f \in Files : status[f] = "SUCCESS" /\ f \notin harmed => stored[f] = "all"

\* The step that OutcomeKept speaks of.
KeepsOutcome ==
  \A j \in Jobs : job[j] \in Ended =>
    \/ job'[j] = job[j] /\ \A f \in FilesOf(j) : status'[f] = status[f]
    \/ /\ job'[j] = "FAILED"
       /\ \/ backend = "opensearch" /\ \A f \in FilesOf(j) : status'[f] = "FAILED"
          \/ backend = "foundational_rag" /\ status' = status

\* A file is a pair of a job and a number, and belongs to that job alone.
LEMMA FilesAre ==
  /\ \A j \in Jobs : Count[j] \in Nat /\ Count[j] >= 1
  /\ \A f \in Files : /\ f[1] \in Jobs /\ f[2] \in 1..Count[f[1]]
                      /\ f \in FilesOf(f[1]) /\ f = <<f[1], f[2]>>
  /\ \A j \in Jobs : \A f \in FilesOf(j) : /\ f \in Files /\ f[1] = j
                                            /\ f[2] \in Nat /\ f[2] >= 1 /\ f[2] <= Count[j]
  /\ \A j \in Jobs : \A i \in 1..Count[j] : <<j, i>> \in FilesOf(j)
BY CountAssumption DEF Files, FilesOf

LEMMA NoFile == <<>> \notin Files
BY DEF Files, FilesOf

\* A worker is always at one of the places.
LEMMA GoesTo ==
  ASSUME at \in [Jobs -> Places], NEW j \in Jobs, NEW pc \in Places, Goes(j, pc)
  PROVE  at' \in [Jobs -> Places]
BY DEF Goes

\* The file that the worker of a job is at.
LEMMA FileHere ==
  ASSUME Typed, NEW j \in Jobs, HasFile(j)
  PROVE  /\ File(j) \in Files /\ File(j) \in FilesOf(j)
         /\ File(j)[1] = j /\ File(j)[2] = next[j]
         /\ \A f \in FilesOf(j) : f[2] = next[j] => f = File(j)
BY FilesAre DEF Typed, HasFile, File

\* A file behind the worker that goes on was behind it before, or is the
\* one it leaves; what is then at or before it was before it.
LEMMA GoesOn ==
  ASSUME Typed, NEW j \in Jobs, HasFile(j), next'[j] = next[j] + 1
  PROVE  \A f \in FilesOf(j) : /\ f[2] < next'[j] => f[2] < next[j] \/ f = File(j)
                               /\ f[2] >= next'[j] => f[2] > next[j]
<1> SUFFICES ASSUME NEW f \in FilesOf(j)
             PROVE  /\ f[2] < next[j] + 1 => f[2] < next[j] \/ f = File(j)
                    /\ f[2] >= next[j] + 1 => f[2] > next[j]
  OBVIOUS
<1>1. f[2] \in Nat /\ next[j] \in Nat
  BY FilesAre DEF Typed
<1>2. f[2] = next[j] => f = File(j)
  BY FileHere
<1> QED
  BY <1>1, <1>2

\* Sets that a function matches element by element have the same size.
LEMMA SameSize ==
  ASSUME NEW S, NEW T, IsFiniteSet(S), NEW g \in [S -> T],
         \A x, y \in S : g[x] = g[y] => x = y,
         \A t \in T : \E x \in S : g[x] = t
  PROVE  IsFiniteSet(T) /\ Cardinality(T) = Cardinality(S)
<1>1. g \in Bijection(S, T)
  BY DEF Bijection, Injection, IsInjective, Surjection
<1>2. ExistsBijection(S, T)
  BY <1>1 DEF ExistsBijection
<1> QED
  BY <1>2, FS_Bijection

LEMMA FilesCount ==
  ASSUME NEW j \in Jobs
  PROVE  IsFiniteSet(FilesOf(j)) /\ Cardinality(FilesOf(j)) = Count[j]
<1>1. Count[j] \in Nat
  BY FilesAre
<1>2. IsFiniteSet(1..Count[j]) /\ Cardinality(1..Count[j]) = Count[j]
  BY <1>1, FS_Interval, SMTT(30)
<1> DEFINE pair == [i \in 1..Count[j] |-> <<j, i>>]
<1>3. pair \in [1..Count[j] -> FilesOf(j)]
  BY FilesAre
<1>4. \A x, y \in 1..Count[j] : pair[x] = pair[y] => x = y
  OBVIOUS
<1>5. \A f \in FilesOf(j) : \E i \in 1..Count[j] : pair[i] = f
  BY DEF FilesOf
<1> HIDE DEF pair
<1> QED
  BY <1>2, <1>3, <1>4, <1>5, SameSize, ZenonT(40)

LEMMA NextTyped ==
  ASSUME Typed, NEW j \in Jobs, HasFile(j),
         next' = next \/ next' = [next EXCEPT ![j] = @ + 1]
  PROVE  next' \in [Jobs -> Nat] /\ \A k \in Jobs : next'[k] \in 1..(Count[k] + 1)
<1>1. next' \in [Jobs -> Nat]
  BY DEF Typed
<1>2. ASSUME NEW k \in Jobs PROVE next'[k] \in 1..(Count[k] + 1)
  <2>1. next[k] \in 1..(Count[k] + 1) /\ Count[k] \in Nat
    BY FilesAre DEF Typed
  <2>2. next'[k] = next[k] \/ (k = j /\ next'[k] = next[k] + 1)
    BY DEF Typed
  <2> QED
    BY <2>1, <2>2 DEF HasFile
<1> QED
  BY <1>1, <1>2

\* What the steps of others, and deletions, may do to job k: they leave it
\* alone, or take chunks of its files and say so.
Apart(k) ==
  /\ at'[k] = at[k] /\ next'[k] = next[k] /\ job'[k] = job[k]
  /\ \A f \in FilesOf(k) : /\ status'[f] = status[f]
                           /\ stored'[f] = stored[f] \/ f \in harmed'
                           /\ f \in harmed => f \in harmed'

LEMMA ApartKeeps ==
  ASSUME NEW j \in Jobs, \A k \in Jobs \ {j} : Apart(k), job[j] \notin Ended
  PROVE  KeepsOutcome
BY DEF Apart, KeepsOutcome

LEMMA AllApart == (\A k \in Jobs : Apart(k)) => KeepsOutcome
BY DEF Apart, KeepsOutcome

\* A deletion.
LEMMA LoseApart ==
  ASSUME Typed, NEW fs \in SUBSET Files, Lose(fs), UNCHANGED <<status, job, at, next>>
  PROVE  /\ \A k \in Jobs : Apart(k)
         /\ \A f \in Files : stored'[f] = IF f \in fs THEN "none" ELSE stored[f]
         /\ exists' \in {"none", "active", "deleting"} /\ (lost' = lost \/ lost' \subseteq Jobs)
              => Typed'
         /\ Searchable => Searchable'
<1>1. \A k \in Jobs : Apart(k)
  BY FilesAre DEF Typed, Lose, Apart
<1>2. stored' \in [Files -> {"none", "part", "all"}] /\ harmed' \subseteq Files
  BY DEF Typed, Lose
<1>3. exists' \in {"none", "active", "deleting"} /\ (lost' = lost \/ lost' \subseteq Jobs)
        => Typed'
  BY <1>2 DEF Typed
<1>4. \A f \in Files : stored'[f] = IF f \in fs THEN "none" ELSE stored[f]
  BY DEF Lose
<1>5. Searchable => Searchable'
  BY DEF Typed, Lose, Searchable
<1> QED
  BY <1>1, <1>3, <1>4, <1>5

\* A submission touches its own job, which nobody knows yet.
LEMMA RegistersApart ==
  ASSUME Typed, NEW j \in Jobs, NEW pc \in Places, Registers(j, pc)
  PROVE  /\ Typed' /\ job[j] = "none" /\ job'[j] = "PENDING" /\ at'[j] = pc
         /\ \A k \in Jobs \ {j} : Apart(k)
         /\ Searchable => Searchable'
<1> USE FilesAre DEF Typed, Registers
<1>1. job[j] = "none" /\ job'[j] = "PENDING" /\ at'[j] = pc
  BY DEF JobBecomes, Goes
<1>2. Typed'
  BY DEF JobBecomes, Goes, Become, JobStates, FileStates
<1>3. \A k \in Jobs \ {j} : Apart(k)
  BY DEF JobBecomes, Goes, Become, Apart
<1>4. Searchable => Searchable'
  BY DEF Become, Searchable
<1> QED
  BY <1>1, <1>2, <1>3, <1>4

LEMMA NothingApart ==
  ASSUME Typed, NEW j \in Jobs, NothingToDo(j)
  PROVE  /\ Typed' /\ job[j] = "none" /\ job'[j] = "FAILED" /\ at'[j] = "done"
         /\ \A k \in Jobs \ {j} : Apart(k)
         /\ Searchable => Searchable'
<1> USE FilesAre DEF Typed, NothingToDo
<1>1. job[j] = "none" /\ job'[j] = "FAILED" /\ at'[j] = "done"
  BY DEF JobBecomes, Goes
<1>2. Typed'
  BY DEF JobBecomes, Goes, JobStates, Places
<1>3. \A k \in Jobs \ {j} : Apart(k)
  BY DEF JobBecomes, Goes, Apart
<1>4. Searchable => Searchable'
  BY DEF Searchable
<1> QED
  BY <1>1, <1>2, <1>3, <1>4

-----------------------------------------------------------------------------
(* LlamaIndex.                                                             *)

LlamaTyped == handle \in [Jobs -> {"none", "held", "lost"}] /\ bound \subseteq Jobs

\* Where the worker of a job is, and what it knows of the files behind it
\* and of the one in its hands.
LlamaJob(j) ==
  /\ \/ at[j] \in {"none", "new", "setup", "file", "insert", "inserting", "summary"}
     \/ at[j] = "done" /\ job[j] \in Ended
  /\ at[j] = "none" => job[j] = "none" /\ next[j] = 1
  /\ at[j] = "new" => job[j] = "PENDING"
  /\ at[j] \in {"setup", "file", "insert", "inserting", "summary"} => job[j] = "PROCESSING"
  /\ at[j] \in {"insert", "inserting", "summary"} => HasFile(j)
  /\ job[j] = "COMPLETED" => ~HasFile(j)
  /\ \A f \in FilesOf(j) :
       /\ f[2] < next[j] => status[f] \in Settled
       /\ f[2] = next[j] /\ at[j] = "inserting" => stored[f] # "none" \/ f \in harmed
       /\ f[2] = next[j] /\ at[j] = "summary" => stored[f] = "all" \/ f \in harmed

\* A worker that holds its collection finds it there, so that it writes
\* nothing into one that is gone.
LlamaInv ==
  /\ Typed /\ LlamaTyped
  /\ exists # "deleting"
  /\ \A j \in Jobs : handle[j] = "held" => exists = "active"
  /\ \A j \in Jobs : LlamaJob(j)
  /\ Searchable
  /\ GoneIsEmpty

LEMMA LlamaFirst == KnowledgeInit /\ LlamaInit => LlamaInv
<1> SUFFICES ASSUME KnowledgeInit, LlamaInit PROVE LlamaInv
  OBVIOUS
<1>1. Typed /\ LlamaTyped
  BY FilesAre DEF KnowledgeInit, LlamaInit, LlamaTyped, Typed, JobStates, FileStates, Places
<1>2. \A j \in Jobs : LlamaJob(j)
  BY FilesAre DEF KnowledgeInit, LlamaJob
<1> QED
  BY <1>1, <1>2 DEF KnowledgeInit, LlamaInit, LlamaInv, Searchable, GoneIsEmpty

LEMMA LlamaApart ==
  ASSUME NEW k \in Jobs, LlamaJob(k), Apart(k)
  PROVE  LlamaJob(k)'
BY FilesAre DEF LlamaJob, Apart, HasFile

LEMMA LlamaWorkerStep ==
  ASSUME LlamaInv, NEW j \in Jobs, LlamaWorker(j)
  PROVE  LlamaInv' /\ KeepsOutcome
<1> USE FilesAre DEF LlamaInv, LlamaTyped, Typed
<1>0. HasFile(j) =>
        /\ File(j) \in Files /\ File(j) \in FilesOf(j)
        /\ File(j)[1] = j /\ File(j)[2] = next[j]
        /\ \A f \in FilesOf(j) : f[2] = next[j] => f = File(j)
  BY FileHere
<1>1. ASSUME LlamaStart(j) PROVE LlamaInv' /\ KeepsOutcome
  <2>0. at' \in [Jobs -> Places] /\ exists' \in {"none", "active"}
    BY <1>0, <1>1 DEF LlamaStart, Goes, JobBecomes, LlamaJob, HasFile, JobStates, FileStates, Places
  <2>1. Typed' /\ LlamaTyped' /\ exists' # "deleting"
    BY <2>0, <1>0, <1>1 DEF LlamaStart, Goes, JobBecomes, LlamaJob, HasFile, JobStates, FileStates
  <2>2. \A k \in Jobs \ {j} : Apart(k)
    BY <1>0, <1>1 DEF LlamaStart, Goes, JobBecomes, LlamaJob, HasFile, Apart
  <2>3. job[j] \notin Ended
    BY <1>1 DEF LlamaStart, LlamaJob, Ended
  <2>4. LlamaJob(j)'
    BY <1>0, <1>1 DEF LlamaStart, Goes, JobBecomes, LlamaJob, HasFile, Settled, Ended
  <2>5. \A k \in Jobs : handle'[k] = "held" => exists' = "active"
    BY <1>0, <1>1 DEF LlamaStart
  <2>6. Searchable' /\ GoneIsEmpty'
    BY <1>0, <1>1 DEF LlamaStart, LlamaJob, HasFile, Searchable, GoneIsEmpty
  <2> QED
    BY <2>1, <2>2, <2>3, <2>4, <2>5, <2>6, ApartKeeps, LlamaApart
<1>2. ASSUME LlamaSetup(j) PROVE LlamaInv' /\ KeepsOutcome
  <2>0. at' \in [Jobs -> Places] /\ exists' \in {"none", "active"}
    BY <1>0, <1>2 DEF LlamaSetup, Goes, JobBecomes, LlamaJob, HasFile, JobStates, FileStates, Places
  <2>1. Typed' /\ LlamaTyped' /\ exists' # "deleting"
    BY <2>0, <1>0, <1>2 DEF LlamaSetup, Goes, JobBecomes, LlamaJob, HasFile, JobStates, FileStates
  <2>2. \A k \in Jobs \ {j} : Apart(k)
    BY <1>0, <1>2 DEF LlamaSetup, Goes, JobBecomes, LlamaJob, HasFile, Apart
  <2>3. job[j] \notin Ended
    BY <1>2 DEF LlamaSetup, LlamaJob, Ended
  <2>4. LlamaJob(j)'
    BY <1>0, <1>2 DEF LlamaSetup, Goes, JobBecomes, LlamaJob, HasFile, Settled, Ended
  <2>5. \A k \in Jobs : handle'[k] = "held" => exists' = "active"
    BY <1>0, <1>2 DEF LlamaSetup
  <2>6. Searchable' /\ GoneIsEmpty'
    BY <1>0, <1>2 DEF LlamaSetup, LlamaJob, HasFile, Searchable, GoneIsEmpty
  <2> QED
    BY <2>1, <2>2, <2>3, <2>4, <2>5, <2>6, ApartKeeps, LlamaApart
<1>3. ASSUME LlamaSetupFails(j) PROVE LlamaInv' /\ KeepsOutcome
  <2>0. at' \in [Jobs -> Places] /\ exists' \in {"none", "active"}
    BY <1>0, <1>3 DEF LlamaSetupFails, Goes, JobBecomes, LlamaJob, HasFile, JobStates, FileStates, Places
  <2>1. Typed' /\ LlamaTyped' /\ exists' # "deleting"
    BY <2>0, <1>0, <1>3 DEF LlamaSetupFails, Goes, JobBecomes, LlamaJob, HasFile, JobStates, FileStates
  <2>2. \A k \in Jobs \ {j} : Apart(k)
    BY <1>0, <1>3 DEF LlamaSetupFails, Goes, JobBecomes, LlamaJob, HasFile, Apart
  <2>3. job[j] \notin Ended
    BY <1>3 DEF LlamaSetupFails, LlamaJob, Ended
  <2>4. LlamaJob(j)'
    BY <1>0, <1>3 DEF LlamaSetupFails, Goes, JobBecomes, LlamaJob, HasFile, Settled, Ended
  <2>5. \A k \in Jobs : handle'[k] = "held" => exists' = "active"
    BY <1>0, <1>3 DEF LlamaSetupFails
  <2>6. Searchable' /\ GoneIsEmpty'
    BY <1>0, <1>3 DEF LlamaSetupFails, LlamaJob, HasFile, Searchable, GoneIsEmpty
  <2> QED
    BY <2>1, <2>2, <2>3, <2>4, <2>5, <2>6, ApartKeeps, LlamaApart
<1>4. ASSUME LlamaBegins(j) PROVE LlamaInv' /\ KeepsOutcome
  <2>0. at' \in [Jobs -> Places] /\ exists' \in {"none", "active"}
    BY <1>0, <1>4 DEF LlamaBegins, Become, Goes, JobBecomes, LlamaJob, HasFile, JobStates, FileStates, Places
  <2>1. Typed' /\ LlamaTyped' /\ exists' # "deleting"
    BY <2>0, <1>0, <1>4 DEF LlamaBegins, Become, Goes, JobBecomes, LlamaJob, HasFile, JobStates, FileStates
  <2>2. \A k \in Jobs \ {j} : Apart(k)
    BY <1>0, <1>4 DEF LlamaBegins, Become, Goes, JobBecomes, LlamaJob, HasFile, Apart
  <2>3. job[j] \notin Ended
    BY <1>4 DEF LlamaBegins, LlamaJob, Ended
  <2>4. LlamaJob(j)'
    BY <1>0, <1>4 DEF LlamaBegins, Become, Goes, JobBecomes, LlamaJob, HasFile, Settled, Ended
  <2>5. \A k \in Jobs : handle'[k] = "held" => exists' = "active"
    BY <1>0, <1>4 DEF LlamaBegins
  <2>6. Searchable' /\ GoneIsEmpty'
    BY <1>0, <1>4 DEF LlamaBegins, Become, LlamaJob, HasFile, Searchable, GoneIsEmpty
  <2> QED
    BY <2>1, <2>2, <2>3, <2>4, <2>5, <2>6, ApartKeeps, LlamaApart
<1>5. ASSUME InsertsSome(j) PROVE LlamaInv' /\ KeepsOutcome
  <2>0. at' \in [Jobs -> Places] /\ exists' \in {"none", "active"}
    BY <1>0, <1>5 DEF InsertsSome, StoreSome, CanInsert, Goes, JobBecomes, LlamaJob, HasFile, JobStates, FileStates, Places
  <2>1. Typed' /\ LlamaTyped' /\ exists' # "deleting"
    BY <2>0, <1>0, <1>5 DEF InsertsSome, StoreSome, CanInsert, Goes, JobBecomes, LlamaJob, HasFile, JobStates, FileStates
  <2>2. \A k \in Jobs \ {j} : Apart(k)
    BY <1>0, <1>5 DEF InsertsSome, StoreSome, CanInsert, Goes, JobBecomes, LlamaJob, HasFile, Apart
  <2>3. job[j] \notin Ended
    BY <1>5 DEF InsertsSome, LlamaJob, Ended
  <2>4. LlamaJob(j)'
    BY <1>0, <1>5 DEF InsertsSome, StoreSome, CanInsert, Goes, JobBecomes, LlamaJob, HasFile, Settled, Ended
  <2>5. \A k \in Jobs : handle'[k] = "held" => exists' = "active"
    BY <1>0, <1>5 DEF InsertsSome
  <2>6. Searchable' /\ GoneIsEmpty'
    BY <1>0, <1>5 DEF InsertsSome, StoreSome, CanInsert, LlamaJob, HasFile, Searchable, GoneIsEmpty
  <2> QED
    BY <2>1, <2>2, <2>3, <2>4, <2>5, <2>6, ApartKeeps, LlamaApart
<1>6. ASSUME InsertsRest(j) PROVE LlamaInv' /\ KeepsOutcome
  <2>0. at' \in [Jobs -> Places] /\ exists' \in {"none", "active"}
    BY <1>0, <1>6 DEF InsertsRest, StoreRest, Become, Binds, Goes, JobBecomes, LlamaJob, HasFile, JobStates, FileStates, Places
  <2>1. Typed' /\ LlamaTyped' /\ exists' # "deleting"
    BY <2>0, <1>0, <1>6 DEF InsertsRest, StoreRest, Become, Binds, Goes, JobBecomes, LlamaJob, HasFile, JobStates, FileStates
  <2>2. \A k \in Jobs \ {j} : Apart(k)
    BY <1>0, <1>6 DEF InsertsRest, StoreRest, Become, Binds, Goes, JobBecomes, LlamaJob, HasFile, Apart
  <2>3. job[j] \notin Ended
    BY <1>6 DEF InsertsRest, LlamaJob, Ended
  <2>4. LlamaJob(j)'
    BY <1>0, <1>6 DEF InsertsRest, StoreRest, Become, Binds, Goes, JobBecomes, LlamaJob, HasFile, Settled, Ended
  <2>5. \A k \in Jobs : handle'[k] = "held" => exists' = "active"
    BY <1>0, <1>6 DEF InsertsRest
  <2>6. Searchable' /\ GoneIsEmpty'
    BY <1>0, <1>6 DEF InsertsRest, StoreRest, Become, Binds, LlamaJob, HasFile, Searchable, GoneIsEmpty
  <2> QED
    BY <2>1, <2>2, <2>3, <2>4, <2>5, <2>6, ApartKeeps, LlamaApart
<1>7. ASSUME InsertsNothing(j) PROVE LlamaInv' /\ KeepsOutcome
  <2>0. at' \in [Jobs -> Places] /\ exists' \in {"none", "active"}
    BY <1>0, <1>7 DEF InsertsNothing, FileEnds, Become, Binds, Goes, JobBecomes, LlamaJob, HasFile, JobStates, FileStates, Places
  <2>1. Typed' /\ LlamaTyped' /\ exists' # "deleting"
    BY <2>0, <1>0, <1>7 DEF InsertsNothing, FileEnds, Become, Binds, Goes, JobBecomes, LlamaJob, HasFile, JobStates, FileStates
  <2>2. \A k \in Jobs \ {j} : Apart(k)
    BY <1>0, <1>7 DEF InsertsNothing, FileEnds, Become, Binds, Goes, JobBecomes, LlamaJob, HasFile, Apart
  <2>3. job[j] \notin Ended
    BY <1>7 DEF InsertsNothing, LlamaJob, Ended
  <2>3a. next'[j] = next[j] + 1 /\ HasFile(j)
    BY <1>0, <1>7 DEF InsertsNothing, LlamaJob, HasFile, FileEnds
  <2>3b. \A f \in FilesOf(j) : f[2] < next'[j] => f[2] < next[j] \/ f = File(j)
    BY <2>3a, GoesOn
  <2>4. LlamaJob(j)'
    BY <2>3a, <2>3b, <1>0, <1>7 DEF InsertsNothing, FileEnds, Become, Binds, Goes, JobBecomes, LlamaJob, HasFile, Settled, Ended
  <2>5. \A k \in Jobs : handle'[k] = "held" => exists' = "active"
    BY <1>0, <1>7 DEF InsertsNothing
  <2>6. Searchable' /\ GoneIsEmpty'
    BY <1>0, <1>7 DEF InsertsNothing, FileEnds, Become, Binds, LlamaJob, HasFile, Searchable, GoneIsEmpty
  <2> QED
    BY <2>1, <2>2, <2>3, <2>4, <2>5, <2>6, ApartKeeps, LlamaApart
<1>8. ASSUME LlamaFileFails(j) PROVE LlamaInv' /\ KeepsOutcome
  <2>0. at' \in [Jobs -> Places] /\ exists' \in {"none", "active"}
    BY <1>0, <1>8 DEF LlamaFileFails, FileEnds, Become, Goes, JobBecomes, LlamaJob, HasFile, JobStates, FileStates, Places
  <2>1. Typed' /\ LlamaTyped' /\ exists' # "deleting"
    BY <2>0, <1>0, <1>8 DEF LlamaFileFails, FileEnds, Become, Goes, JobBecomes, LlamaJob, HasFile, JobStates, FileStates
  <2>2. \A k \in Jobs \ {j} : Apart(k)
    BY <1>0, <1>8 DEF LlamaFileFails, FileEnds, Become, Goes, JobBecomes, LlamaJob, HasFile, Apart
  <2>3. job[j] \notin Ended
    BY <1>8 DEF LlamaFileFails, LlamaJob, Ended
  <2>3a. next'[j] = next[j] + 1 /\ HasFile(j)
    BY <1>0, <1>8 DEF LlamaFileFails, LlamaJob, HasFile, FileEnds
  <2>3b. \A f \in FilesOf(j) : f[2] < next'[j] => f[2] < next[j] \/ f = File(j)
    BY <2>3a, GoesOn
  <2>4. LlamaJob(j)'
    BY <2>3a, <2>3b, <1>0, <1>8 DEF LlamaFileFails, FileEnds, Become, Goes, JobBecomes, LlamaJob, HasFile, Settled, Ended
  <2>5. \A k \in Jobs : handle'[k] = "held" => exists' = "active"
    BY <1>0, <1>8 DEF LlamaFileFails
  <2>6. Searchable' /\ GoneIsEmpty'
    BY <1>0, <1>8 DEF LlamaFileFails, FileEnds, Become, LlamaJob, HasFile, Searchable, GoneIsEmpty
  <2> QED
    BY <2>1, <2>2, <2>3, <2>4, <2>5, <2>6, ApartKeeps, LlamaApart
<1>9. ASSUME LlamaSummaryKept(j) PROVE LlamaInv' /\ KeepsOutcome
  <2>0. at' \in [Jobs -> Places] /\ exists' \in {"none", "active"}
    BY <1>0, <1>9 DEF LlamaSummaryKept, FileEnds, Become, Goes, JobBecomes, LlamaJob, HasFile, JobStates, FileStates, Places
  <2>1. Typed' /\ LlamaTyped' /\ exists' # "deleting"
    BY <2>0, <1>0, <1>9 DEF LlamaSummaryKept, FileEnds, Become, Goes, JobBecomes, LlamaJob, HasFile, JobStates, FileStates
  <2>2. \A k \in Jobs \ {j} : Apart(k)
    BY <1>0, <1>9 DEF LlamaSummaryKept, FileEnds, Become, Goes, JobBecomes, LlamaJob, HasFile, Apart
  <2>3. job[j] \notin Ended
    BY <1>9 DEF LlamaSummaryKept, LlamaJob, Ended
  <2>3a. next'[j] = next[j] + 1 /\ HasFile(j)
    BY <1>0, <1>9 DEF LlamaSummaryKept, LlamaJob, HasFile, FileEnds
  <2>3b. \A f \in FilesOf(j) : f[2] < next'[j] => f[2] < next[j] \/ f = File(j)
    BY <2>3a, GoesOn
  <2>4. LlamaJob(j)'
    BY <2>3a, <2>3b, <1>0, <1>9 DEF LlamaSummaryKept, FileEnds, Become, Goes, JobBecomes, LlamaJob, HasFile, Settled, Ended
  <2>5. \A k \in Jobs : handle'[k] = "held" => exists' = "active"
    BY <1>0, <1>9 DEF LlamaSummaryKept
  <2>6. Searchable' /\ GoneIsEmpty'
    BY <1>0, <1>9 DEF LlamaSummaryKept, FileEnds, Become, LlamaJob, HasFile, Searchable, GoneIsEmpty
  <2> QED
    BY <2>1, <2>2, <2>3, <2>4, <2>5, <2>6, ApartKeeps, LlamaApart
<1>10. ASSUME LlamaEnds(j) PROVE LlamaInv' /\ KeepsOutcome
  <2>0. at' \in [Jobs -> Places] /\ exists' \in {"none", "active"}
    BY <1>0, <1>10 DEF LlamaEnds, Goes, JobBecomes, LlamaJob, HasFile, JobStates, FileStates, Places
  <2>1. Typed' /\ LlamaTyped' /\ exists' # "deleting"
    BY <2>0, <1>0, <1>10 DEF LlamaEnds, Goes, JobBecomes, LlamaJob, HasFile, JobStates, FileStates
  <2>2. \A k \in Jobs \ {j} : Apart(k)
    BY <1>0, <1>10 DEF LlamaEnds, Goes, JobBecomes, LlamaJob, HasFile, Apart
  <2>3. job[j] \notin Ended
    BY <1>10 DEF LlamaEnds, LlamaJob, Ended
  <2>4. LlamaJob(j)'
    BY <1>0, <1>10 DEF LlamaEnds, Goes, JobBecomes, LlamaJob, HasFile, Settled, Ended
  <2>5. \A k \in Jobs : handle'[k] = "held" => exists' = "active"
    BY <1>0, <1>10 DEF LlamaEnds
  <2>6. Searchable' /\ GoneIsEmpty'
    BY <1>0, <1>10 DEF LlamaEnds, LlamaJob, HasFile, Searchable, GoneIsEmpty
  <2> QED
    BY <2>1, <2>2, <2>3, <2>4, <2>5, <2>6, ApartKeeps, LlamaApart
<1> QED
  BY <1>1, <1>2, <1>3, <1>4, <1>5, <1>6, <1>7, <1>8, <1>9, <1>10 DEF LlamaWorker

LEMMA LlamaSubmitStep ==
  ASSUME LlamaInv, NEW j \in Jobs, LlamaSubmit(j), UNCHANGED <<handle, bound>>
  PROVE  LlamaInv' /\ KeepsOutcome
<1> USE DEF LlamaInv
<1>1. UNCHANGED <<exists, stored, next>>
  BY DEF LlamaSubmit, Registers, NothingToDo
<1>2. job[j] = "none" /\ Typed' /\ Searchable' /\ \A k \in Jobs \ {j} : Apart(k)
  BY RegistersApart, NothingApart DEF LlamaSubmit, Places
<1>3. LlamaJob(j) /\ job[j] = "none"
  BY <1>2
<1>4. LlamaJob(j)'
  <2>1. CASE Registers(j, "new")
    <3>1. at'[j] = "new" /\ job'[j] = "PENDING" /\ next'[j] = 1
      BY <1>1, <1>3, <2>1, RegistersApart DEF LlamaJob, Places, Ended
    <3> QED
      BY <3>1, FilesAre DEF LlamaJob
  <2>2. CASE NothingToDo(j)
    <3>1. at'[j] = "done" /\ job'[j] = "FAILED" /\ next'[j] = 1
      BY <1>1, <1>3, <2>2, NothingApart DEF LlamaJob, Ended
    <3> QED
      BY <3>1, FilesAre DEF LlamaJob, Ended
  <2> QED
    BY <2>1, <2>2 DEF LlamaSubmit
<1> QED
  BY <1>1, <1>2, <1>4, ApartKeeps, LlamaApart DEF LlamaTyped, GoneIsEmpty, Ended

LEMMA LlamaDeletes ==
  ASSUME LlamaInv,
         \/ LlamaCreateCollection \/ LlamaDeleteCollection
         \/ \E f \in Files : LlamaDeleteFile(f)
  PROVE  LlamaInv' /\ KeepsOutcome
<1> USE DEF LlamaInv
<1>1. CASE LlamaCreateCollection
  <2>1. \A k \in Jobs : Apart(k)
    BY <1>1 DEF LlamaCreateCollection, Apart
  <2> QED
    BY <1>1, <2>1, AllApart, LlamaApart
    DEF LlamaCreateCollection, Typed, LlamaTyped, Searchable, GoneIsEmpty
<1>2. ASSUME LlamaDeleteCollection PROVE LlamaInv' /\ KeepsOutcome
  <2>1. Lose(Files) /\ UNCHANGED <<status, job, at, next, lost>> /\ exists' = "none"
    BY <1>2 DEF LlamaDeleteCollection
  <2>2. /\ \A k \in Jobs : Apart(k)
        /\ \A f \in Files : stored'[f] = "none"
        /\ Typed' /\ Searchable'
    BY <2>1, LoseApart
  <2>3. LlamaTyped' /\ \A k \in Jobs : handle'[k] # "held"
    BY <1>2 DEF LlamaDeleteCollection, LlamaTyped
  <2> QED
    BY <2>1, <2>2, <2>3, AllApart, LlamaApart DEF GoneIsEmpty
<1>3. ASSUME NEW f \in Files, LlamaDeleteFile(f) PROVE LlamaInv' /\ KeepsOutcome
  <2>1. /\ Lose(Namesakes(f)) /\ UNCHANGED <<status, job, at, next, lost, handle, bound>>
        /\ exists = "active" /\ exists' = "active"
    BY <1>3 DEF LlamaDeleteFile
  <2>2. (\A k \in Jobs : Apart(k)) /\ Typed' /\ Searchable'
    BY <2>1, LoseApart DEF Namesakes
  <2> QED
    BY <2>1, <2>2, AllApart, LlamaApart DEF GoneIsEmpty, LlamaTyped
<1> QED
  BY <1>1, <1>2, <1>3

LEMMA LlamaStep == LlamaInv /\ LlamaNext => LlamaInv' /\ KeepsOutcome
BY LlamaWorkerStep, LlamaSubmitStep, LlamaDeletes DEF LlamaNext

LEMMA LlamaRests == LlamaInv /\ UNCHANGED <<base, handle, bound>> => LlamaInv'
BY DEF LlamaInv, base, Typed, LlamaTyped, LlamaJob, HasFile, Searchable, GoneIsEmpty

LEMMA LlamaTruthful == LlamaInv => MCTruthful
<1> SUFFICES ASSUME LlamaInv, NEW j \in Jobs, job[j] = "COMPLETED", NEW f \in FilesOf(j)
             PROVE  /\ status[f] \in {"SUCCESS", "FAILED"}
                    /\ status[f] = "SUCCESS" /\ f \notin harmed => stored[f] = "all"
  BY DEF MCTruthful, TruthfulBut
<1>1. ~HasFile(j)
  BY DEF LlamaInv, LlamaJob
<1>2. f[2] < next[j]
  BY <1>1, FilesAre DEF LlamaInv, Typed, HasFile
<1> QED
  BY <1>2, FilesAre DEF LlamaInv, LlamaJob, Settled, Searchable

-----------------------------------------------------------------------------
(* OpenSearch.                                                             *)

OpenTyped ==
  /\ mode \in {"local", "dask", "auto"}
  /\ dask \subseteq Jobs
  /\ result \in [Files -> {"none", "SUCCESS", "FAILED"}]
  /\ losses \in [Jobs -> 0..Losses]

\* The files behind a thread are settled, those behind a Dask task are so in
\* its result; the result of a task says of a file what its chunks bear out.
OpenJob(j) ==
  /\ \/ at[j] \in {"none", "submit", "send", "new", "setup", "file", "bulk", "summary"}
     \/ at[j] \in {"stamp", "done"} /\ job[j] \in Ended
  /\ at[j] = "none" => job[j] = "none"
  /\ at[j] \in {"none", "submit", "send", "new"} => next[j] = 1 /\ j \notin dask
  /\ at[j] = "submit" => job[j] = "PENDING"
  /\ at[j] = "new" => job[j] \in {"PENDING", "PROCESSING"}
  /\ at[j] \in {"send", "setup", "file", "bulk", "summary"} => job[j] = "PROCESSING"
  /\ at[j] \in {"bulk", "summary"} => HasFile(j)
  /\ at[j] = "summary" => j \notin dask
  /\ \A f \in FilesOf(j) :
       /\ job[j] = "COMPLETED" => status[f] \in Settled
       /\ f[2] < next[j] => IF j \in dask THEN result[f] \in Settled
                                          ELSE status[f] \in Settled
       /\ result[f] = "SUCCESS" => stored[f] = "all" \/ f \in harmed
       /\ f[2] = next[j] /\ at[j] = "bulk" => stored[f] # "none" \/ f \in harmed
       /\ f[2] = next[j] /\ at[j] = "summary" => stored[f] = "all" \/ f \in harmed

OpenInv ==
  /\ Typed /\ OpenTyped
  /\ exists # "deleting"
  /\ \A j \in Jobs : OpenJob(j)
  /\ Searchable
  /\ GoneIsEmpty

LEMMA OpenFirst == KnowledgeInit /\ OpenSearchInit => OpenInv
<1> SUFFICES ASSUME KnowledgeInit, OpenSearchInit PROVE OpenInv
  OBVIOUS
<1>1. Typed
  BY FilesAre DEF KnowledgeInit, Typed, JobStates, FileStates, Places
<1>2. OpenTyped
  BY FilesAre, LossesAssumption DEF OpenSearchInit, OpenTyped
<1>3. \A j \in Jobs : OpenJob(j)
  BY FilesAre DEF KnowledgeInit, OpenSearchInit, OpenJob
<1> QED
  BY <1>1, <1>2, <1>3 DEF KnowledgeInit, OpenInv, Searchable, GoneIsEmpty

\* The other jobs keep their task and its result, too.
OpenApart(k) ==
  /\ Apart(k)
  /\ k \in dask' <=> k \in dask
  /\ \A f \in FilesOf(k) : result'[f] = result[f]

LEMMA OpenApartKeeps ==
  ASSUME NEW k \in Jobs, OpenJob(k), OpenApart(k)
  PROVE  OpenJob(k)'
BY FilesAre DEF OpenJob, OpenApart, Apart, HasFile

\* A step of a worker or of its death, as far as the invariant is concerned.
OpenStepOf(j) ==
  /\ Typed' /\ OpenTyped' /\ exists' # "deleting"
  /\ \A k \in Jobs \ {j} : OpenApart(k)
  /\ OpenJob(j)'
  /\ Searchable' /\ GoneIsEmpty'

LEMMA OpenStepKeeps ==
  ASSUME OpenInv, NEW j \in Jobs, OpenStepOf(j)
  PROVE  OpenInv' /\ (job[j] \notin Ended => KeepsOutcome)
<1>1. \A k \in Jobs : OpenJob(k)'
  BY OpenApartKeeps DEF OpenInv, OpenStepOf
<1>2. job[j] \notin Ended => KeepsOutcome
  BY ApartKeeps DEF OpenStepOf, OpenApart
<1> QED
  BY <1>1, <1>2 DEF OpenInv, OpenStepOf

LEMMA OpenWorkerStep ==
  ASSUME OpenInv, backend = "opensearch", NEW j \in Jobs,
         OpenSearchWorker(j) \/ DaskWorkerDies(j)
  PROVE  OpenInv' /\ KeepsOutcome
<1> USE FilesAre, LossesAssumption DEF OpenInv, OpenTyped, Typed, osVars
<1>0. HasFile(j) =>
        /\ File(j) \in Files /\ File(j) \in FilesOf(j)
        /\ File(j)[1] = j /\ File(j)[2] = next[j]
        /\ \A f \in FilesOf(j) : f[2] = next[j] => f = File(j)
  BY FileHere
<1>00. \A st : Verdict(st, j) \in Ended /\ (Verdict(st, j) = "FAILED" \/ Verdict(st, j) = "COMPLETED")
  BY DEF Verdict, Ended
<1>1. ASSUME DaskStart(j) PROVE OpenInv' /\ KeepsOutcome
  <2>1. at' \in [Jobs -> Places] /\ exists' \in {"none", "active"}
    BY <1>1 DEF DaskStart, Become, Goes, Places
  <2>2. Typed' /\ OpenTyped' /\ exists' # "deleting"
    BY <1>0, <2>1, <1>1 DEF DaskStart, Become, JobBecomes, OpenJob, HasFile, JobStates, FileStates, Ended
  <2>5. \A k \in Jobs \ {j} : OpenApart(k)
    BY <1>0, <1>1 DEF DaskStart, Become, Goes, JobBecomes, OpenJob, HasFile, OpenApart, Apart
  <2>6. OpenJob(j)'
    BY <1>0, <1>1 DEF DaskStart, Become, Goes, JobBecomes, OpenJob, HasFile, Settled, Ended
  <2>7. Searchable' /\ GoneIsEmpty'
    BY <1>0, <1>1 DEF DaskStart, Become, OpenJob, HasFile, Searchable, GoneIsEmpty
  <2>8. job[j] \notin Ended
    BY <1>1 DEF DaskStart, OpenJob, Ended
  <2> QED
    BY <2>2, <2>5, <2>6, <2>7, <2>8, OpenStepKeeps DEF OpenStepOf
<1>2. ASSUME DaskSent(j) PROVE OpenInv' /\ KeepsOutcome
  <2>1. at' \in [Jobs -> Places] /\ exists' \in {"none", "active"}
    BY <1>2 DEF DaskSent, Goes, Places
  <2>2. Typed' /\ OpenTyped' /\ exists' # "deleting"
    BY <1>0, <2>1, <1>2 DEF DaskSent, JobBecomes, OpenJob, HasFile, JobStates, FileStates, Ended
  <2>5. \A k \in Jobs \ {j} : OpenApart(k)
    BY <1>0, <1>2 DEF DaskSent, Goes, JobBecomes, OpenJob, HasFile, OpenApart, Apart
  <2>6. OpenJob(j)'
    BY <1>0, <1>2 DEF DaskSent, Goes, JobBecomes, OpenJob, HasFile, Settled, Ended
  <2>7. Searchable' /\ GoneIsEmpty'
    BY <1>0, <1>2 DEF DaskSent, OpenJob, HasFile, Searchable, GoneIsEmpty
  <2>8. job[j] \notin Ended
    BY <1>2 DEF DaskSent, OpenJob, Ended
  <2> QED
    BY <2>2, <2>5, <2>6, <2>7, <2>8, OpenStepKeeps DEF OpenStepOf
<1>3. ASSUME DaskNotSent(j) PROVE OpenInv' /\ KeepsOutcome
  <2>1. at' \in [Jobs -> Places] /\ exists' \in {"none", "active"}
    BY <1>3 DEF DaskNotSent, MarkJobFailed, Become, Goes, Places
  <2>2. Typed' /\ OpenTyped' /\ exists' # "deleting"
    BY <1>0, <2>1, <1>3 DEF DaskNotSent, MarkJobFailed, Become, JobBecomes, OpenJob, HasFile, JobStates, FileStates, Ended
  <2>5. \A k \in Jobs \ {j} : OpenApart(k)
    BY <1>0, <1>3 DEF DaskNotSent, MarkJobFailed, Become, Goes, JobBecomes, OpenJob, HasFile, OpenApart, Apart
  <2>6. OpenJob(j)'
    BY <1>0, <1>3 DEF DaskNotSent, MarkJobFailed, Become, Goes, JobBecomes, OpenJob, HasFile, Settled, Ended
  <2>7. Searchable' /\ GoneIsEmpty'
    BY <1>0, <1>3 DEF DaskNotSent, MarkJobFailed, Become, OpenJob, HasFile, Searchable, GoneIsEmpty
  <2>8. job[j] \notin Ended
    BY <1>3 DEF DaskNotSent, OpenJob, Ended
  <2> QED
    BY <2>2, <2>5, <2>6, <2>7, <2>8, OpenStepKeeps DEF OpenStepOf
<1>4. ASSUME LocalStart(j) PROVE OpenInv' /\ KeepsOutcome
  <2>1. at' \in [Jobs -> Places] /\ exists' \in {"none", "active"}
    BY <1>4 DEF LocalStart, Become, Goes, Places
  <2>2. Typed' /\ OpenTyped' /\ exists' # "deleting"
    BY <1>0, <2>1, <1>4 DEF LocalStart, Become, JobBecomes, OpenJob, HasFile, JobStates, FileStates, Ended
  <2>5. \A k \in Jobs \ {j} : OpenApart(k)
    BY <1>0, <1>4 DEF LocalStart, Become, Goes, JobBecomes, OpenJob, HasFile, OpenApart, Apart
  <2>6. OpenJob(j)'
    BY <1>0, <1>4 DEF LocalStart, Become, Goes, JobBecomes, OpenJob, HasFile, Settled, Ended
  <2>7. Searchable' /\ GoneIsEmpty'
    BY <1>0, <1>4 DEF LocalStart, Become, OpenJob, HasFile, Searchable, GoneIsEmpty
  <2>8. job[j] \notin Ended
    BY <1>4 DEF LocalStart, OpenJob, Ended
  <2> QED
    BY <2>2, <2>5, <2>6, <2>7, <2>8, OpenStepKeeps DEF OpenStepOf
<1>5. ASSUME EnsureIndex(j) PROVE OpenInv' /\ KeepsOutcome
  <2>1. at' \in [Jobs -> Places] /\ exists' \in {"none", "active"}
    BY <1>5 DEF EnsureIndex, Goes, Places
  <2>2. Typed' /\ OpenTyped' /\ exists' # "deleting"
    BY <1>0, <2>1, <1>5 DEF EnsureIndex, JobBecomes, OpenJob, HasFile, JobStates, FileStates, Ended
  <2>5. \A k \in Jobs \ {j} : OpenApart(k)
    BY <1>0, <1>5 DEF EnsureIndex, Goes, JobBecomes, OpenJob, HasFile, OpenApart, Apart
  <2>6. OpenJob(j)'
    BY <1>0, <1>5 DEF EnsureIndex, Goes, JobBecomes, OpenJob, HasFile, Settled, Ended
  <2>7. Searchable' /\ GoneIsEmpty'
    BY <1>0, <1>5 DEF EnsureIndex, OpenJob, HasFile, Searchable, GoneIsEmpty
  <2>8. job[j] \notin Ended
    BY <1>5 DEF EnsureIndex, OpenJob, Ended
  <2> QED
    BY <2>2, <2>5, <2>6, <2>7, <2>8, OpenStepKeeps DEF OpenStepOf
<1>6. ASSUME EnsureIndexFails(j) PROVE OpenInv' /\ KeepsOutcome
  <2>1. at' \in [Jobs -> Places] /\ exists' \in {"none", "active"}
    BY <1>6 DEF EnsureIndexFails, MarkJobFailed, Become, Goes, Places
  <2>2. Typed' /\ OpenTyped' /\ exists' # "deleting"
    BY <1>0, <2>1, <1>6 DEF EnsureIndexFails, MarkJobFailed, Become, JobBecomes, OpenJob, HasFile, JobStates, FileStates, Ended
  <2>5. \A k \in Jobs \ {j} : OpenApart(k)
    BY <1>0, <1>6 DEF EnsureIndexFails, MarkJobFailed, Become, Goes, JobBecomes, OpenJob, HasFile, OpenApart, Apart
  <2>6. OpenJob(j)'
    BY <1>0, <1>6 DEF EnsureIndexFails, MarkJobFailed, Become, Goes, JobBecomes, OpenJob, HasFile, Settled, Ended
  <2>7. Searchable' /\ GoneIsEmpty'
    BY <1>0, <1>6 DEF EnsureIndexFails, MarkJobFailed, Become, OpenJob, HasFile, Searchable, GoneIsEmpty
  <2>8. job[j] \notin Ended
    BY <1>6 DEF EnsureIndexFails, OpenJob, Ended
  <2> QED
    BY <2>2, <2>5, <2>6, <2>7, <2>8, OpenStepKeeps DEF OpenStepOf
<1>7. ASSUME BulkSome(j) PROVE OpenInv' /\ KeepsOutcome
  <2>1. at' \in [Jobs -> Places] /\ exists' \in {"none", "active"}
    BY <1>7 DEF BulkSome, StoreSome, Goes, Places
  <2>2. Typed' /\ OpenTyped' /\ exists' # "deleting"
    BY <1>0, <2>1, <1>7 DEF BulkSome, StoreSome, JobBecomes, OpenJob, HasFile, JobStates, FileStates, Ended
  <2>5. \A k \in Jobs \ {j} : OpenApart(k)
    BY <1>0, <1>7 DEF BulkSome, StoreSome, Goes, JobBecomes, OpenJob, HasFile, OpenApart, Apart
  <2>6. OpenJob(j)'
    BY <1>0, <1>7 DEF BulkSome, StoreSome, Goes, JobBecomes, OpenJob, HasFile, Settled, Ended
  <2>7. Searchable' /\ GoneIsEmpty'
    BY <1>0, <1>7 DEF BulkSome, StoreSome, OpenJob, HasFile, Searchable, GoneIsEmpty
  <2>8. job[j] \notin Ended
    BY <1>7 DEF BulkSome, OpenJob, Ended
  <2> QED
    BY <2>2, <2>5, <2>6, <2>7, <2>8, OpenStepKeeps DEF OpenStepOf
<1>8. ASSUME BulkRest(j) PROVE OpenInv' /\ KeepsOutcome
  <2>1. at' \in [Jobs -> Places] /\ exists' \in {"none", "active"}
    BY <1>8, SMTT(30) DEF BulkRest, Outcome, FileEnds, StoreRest, Become, Goes, Places
  <2>3. next'[j] = next[j] + 1 => HasFile(j)
    BY <1>8 DEF BulkRest, OpenJob
  <2>4. next'[j] = next[j] + 1 =>
          \A f \in FilesOf(j) : f[2] < next'[j] => f[2] < next[j] \/ f = File(j)
    BY <2>3, GoesOn
  <2>2a. HasFile(j) /\ (next' = next \/ next' = [next EXCEPT ![j] = @ + 1])
    BY <1>8 DEF BulkRest, Outcome, FileEnds, OpenJob
  <2>2b. next' \in [Jobs -> Nat] /\ \A k \in Jobs : next'[k] \in 1..(Count[k] + 1)
    BY <2>2a, NextTyped
  <2>2c. status' \in [Files -> FileStates] /\ stored' \in [Files -> {"none", "part", "all"}]
    BY <1>8, <2>2a, <1>0 DEF BulkRest, Outcome, FileEnds, StoreRest, Become, FileStates
  <2>2d. result' \in [Files -> {"none", "SUCCESS", "FAILED"}]
    BY <1>8, <2>2a, <1>0 DEF BulkRest, Outcome, FileEnds
  <2>2e. UNCHANGED <<job, harmed, lost, mode, dask, losses>>
    BY <1>8 DEF BulkRest
  <2>2. Typed' /\ OpenTyped' /\ exists' # "deleting"
    BY <2>1, <2>2b, <2>2c, <2>2d, <2>2e
  <2>5. \A k \in Jobs \ {j} : OpenApart(k)
    BY <1>0, <1>8 DEF BulkRest, Outcome, FileEnds, StoreRest, Become, Goes, JobBecomes, OpenJob, HasFile, OpenApart, Apart
  <2>6. OpenJob(j)'
    BY <1>0, <2>3, <2>4, <1>8 DEF BulkRest, Outcome, FileEnds, StoreRest, Become, Goes, JobBecomes, OpenJob, HasFile, Settled, Ended
  <2>7. Searchable' /\ GoneIsEmpty'
    BY <1>0, <1>8 DEF BulkRest, Outcome, FileEnds, StoreRest, Become, OpenJob, HasFile, Searchable, GoneIsEmpty
  <2>8. job[j] \notin Ended
    BY <1>8 DEF BulkRest, OpenJob, Ended
  <2> QED
    BY <2>2, <2>5, <2>6, <2>7, <2>8, OpenStepKeeps DEF OpenStepOf
<1>9. ASSUME OpenSearchFileFails(j) PROVE OpenInv' /\ KeepsOutcome
  <2>1. at' \in [Jobs -> Places] /\ exists' \in {"none", "active"}
    BY <1>9 DEF OpenSearchFileFails, Outcome, FileEnds, Become, Goes, Places
  <2>3. next'[j] = next[j] + 1 => HasFile(j)
    BY <1>9 DEF OpenSearchFileFails, OpenJob
  <2>4. next'[j] = next[j] + 1 =>
          \A f \in FilesOf(j) : f[2] < next'[j] => f[2] < next[j] \/ f = File(j)
    BY <2>3, GoesOn
  <2>2a. HasFile(j) /\ (next' = next \/ next' = [next EXCEPT ![j] = @ + 1])
    BY <1>9 DEF OpenSearchFileFails, Outcome, FileEnds, OpenJob
  <2>2b. next' \in [Jobs -> Nat] /\ \A k \in Jobs : next'[k] \in 1..(Count[k] + 1)
    BY <2>2a, NextTyped
  <2>2c. status' \in [Files -> FileStates] /\ stored' \in [Files -> {"none", "part", "all"}]
    BY <1>9, <2>2a, <1>0 DEF OpenSearchFileFails, Outcome, FileEnds, Become, FileStates
  <2>2d. result' \in [Files -> {"none", "SUCCESS", "FAILED"}]
    BY <1>9, <2>2a, <1>0 DEF OpenSearchFileFails, Outcome, FileEnds
  <2>2e. UNCHANGED <<job, harmed, lost, mode, dask, losses>>
    BY <1>9 DEF OpenSearchFileFails
  <2>2. Typed' /\ OpenTyped' /\ exists' # "deleting"
    BY <2>1, <2>2b, <2>2c, <2>2d, <2>2e
  <2>5. \A k \in Jobs \ {j} : OpenApart(k)
    BY <1>0, <1>9 DEF OpenSearchFileFails, Outcome, FileEnds, Become, Goes, JobBecomes, OpenJob, HasFile, OpenApart, Apart
  <2>6. OpenJob(j)'
    BY <1>0, <2>3, <2>4, <1>9 DEF OpenSearchFileFails, Outcome, FileEnds, Become, Goes, JobBecomes, OpenJob, HasFile, Settled, Ended
  <2>7. Searchable' /\ GoneIsEmpty'
    BY <1>0, <1>9 DEF OpenSearchFileFails, Outcome, FileEnds, Become, OpenJob, HasFile, Searchable, GoneIsEmpty
  <2>8. job[j] \notin Ended
    BY <1>9 DEF OpenSearchFileFails, OpenJob, Ended
  <2> QED
    BY <2>2, <2>5, <2>6, <2>7, <2>8, OpenStepKeeps DEF OpenStepOf
<1>10. ASSUME SummaryEnds(j) PROVE OpenInv' /\ KeepsOutcome
  <2>1. at' \in [Jobs -> Places] /\ exists' \in {"none", "active"}
    BY <1>10 DEF SummaryEnds, FileEnds, Become, Goes, Places
  <2>3. next'[j] = next[j] + 1 => HasFile(j)
    BY <1>10 DEF SummaryEnds, OpenJob
  <2>4. next'[j] = next[j] + 1 =>
          \A f \in FilesOf(j) : f[2] < next'[j] => f[2] < next[j] \/ f = File(j)
    BY <2>3, GoesOn
  <2>2a. next' \in [Jobs -> Nat] /\ \A k \in Jobs : next'[k] \in 1..(Count[k] + 1)
    BY <1>10, <1>0, <2>3 DEF SummaryEnds, FileEnds, Become, HasFile, OpenJob
  <2>2b. OpenTyped'
    BY <1>0, <1>10 DEF SummaryEnds, FileEnds, Become, OpenJob, HasFile
  <2>2. Typed' /\ OpenTyped' /\ exists' # "deleting"
    BY <1>0, <2>1, <2>2a, <2>2b, <1>10 DEF SummaryEnds, FileEnds, Become, JobBecomes, JobStates, FileStates
  <2>5. \A k \in Jobs \ {j} : OpenApart(k)
    BY <1>0, <1>10 DEF SummaryEnds, FileEnds, Become, Goes, JobBecomes, OpenJob, HasFile, OpenApart, Apart
  <2>6. OpenJob(j)'
    BY <1>0, <2>3, <2>4, <1>10 DEF SummaryEnds, FileEnds, Become, Goes, JobBecomes, OpenJob, HasFile, Settled, Ended
  <2>7. Searchable' /\ GoneIsEmpty'
    BY <1>0, <1>10 DEF SummaryEnds, FileEnds, Become, OpenJob, HasFile, Searchable, GoneIsEmpty
  <2>8. job[j] \notin Ended
    BY <1>10 DEF SummaryEnds, OpenJob, Ended
  <2> QED
    BY <2>2, <2>5, <2>6, <2>7, <2>8, OpenStepKeeps DEF OpenStepOf
<1>11. ASSUME LocalEnds(j) PROVE OpenInv' /\ KeepsOutcome
  <2>1. at' \in [Jobs -> Places] /\ exists' \in {"none", "active"}
    BY <1>11 DEF LocalEnds, Goes, Places
  <2>2. Typed' /\ OpenTyped' /\ exists' # "deleting"
    BY <1>0, <1>00, <2>1, <1>11 DEF LocalEnds, JobBecomes, OpenJob, HasFile, JobStates, FileStates, Ended
  <2>5. \A k \in Jobs \ {j} : OpenApart(k)
    BY <1>0, <1>11 DEF LocalEnds, Goes, JobBecomes, OpenJob, HasFile, OpenApart, Apart
  <2>6. OpenJob(j)'
    BY <1>0, <1>00, <1>11 DEF LocalEnds, Goes, JobBecomes, OpenJob, HasFile, Settled, Ended
  <2>7. Searchable' /\ GoneIsEmpty'
    BY <1>0, <1>11 DEF LocalEnds, OpenJob, HasFile, Searchable, GoneIsEmpty
  <2>8. job[j] \notin Ended
    BY <1>11 DEF LocalEnds, OpenJob, Ended
  <2> QED
    BY <2>2, <2>5, <2>6, <2>7, <2>8, OpenStepKeeps DEF OpenStepOf
<1>12. ASSUME ApplyResult(j) PROVE OpenInv' /\ KeepsOutcome
  <2>1. at' \in [Jobs -> Places] /\ exists' \in {"none", "active"}
    BY <1>12 DEF ApplyResult, Goes, Places
  <2>2. Typed' /\ OpenTyped' /\ exists' # "deleting"
    BY <1>0, <1>00, <2>1, <1>12 DEF ApplyResult, JobBecomes, OpenJob, HasFile, JobStates, FileStates, Ended
  <2>5. \A k \in Jobs \ {j} : OpenApart(k)
    BY <1>0, <1>12 DEF ApplyResult, Goes, JobBecomes, OpenJob, HasFile, OpenApart, Apart
  <2>6. OpenJob(j)'
    BY <1>0, <1>00, <1>12 DEF ApplyResult, Goes, JobBecomes, OpenJob, HasFile, Settled, Ended
  <2>7. Searchable' /\ GoneIsEmpty'
    BY <1>0, <1>12 DEF ApplyResult, OpenJob, HasFile, Searchable, GoneIsEmpty
  <2>8. job[j] \notin Ended
    BY <1>12 DEF ApplyResult, OpenJob, Ended
  <2> QED
    BY <2>2, <2>5, <2>6, <2>7, <2>8, OpenStepKeeps DEF OpenStepOf
<1>13. ASSUME StampCollection(j) PROVE OpenInv' /\ KeepsOutcome
  <2>1. at' \in [Jobs -> Places] /\ exists' \in {"none", "active"}
    BY <1>13 DEF StampCollection, MarkJobFailed, Become, Goes, Places
  <2>2. Typed' /\ OpenTyped' /\ exists' # "deleting"
    BY <1>0, <2>1, <1>13 DEF StampCollection, MarkJobFailed, Become, JobBecomes, OpenJob, HasFile, JobStates, FileStates, Ended
  <2>5. \A k \in Jobs \ {j} : OpenApart(k)
    BY <1>0, <1>13 DEF StampCollection, MarkJobFailed, Become, Goes, JobBecomes, OpenJob, HasFile, OpenApart, Apart
  <2>6. OpenJob(j)'
    BY <1>0, <1>13 DEF StampCollection, MarkJobFailed, Become, Goes, JobBecomes, OpenJob, HasFile, Settled, Ended
  <2>7. Searchable' /\ GoneIsEmpty'
    BY <1>0, <1>13 DEF StampCollection, MarkJobFailed, Become, OpenJob, HasFile, Searchable, GoneIsEmpty
  <2>8. KeepsOutcome
    BY <2>5, <1>13 DEF StampCollection, MarkJobFailed, Become, JobBecomes, KeepsOutcome, OpenApart, Apart
  <2> QED
    BY <2>2, <2>5, <2>6, <2>7, <2>8, OpenStepKeeps DEF OpenStepOf
<1>14. ASSUME DaskWorkerDies(j) PROVE OpenInv' /\ KeepsOutcome
  <2>1. at' \in [Jobs -> Places] /\ exists' \in {"none", "active"}
    BY <1>14 DEF DaskWorkerDies, MarkJobFailed, Become, Goes, Places
  <2>2a. next' \in [Jobs -> Nat] /\ \A k \in Jobs : next'[k] \in 1..(Count[k] + 1)
    BY <1>14, <1>0, SMTT(30) DEF DaskWorkerDies, MarkJobFailed, Become, HasFile, OpenJob
  <2>2b. OpenTyped'
    BY <1>0, <1>14 DEF DaskWorkerDies, MarkJobFailed, Become, OpenJob, HasFile
  <2>2. Typed' /\ OpenTyped' /\ exists' # "deleting"
    BY <1>0, <2>1, <2>2a, <2>2b, <1>14 DEF DaskWorkerDies, MarkJobFailed, Become, JobBecomes, JobStates, FileStates
  <2>5. \A k \in Jobs \ {j} : OpenApart(k)
    BY <1>0, <1>14 DEF DaskWorkerDies, MarkJobFailed, Become, Goes, JobBecomes, OpenJob, HasFile, OpenApart, Apart
  <2>6. OpenJob(j)'
    BY <1>0, <1>14 DEF DaskWorkerDies, MarkJobFailed, Become, Goes, JobBecomes, OpenJob, HasFile, Settled, Ended
  <2>7. Searchable' /\ GoneIsEmpty'
    BY <1>0, <1>14 DEF DaskWorkerDies, MarkJobFailed, Become, OpenJob, HasFile, Searchable, GoneIsEmpty
  <2>8. job[j] \notin Ended
    BY <1>14 DEF DaskWorkerDies, OpenJob, Ended
  <2> QED
    BY <2>2, <2>5, <2>6, <2>7, <2>8, OpenStepKeeps DEF OpenStepOf
<1> QED
  BY <1>1, <1>2, <1>3, <1>4, <1>5, <1>6, <1>7, <1>8, <1>9, <1>10, <1>11, <1>12, <1>13, <1>14 DEF OpenSearchWorker

LEMMA OpenSubmitStep ==
  ASSUME OpenInv, NEW j \in Jobs, OpenSearchSubmit(j)
  PROVE  OpenInv' /\ KeepsOutcome
<1> USE DEF OpenInv
<1>0. PICK pc \in {"new", "submit"} : Registers(j, pc) \/ NothingToDo(j)
  BY DEF OpenSearchSubmit
<1>1. UNCHANGED <<exists, stored, next, harmed, osVars>>
  BY <1>0 DEF OpenSearchSubmit, Registers, NothingToDo
<1>2. job[j] = "none" /\ Typed' /\ Searchable' /\ \A k \in Jobs \ {j} : Apart(k)
  BY <1>0, RegistersApart, NothingApart DEF Places
<1>3. OpenJob(j) /\ job[j] = "none"
  BY <1>2
<1>4. OpenJob(j)'
  <2>1. CASE Registers(j, pc)
    <3>1. at'[j] = pc /\ job'[j] = "PENDING" /\ next'[j] = 1 /\ j \notin dask'
      BY <1>1, <1>3, <2>1, RegistersApart DEF OpenJob, Places, Ended, osVars
    <3> QED
      BY <1>1, <1>3, <3>1, FilesAre DEF OpenJob, osVars
  <2>2. CASE NothingToDo(j)
    <3>1. at'[j] = "done" /\ job'[j] = "FAILED" /\ next'[j] = 1
      BY <1>1, <1>3, <2>2, NothingApart DEF OpenJob, Ended
    <3> QED
      BY <1>1, <1>3, <3>1, FilesAre DEF OpenJob, Ended, osVars
  <2> QED
    BY <1>0, <2>1, <2>2
<1>5. OpenStepOf(j)
  BY <1>1, <1>2, <1>4 DEF OpenStepOf, OpenApart, OpenTyped, GoneIsEmpty, osVars
<1> QED
  BY <1>2, <1>5, OpenStepKeeps DEF Ended

LEMMA OpenDeletes ==
  ASSUME OpenInv,
         \/ OpenSearchCreateCollection \/ OpenSearchDeleteCollection
         \/ \E f \in Files : OpenSearchDeleteFile(f)
  PROVE  OpenInv' /\ KeepsOutcome
<1> USE DEF OpenInv
<1>0. UNCHANGED <<dask, result, osVars>> /\ OpenTyped'
  BY DEF OpenSearchCreateCollection, OpenSearchDeleteCollection, OpenSearchDeleteFile, osVars,
         OpenTyped
<1>1. ASSUME \A k \in Jobs : Apart(k) PROVE (\A k \in Jobs : OpenJob(k)') /\ KeepsOutcome
  BY <1>0, <1>1, AllApart, OpenApartKeeps DEF OpenApart
<1>2. CASE OpenSearchCreateCollection
  <2>1. \A k \in Jobs : Apart(k)
    BY <1>2 DEF OpenSearchCreateCollection, Apart
  <2> QED
    BY <1>0, <1>1, <1>2, <2>1 DEF OpenSearchCreateCollection, Typed, Searchable, GoneIsEmpty
<1>3. CASE OpenSearchDeleteCollection
  <2>1. Lose(Files) /\ UNCHANGED <<status, job, at, next, lost>> /\ exists' = "none"
    BY <1>3 DEF OpenSearchDeleteCollection
  <2>2. /\ \A k \in Jobs : Apart(k)
        /\ \A f \in Files : stored'[f] = "none"
        /\ Typed' /\ Searchable'
    BY <2>1, LoseApart
  <2> QED
    BY <1>0, <1>1, <2>1, <2>2 DEF GoneIsEmpty
<1>4. ASSUME NEW f \in Files, OpenSearchDeleteFile(f) PROVE OpenInv' /\ KeepsOutcome
  <2>0. exists = "active" /\ exists' = "active" /\ UNCHANGED <<status, job, at, next, lost>>
    BY <1>4 DEF OpenSearchDeleteFile
  <2>1. CASE Lose({f})
    <3>1. (\A k \in Jobs : Apart(k)) /\ Typed' /\ Searchable'
      BY <2>0, <2>1, LoseApart
    <3> QED
      BY <1>0, <1>1, <2>0, <3>1 DEF GoneIsEmpty
  <2>2. CASE stored' = [stored EXCEPT ![f] = "part"] /\ harmed' = harmed \cup {f}
    <3>1. (\A k \in Jobs : Apart(k)) /\ Typed' /\ Searchable'
      BY <2>0, <2>2, FilesAre DEF Typed, Apart, Searchable
    <3> QED
      BY <1>0, <1>1, <2>0, <3>1 DEF GoneIsEmpty
  <2> QED
    BY <1>4, <2>1, <2>2 DEF OpenSearchDeleteFile
<1> QED
  BY <1>2, <1>3, <1>4

LEMMA OpenStep ==
  OpenInv /\ backend = "opensearch" /\ OpenSearchNext => OpenInv' /\ KeepsOutcome
BY OpenWorkerStep, OpenSubmitStep, OpenDeletes DEF OpenSearchNext

LEMMA OpenRests == OpenInv /\ UNCHANGED <<base, osVars>> => OpenInv'
BY DEF OpenInv, base, osVars, Typed, OpenTyped, OpenJob, HasFile, Searchable, GoneIsEmpty

LEMMA OpenTruthful == OpenInv => MCTruthful
BY FilesAre DEF OpenInv, OpenJob, Searchable, Settled, MCTruthful, TruthfulBut

-----------------------------------------------------------------------------
(* Azure AI Search.                                                        *)

Loop == {"file", "note", "upload", "check", "success", "fail"}

AzureTyped ==
  /\ manifest \in [Files -> FileStates]
  /\ tracked \subseteq Files /\ forgotten \subseteq Files
  /\ deletion \in {"idle", "marked", "checked", "emptying", "emptied", "dropped"}
  /\ found \in [Files -> FileStates]
  /\ prior \in {"none", "active", "deleting"}
  /\ deletion = "marked" => prior # "none"
  /\ erasing = <<>> \/ erasing \in Files
  /\ revived \in BOOLEAN

\* Where the worker of a job is, and what the files behind it, before it and
\* in its hands have come to.
AzureJob(j) ==
  /\ at[j] \in {"none", "new", "setup", "manifests", "undo", "done"} \cup Loop
  /\ at[j] = "none" <=> job[j] = "none"
  /\ at[j] \in {"none", "new", "setup", "manifests"} => next[j] = 1
  /\ at[j] = "new" => job[j] = "PENDING"
  /\ at[j] \in {"setup", "manifests", "undo"} \cup Loop => job[j] = "PROCESSING"
  /\ at[j] \in Loop \ {"file"} => HasFile(j)
  /\ \A f \in FilesOf(j) :
       /\ at[j] = "none" => status[f] = "none"
       /\ at[j] \in {"new", "setup", "manifests"} => status[f] = "UPLOADING"
       /\ at[j] \in Loop /\ f[2] < next[j] => status[f] \in Settled
       /\ at[j] \in Loop /\ f[2] > next[j] => status[f] = "UPLOADING"
       /\ f[2] = next[j] =>
            /\ at[j] = "file" => status[f] = "UPLOADING"
            /\ at[j] = "note" => status[f] \in {"INGESTING", "SUCCESS", "FAILED"}
            /\ at[j] \in {"upload", "check", "success"} => status[f] = "INGESTING"
            /\ at[j] = "fail" => status[f] \in {"INGESTING", "SUCCESS"}
       /\ job[j] = "COMPLETED" =>
            /\ status[f] \in Settled
            /\ status[f] = "SUCCESS" => stored[f] = "all" \/ f \in harmed

\* Only a file that has come out can be forgotten, erased, or be settled in
\* its manifest.
AzureFile(f) ==
  /\ f \in tracked \/ manifest[f] # "none" => status[f] # "none"
  /\ f \in forgotten \/ manifest[f] \in Settled \/ erasing = f => status[f] \in Settled

\* A deletion under way, as long as no delete_file has revived the
\* collection: once it has marked the collection, nothing tracked is in the
\* works; once it has read the manifests, nothing at all; once it has emptied
\* the collection, nothing is stored.
Marked ==
  deletion \in {"marked", "checked", "emptying", "emptied"} =>
    /\ exists = "deleting"
    /\ \A f \in Files : f \in tracked \/ found[f] # "none" => status[f] \notin Busy
Checked ==
  deletion \in {"checked", "emptying", "emptied"} =>
    \A f \in Files : status[f] \notin Busy \/ manifest[f] \notin Busy
Emptied == deletion = "emptied" => \A f \in Files : stored[f] = "none"

\* The manifests tell what is in the works, and no worker can write to a
\* collection that is gone.
Noted ==
  \A j \in Jobs : at[j] \in Loop =>
    \A f \in FilesOf(j) : status[f] \in Busy => manifest[f] \in Busy
Dropped ==
  exists = "none" =>
    /\ \A f \in Files : stored[f] = "none"
    /\ \A j \in Jobs :
         /\ at[j] \in Loop => \A f \in FilesOf(j) : status[f] \notin Busy
         /\ at[j] = "manifests" => ~(FilesOf(j) \subseteq tracked)

Unrevived == Marked /\ Checked /\ Emptied /\ Noted /\ Dropped

AzureInv ==
  /\ Typed /\ AzureTyped
  /\ \A j \in Jobs : AzureJob(j)
  /\ \A f \in Files : AzureFile(f)
  /\ ~revived => Unrevived

LEMMA AzureFirst == KnowledgeInit /\ AzureInit => AzureInv
<1> SUFFICES ASSUME KnowledgeInit, AzureInit PROVE AzureInv
  OBVIOUS
<1>1. Typed
  BY FilesAre DEF KnowledgeInit, Typed, JobStates, FileStates, Places
<1>2. AzureTyped
  BY DEF AzureInit, AzureTyped, FileStates
<1>3. \A j \in Jobs : AzureJob(j)
  BY FilesAre DEF KnowledgeInit, AzureJob, Loop
<1>4. \A f \in Files : AzureFile(f)
  BY FilesAre DEF KnowledgeInit, AzureInit, Files, FilesOf, AzureFile, Settled
<1>5. Unrevived
  BY DEF KnowledgeInit, AzureInit, Unrevived, Marked, Checked, Emptied, Noted, Dropped, Loop
<1> QED
  BY <1>1, <1>2, <1>3, <1>4, <1>5 DEF AzureInv

LEMMA AzureApart ==
  ASSUME NEW k \in Jobs, AzureJob(k), Apart(k)
  PROVE  AzureJob(k)'
BY FilesAre DEF AzureJob, Apart, HasFile

\* A step of the worker of a job.
AzureStepOf(j) ==
  /\ Typed' /\ AzureTyped'
  /\ \A k \in Jobs \ {j} : Apart(k)
  /\ AzureJob(j)'
  /\ \A f \in Files : AzureFile(f)'
  /\ ~revived' => Unrevived'

LEMMA AzureStepKeeps ==
  ASSUME AzureInv, NEW j \in Jobs, AzureStepOf(j), job[j] \notin Ended
  PROVE  AzureInv' /\ KeepsOutcome
<1>1. \A k \in Jobs : AzureJob(k)'
  BY AzureApart DEF AzureInv, AzureStepOf
<1>2. KeepsOutcome
  BY ApartKeeps DEF AzureStepOf
<1> QED
  BY <1>1, <1>2 DEF AzureInv, AzureStepOf

LEMMA AzureWorkerStep ==
  ASSUME AzureInv, NEW j \in Jobs, AzureWorker(j)
  PROVE  AzureInv' /\ KeepsOutcome
<1> USE FilesAre DEF AzureInv, AzureTyped, Typed, azureVars, deleting, plans
<1>0. HasFile(j) =>
        /\ File(j) \in Files /\ File(j) \in FilesOf(j)
        /\ File(j)[1] = j /\ File(j)[2] = next[j]
        /\ \A f \in FilesOf(j) : f[2] = next[j] => f = File(j)
  BY FileHere
<1>1. ASSUME AzureStart(j) PROVE AzureInv' /\ KeepsOutcome
  <2>4. at' \in [Jobs -> Places]
    BY <1>1 DEF AzureStart, Goes, Places
  <2>5. Typed' /\ AzureTyped'
    BY <1>0, <1>1, <2>4 DEF AzureStart, JobBecomes, AzureJob, Loop, HasFile, JobStates, FileStates
  <2>6. \A k \in Jobs \ {j} : Apart(k)
    BY <1>0, <1>1, <2>4 DEF AzureStart, Goes, JobBecomes, AzureJob, Loop, HasFile, Apart
  <2>7. AzureJob(j)'
    BY <1>0, <1>1, <2>4 DEF AzureStart, Goes, JobBecomes, AzureJob, Loop, HasFile, Settled
  <2>8. \A f \in Files : AzureFile(f)'
    BY <1>0, <1>1, <2>4 DEF AzureStart, AzureJob, Loop, HasFile, AzureFile, Settled
  <2>9. ~revived' => Marked' /\ Checked' /\ Emptied'
    BY <1>0, <1>1, <2>4 DEF AzureStart, Goes, AzureJob, Loop, HasFile, AzureFile, Settled, Busy, Unrevived, Marked,
                        Checked, Emptied, Noted
  <2>10. ~revived' => Noted'
    BY <1>0, <1>1, <2>4 DEF AzureStart, Goes, AzureJob, Loop, HasFile, AzureFile, Settled, Busy, Unrevived, Noted
  <2>11. ~revived' => Dropped'
    BY <1>0, <1>1, <2>4 DEF AzureStart, Goes, AzureJob, Loop, HasFile, AzureFile, Settled, Busy, Unrevived, Dropped
  <2>12. job[j] \notin Ended
    BY <1>1 DEF AzureStart, AzureJob, Loop, Ended
  <2> QED
    BY <2>5, <2>6, <2>7, <2>8, <2>9, <2>10, <2>11, <2>12, AzureStepKeeps DEF AzureStepOf, Unrevived
<1>2. ASSUME SetupCollection(j) PROVE AzureInv' /\ KeepsOutcome
  <2>4. at' \in [Jobs -> Places]
    BY <1>2 DEF SetupCollection, Goes, Places
  <2>5. Typed' /\ AzureTyped'
    BY <1>0, <1>2, <2>4 DEF SetupCollection, JobBecomes, AzureJob, Loop, HasFile, JobStates, FileStates
  <2>6. \A k \in Jobs \ {j} : Apart(k)
    BY <1>0, <1>2, <2>4 DEF SetupCollection, Goes, JobBecomes, AzureJob, Loop, HasFile, Apart
  <2>7. AzureJob(j)'
    BY <1>0, <1>2, <2>4 DEF SetupCollection, Goes, JobBecomes, AzureJob, Loop, HasFile, Settled
  <2>8. \A f \in Files : AzureFile(f)'
    BY <1>0, <1>2, <2>4 DEF SetupCollection, AzureJob, Loop, HasFile, AzureFile, Settled
  <2>9. ~revived' => Marked' /\ Checked' /\ Emptied'
    BY <1>0, <1>2, <2>4 DEF SetupCollection, Goes, AzureJob, Loop, HasFile, AzureFile, Settled, Busy, Unrevived, Marked,
                        Checked, Emptied, Noted
  <2>10. ~revived' => Noted'
    BY <1>0, <1>2, <2>4 DEF SetupCollection, Goes, AzureJob, Loop, HasFile, AzureFile, Settled, Busy, Unrevived, Noted
  <2>11. ~revived' => Dropped'
    BY <1>0, <1>2, <2>4 DEF SetupCollection, Goes, AzureJob, Loop, HasFile, AzureFile, Settled, Busy, Unrevived, Dropped
  <2>12. job[j] \notin Ended
    BY <1>2 DEF SetupCollection, AzureJob, Loop, Ended
  <2> QED
    BY <2>5, <2>6, <2>7, <2>8, <2>9, <2>10, <2>11, <2>12, AzureStepKeeps DEF AzureStepOf, Unrevived
<1>3. ASSUME SetupFiles(j) PROVE AzureInv' /\ KeepsOutcome
  <2>4. at' \in [Jobs -> Places]
    BY <1>3 DEF SetupFiles, Goes, Places
  <2>5. Typed' /\ AzureTyped'
    BY <1>0, <1>3, <2>4 DEF SetupFiles, JobBecomes, AzureJob, Loop, HasFile, JobStates, FileStates
  <2>6. \A k \in Jobs \ {j} : Apart(k)
    BY <1>0, <1>3, <2>4 DEF SetupFiles, Goes, JobBecomes, AzureJob, Loop, HasFile, Apart
  <2>7. AzureJob(j)'
    BY <1>0, <1>3, <2>4 DEF SetupFiles, Goes, JobBecomes, AzureJob, Loop, HasFile, Settled
  <2>8. \A f \in Files : AzureFile(f)'
    BY <1>0, <1>3, <2>4 DEF SetupFiles, AzureJob, Loop, HasFile, AzureFile, Settled
  <2>9. ~revived' => Marked' /\ Checked' /\ Emptied'
    BY <1>0, <1>3, <2>4 DEF SetupFiles, Goes, AzureJob, Loop, HasFile, AzureFile, Settled, Busy, Unrevived, Marked,
                        Checked, Emptied, Noted
  <2>10. ~revived' => Noted'
    BY <1>0, <1>3, <2>4 DEF SetupFiles, Goes, AzureJob, Loop, HasFile, AzureFile, Settled, Busy, Unrevived, Noted
  <2>11. ~revived' => Dropped'
    BY <1>0, <1>3, <2>4 DEF SetupFiles, Goes, AzureJob, Loop, HasFile, AzureFile, Settled, Busy, Unrevived, Dropped
  <2>12. job[j] \notin Ended
    BY <1>3 DEF SetupFiles, AzureJob, Loop, Ended
  <2> QED
    BY <2>5, <2>6, <2>7, <2>8, <2>9, <2>10, <2>11, <2>12, AzureStepKeeps DEF AzureStepOf, Unrevived
<1>4. ASSUME SetupFails(j) PROVE AzureInv' /\ KeepsOutcome
  <2>4. at' \in [Jobs -> Places]
    BY <1>4 DEF SetupFails, Become, Goes, Places
  <2>4a. manifest' \in [Files -> FileStates]
    BY <1>0, <1>4, FilesAre DEF SetupFails, FileStates
  <2>5. Typed' /\ AzureTyped'
    BY <1>0, <1>4, <2>4a, <2>4 DEF SetupFails, Become, JobBecomes, AzureJob, Loop, HasFile, JobStates, FileStates
  <2>6. \A k \in Jobs \ {j} : Apart(k)
    BY <1>0, <1>4, <2>4 DEF SetupFails, Become, Goes, JobBecomes, AzureJob, Loop, HasFile, Apart
  <2>7. AzureJob(j)'
    BY <1>0, <1>4, <2>4 DEF SetupFails, Become, Goes, JobBecomes, AzureJob, Loop, HasFile, Settled
  <2>8. \A f \in Files : AzureFile(f)'
    BY <1>0, <1>4, <2>4 DEF SetupFails, Become, AzureJob, Loop, HasFile, AzureFile, Settled
  <2>9. ~revived' => Marked' /\ Checked' /\ Emptied'
    BY <1>0, <1>4, <2>4 DEF SetupFails, Become, Goes, AzureJob, Loop, HasFile, AzureFile, Settled, Busy, Unrevived, Marked,
                        Checked, Emptied, Noted
  <2>10. ~revived' => Noted'
    BY <1>0, <1>4, <2>4 DEF SetupFails, Become, Goes, AzureJob, Loop, HasFile, AzureFile, Settled, Busy, Unrevived, Noted
  <2>11. ~revived' => Dropped'
    BY <1>0, <1>4, <2>4 DEF SetupFails, Become, Goes, AzureJob, Loop, HasFile, AzureFile, Settled, Busy, Unrevived, Dropped
  <2>12. job[j] \notin Ended
    BY <1>4 DEF SetupFails, AzureJob, Loop, Ended
  <2> QED
    BY <2>5, <2>6, <2>7, <2>8, <2>9, <2>10, <2>11, <2>12, AzureStepKeeps DEF AzureStepOf, Unrevived
<1>5. ASSUME Begins(j) PROVE AzureInv' /\ KeepsOutcome
  <2>4. at' \in [Jobs -> Places]
    BY <1>5 DEF Begins, Progress, Become, Goes, Places
  <2>5. Typed' /\ AzureTyped'
    BY <1>0, <1>5, <2>4 DEF Begins, Progress, Become, JobBecomes, AzureJob, Loop, HasFile, JobStates, FileStates
  <2>6. \A k \in Jobs \ {j} : Apart(k)
    BY <1>0, <1>5, <2>4 DEF Begins, Progress, Become, Goes, JobBecomes, AzureJob, Loop, HasFile, Apart
  <2>7. AzureJob(j)'
    BY <1>0, <1>5, <2>4 DEF Begins, Progress, Become, Goes, JobBecomes, AzureJob, Loop, HasFile, Settled
  <2>8. \A f \in Files : AzureFile(f)'
    BY <1>0, <1>5, <2>4 DEF Begins, Progress, Become, AzureJob, Loop, HasFile, AzureFile, Settled
  <2>9. ~revived' => Marked' /\ Checked' /\ Emptied'
    BY <1>0, <1>5, <2>4 DEF Begins, Progress, Become, Goes, AzureJob, Loop, HasFile, AzureFile, Settled, Busy, Unrevived, Marked,
                        Checked, Emptied, Noted
  <2>10. ~revived' => Noted'
    BY <1>0, <1>5, <2>4 DEF Begins, Progress, Become, Goes, AzureJob, Loop, HasFile, AzureFile, Settled, Busy, Unrevived, Noted
  <2>11. ~revived' => Dropped'
    BY <1>0, <1>5, <2>4 DEF Begins, Progress, Become, Goes, AzureJob, Loop, HasFile, AzureFile, Settled, Busy, Unrevived, Dropped
  <2>12. job[j] \notin Ended
    BY <1>5 DEF Begins, AzureJob, Loop, Ended
  <2> QED
    BY <2>5, <2>6, <2>7, <2>8, <2>9, <2>10, <2>11, <2>12, AzureStepKeeps DEF AzureStepOf, Unrevived
<1>6. ASSUME Untracked(j) PROVE AzureInv' /\ KeepsOutcome
  <2>4. at' \in [Jobs -> Places]
    BY <1>6 DEF Untracked, WorkerDies, Goes, Places
  <2>5. Typed' /\ AzureTyped'
    BY <1>0, <1>6, <2>4 DEF Untracked, WorkerDies, JobBecomes, AzureJob, Loop, HasFile, JobStates, FileStates
  <2>6. \A k \in Jobs \ {j} : Apart(k)
    BY <1>0, <1>6, <2>4 DEF Untracked, WorkerDies, Goes, JobBecomes, AzureJob, Loop, HasFile, Apart
  <2>7. AzureJob(j)'
    BY <1>0, <1>6, <2>4 DEF Untracked, WorkerDies, Goes, JobBecomes, AzureJob, Loop, HasFile, Settled
  <2>8. \A f \in Files : AzureFile(f)'
    BY <1>0, <1>6, <2>4 DEF Untracked, WorkerDies, AzureJob, Loop, HasFile, AzureFile, Settled
  <2>9. ~revived' => Marked' /\ Checked' /\ Emptied'
    BY <1>0, <1>6, <2>4 DEF Untracked, WorkerDies, Goes, AzureJob, Loop, HasFile, AzureFile, Settled, Busy, Unrevived, Marked,
                        Checked, Emptied, Noted
  <2>10. ~revived' => Noted'
    BY <1>0, <1>6, <2>4 DEF Untracked, WorkerDies, Goes, AzureJob, Loop, HasFile, AzureFile, Settled, Busy, Unrevived, Noted
  <2>11. ~revived' => Dropped'
    BY <1>0, <1>6, <2>4 DEF Untracked, WorkerDies, Goes, AzureJob, Loop, HasFile, AzureFile, Settled, Busy, Unrevived, Dropped
  <2>12. job[j] \notin Ended
    BY <1>6 DEF Untracked, AzureJob, Loop, Ended
  <2> QED
    BY <2>5, <2>6, <2>7, <2>8, <2>9, <2>10, <2>11, <2>12, AzureStepKeeps DEF AzureStepOf, Unrevived
<1>7. ASSUME NotesProgress(j) PROVE AzureInv' /\ KeepsOutcome
  <2>1. HasFile(j) /\ (next' = next \/ next' = [next EXCEPT ![j] = @ + 1])
    BY <1>7 DEF NotesProgress, AzureJob, Loop, Goes
  <2>2. /\ next' \in [Jobs -> Nat] /\ \A k \in Jobs : next'[k] \in 1..(Count[k] + 1)
        /\ next'[j] = next[j] \/ next'[j] = next[j] + 1
    BY <2>1, NextTyped
  <2>3. next'[j] = next[j] + 1 =>
          \A f \in FilesOf(j) : /\ f[2] < next'[j] => f[2] < next[j] \/ f = File(j)
                               /\ f[2] >= next'[j] => f[2] > next[j]
    BY <2>1, GoesOn
  <2>3a. Goes(j, "upload") \/ Goes(j, "file")
    BY <1>7 DEF NotesProgress
  <2>4. at' \in [Jobs -> Places]
    <3> "upload" \in Places /\ "file" \in Places
      BY DEF Places
    <3> QED
      BY <2>3a, GoesTo
  <2>5. Typed' /\ AzureTyped'
    BY <1>0, <1>7, <2>1, <2>2, <2>3, <2>4 DEF NotesProgress, JobBecomes, AzureJob, Loop, HasFile, JobStates, FileStates
  <2>6. \A k \in Jobs \ {j} : Apart(k)
    BY <1>0, <1>7, <2>1, <2>2, <2>3, <2>4 DEF NotesProgress, Goes, JobBecomes, AzureJob, Loop, HasFile, Apart
  <2>7. AzureJob(j)'
    BY <1>0, <1>7, <2>1, <2>2, <2>3, <2>4 DEF NotesProgress, Goes, JobBecomes, AzureJob, Loop, HasFile, Settled
  <2>8. \A f \in Files : AzureFile(f)'
    BY <1>0, <1>7, <2>1, <2>2, <2>3, <2>4 DEF NotesProgress, AzureJob, Loop, HasFile, AzureFile, Settled
  <2>9. ~revived' => Marked' /\ Checked' /\ Emptied'
    BY <1>0, <1>7, <2>1, <2>2, <2>3, <2>4 DEF NotesProgress, Goes, AzureJob, Loop, HasFile, AzureFile, Settled, Busy, Unrevived, Marked,
                        Checked, Emptied, Noted
  <2>10. ~revived' => Noted'
    BY <1>0, <1>7, <2>1, <2>2, <2>3, <2>4 DEF NotesProgress, Goes, AzureJob, Loop, HasFile, AzureFile, Settled, Busy, Unrevived, Noted
  <2>11. ~revived' => Dropped'
    BY <1>0, <1>7, <2>1, <2>2, <2>3, <2>4 DEF NotesProgress, Goes, AzureJob, Loop, HasFile, AzureFile, Settled, Busy, Unrevived, Dropped
  <2>12. job[j] \notin Ended
    BY <1>7 DEF NotesProgress, AzureJob, Loop, Ended
  <2> QED
    BY <2>5, <2>6, <2>7, <2>8, <2>9, <2>10, <2>11, <2>12, AzureStepKeeps DEF AzureStepOf, Unrevived
<1>8. ASSUME NoteFails(j) PROVE AzureInv' /\ KeepsOutcome
  <2>3a. Goes(j, "fail") \/ Goes(j, "done")
    BY <1>8 DEF NoteFails, RollsBack, WorkerDies
  <2>4. at' \in [Jobs -> Places]
    <3> "fail" \in Places /\ "done" \in Places
      BY DEF Places
    <3> QED
      BY <2>3a, GoesTo
  <2>4b. stored' = stored \/ stored' = [stored EXCEPT ![File(j)] = "none"]
    BY <1>8 DEF NoteFails, RollsBack
  <2>4a. stored' \in [Files -> {"none", "part", "all"}]
    BY <2>4b
  <2>5. Typed' /\ AzureTyped'
    BY <1>0, <1>8, <2>4a, <2>4 DEF NoteFails, RollsBack, WorkerDies, JobBecomes, AzureJob, Loop, HasFile, JobStates, FileStates
  <2>6. \A k \in Jobs \ {j} : Apart(k)
    BY <1>0, <1>8, <2>4 DEF NoteFails, RollsBack, WorkerDies, Goes, JobBecomes, AzureJob, Loop, HasFile, Apart
  <2>7. AzureJob(j)'
    BY <1>0, <1>8, <2>4 DEF NoteFails, RollsBack, WorkerDies, Goes, JobBecomes, AzureJob, Loop, HasFile, Settled
  <2>8. \A f \in Files : AzureFile(f)'
    BY <1>0, <1>8, <2>4 DEF NoteFails, RollsBack, WorkerDies, AzureJob, Loop, HasFile, AzureFile, Settled
  <2>9. ~revived' => Marked' /\ Checked' /\ Emptied'
    BY <1>0, <1>8, <2>4 DEF NoteFails, RollsBack, WorkerDies, Goes, AzureJob, Loop, HasFile, AzureFile, Settled, Busy, Unrevived, Marked,
                        Checked, Emptied, Noted
  <2>10. ~revived' => Noted'
    BY <1>0, <1>8, <2>4 DEF NoteFails, RollsBack, WorkerDies, Goes, AzureJob, Loop, HasFile, AzureFile, Settled, Busy, Unrevived, Noted
  <2>11. ~revived' => Dropped'
    BY <1>0, <1>8, <2>4 DEF NoteFails, RollsBack, WorkerDies, Goes, AzureJob, Loop, HasFile, AzureFile, Settled, Busy, Unrevived, Dropped
  <2>12. job[j] \notin Ended
    BY <1>8 DEF NoteFails, AzureJob, Loop, Ended
  <2> QED
    BY <2>5, <2>6, <2>7, <2>8, <2>9, <2>10, <2>11, <2>12, AzureStepKeeps DEF AzureStepOf, Unrevived
<1>9. ASSUME UploadsSome(j) PROVE AzureInv' /\ KeepsOutcome
  <2>4. at' \in [Jobs -> Places]
    BY <1>9 DEF UploadsSome, StoreSome, Goes, Places
  <2>5. Typed' /\ AzureTyped'
    BY <1>0, <1>9, <2>4 DEF UploadsSome, StoreSome, JobBecomes, AzureJob, Loop, HasFile, JobStates, FileStates
  <2>6. \A k \in Jobs \ {j} : Apart(k)
    BY <1>0, <1>9, <2>4 DEF UploadsSome, StoreSome, Goes, JobBecomes, AzureJob, Loop, HasFile, Apart
  <2>7. AzureJob(j)'
    BY <1>0, <1>9, <2>4 DEF UploadsSome, StoreSome, Goes, JobBecomes, AzureJob, Loop, HasFile, Settled
  <2>8. \A f \in Files : AzureFile(f)'
    BY <1>0, <1>9, <2>4 DEF UploadsSome, StoreSome, AzureJob, Loop, HasFile, AzureFile, Settled
  <2>9. ~revived' => Marked' /\ Checked' /\ Emptied'
    BY <1>0, <1>9, <2>4 DEF UploadsSome, StoreSome, Goes, AzureJob, Loop, HasFile, AzureFile, Settled, Busy, Unrevived, Marked,
                        Checked, Emptied, Noted
  <2>10. ~revived' => Noted'
    BY <1>0, <1>9, <2>4 DEF UploadsSome, StoreSome, Goes, AzureJob, Loop, HasFile, AzureFile, Settled, Busy, Unrevived, Noted
  <2>11. ~revived' => Dropped'
    BY <1>0, <1>9, <2>4 DEF UploadsSome, StoreSome, Goes, AzureJob, Loop, HasFile, AzureFile, Settled, Busy, Unrevived, Dropped
  <2>12. job[j] \notin Ended
    BY <1>9 DEF UploadsSome, AzureJob, Loop, Ended
  <2> QED
    BY <2>5, <2>6, <2>7, <2>8, <2>9, <2>10, <2>11, <2>12, AzureStepKeeps DEF AzureStepOf, Unrevived
<1>10. ASSUME UploadsRest(j) PROVE AzureInv' /\ KeepsOutcome
  <2>4. at' \in [Jobs -> Places]
    BY <1>10 DEF UploadsRest, StoreRest, Goes, Places
  <2>5. Typed' /\ AzureTyped'
    BY <1>0, <1>10, <2>4 DEF UploadsRest, StoreRest, JobBecomes, AzureJob, Loop, HasFile, JobStates, FileStates
  <2>6. \A k \in Jobs \ {j} : Apart(k)
    BY <1>0, <1>10, <2>4 DEF UploadsRest, StoreRest, Goes, JobBecomes, AzureJob, Loop, HasFile, Apart
  <2>7. AzureJob(j)'
    BY <1>0, <1>10, <2>4 DEF UploadsRest, StoreRest, Goes, JobBecomes, AzureJob, Loop, HasFile, Settled
  <2>8. \A f \in Files : AzureFile(f)'
    BY <1>0, <1>10, <2>4 DEF UploadsRest, StoreRest, AzureJob, Loop, HasFile, AzureFile, Settled
  <2>9. ~revived' => Marked' /\ Checked' /\ Emptied'
    BY <1>0, <1>10, <2>4 DEF UploadsRest, StoreRest, Goes, AzureJob, Loop, HasFile, AzureFile, Settled, Busy, Unrevived, Marked,
                        Checked, Emptied, Noted
  <2>10. ~revived' => Noted'
    BY <1>0, <1>10, <2>4 DEF UploadsRest, StoreRest, Goes, AzureJob, Loop, HasFile, AzureFile, Settled, Busy, Unrevived, Noted
  <2>11. ~revived' => Dropped'
    BY <1>0, <1>10, <2>4 DEF UploadsRest, StoreRest, Goes, AzureJob, Loop, HasFile, AzureFile, Settled, Busy, Unrevived, Dropped
  <2>12. job[j] \notin Ended
    BY <1>10 DEF UploadsRest, AzureJob, Loop, Ended
  <2> QED
    BY <2>5, <2>6, <2>7, <2>8, <2>9, <2>10, <2>11, <2>12, AzureStepKeeps DEF AzureStepOf, Unrevived
<1>11. ASSUME ChecksCollection(j) PROVE AzureInv' /\ KeepsOutcome
  <2>3a. Goes(j, "success") \/ Goes(j, "fail")
    BY <1>11 DEF ChecksCollection, RollsBack
  <2>4. at' \in [Jobs -> Places]
    <3> "success" \in Places /\ "fail" \in Places
      BY DEF Places
    <3> QED
      BY <2>3a, GoesTo
  <2>4b. stored' = stored \/ stored' = [stored EXCEPT ![File(j)] = "none"]
    BY <1>11 DEF ChecksCollection, RollsBack
  <2>4a. stored' \in [Files -> {"none", "part", "all"}]
    BY <2>4b
  <2>5. Typed' /\ AzureTyped'
    BY <1>0, <1>11, <2>4a, <2>4 DEF ChecksCollection, RollsBack, JobBecomes, AzureJob, Loop, HasFile, JobStates, FileStates
  <2>6. \A k \in Jobs \ {j} : Apart(k)
    BY <1>0, <1>11, <2>4 DEF ChecksCollection, RollsBack, Goes, JobBecomes, AzureJob, Loop, HasFile, Apart
  <2>7. AzureJob(j)'
    BY <1>0, <1>11, <2>4 DEF ChecksCollection, RollsBack, Goes, JobBecomes, AzureJob, Loop, HasFile, Settled
  <2>8. \A f \in Files : AzureFile(f)'
    BY <1>0, <1>11, <2>4 DEF ChecksCollection, RollsBack, AzureJob, Loop, HasFile, AzureFile, Settled
  <2>9. ~revived' => Marked' /\ Checked' /\ Emptied'
    BY <1>0, <1>11, <2>4 DEF ChecksCollection, RollsBack, Goes, AzureJob, Loop, HasFile, AzureFile, Settled, Busy, Unrevived, Marked,
                        Checked, Emptied, Noted
  <2>10. ~revived' => Noted'
    BY <1>0, <1>11, <2>4 DEF ChecksCollection, RollsBack, Goes, AzureJob, Loop, HasFile, AzureFile, Settled, Busy, Unrevived, Noted
  <2>11. ~revived' => Dropped'
    BY <1>0, <1>11, <2>4 DEF ChecksCollection, RollsBack, Goes, AzureJob, Loop, HasFile, AzureFile, Settled, Busy, Unrevived, Dropped
  <2>12. job[j] \notin Ended
    BY <1>11 DEF ChecksCollection, AzureJob, Loop, Ended
  <2> QED
    BY <2>5, <2>6, <2>7, <2>8, <2>9, <2>10, <2>11, <2>12, AzureStepKeeps DEF AzureStepOf, Unrevived
<1>12. ASSUME UploadFails(j) PROVE AzureInv' /\ KeepsOutcome
  <2>4. at' \in [Jobs -> Places]
    BY <1>12 DEF UploadFails, RollsBack, Goes, Places
  <2>5. Typed' /\ AzureTyped'
    <3>1. stored' \in [Files -> {"none", "part", "all"}]
      BY <1>12 DEF UploadFails, RollsBack
    <3> QED
      BY <1>12, <2>4, <3>1 DEF UploadFails
  <2>6. \A k \in Jobs \ {j} : Apart(k)
    BY <1>0, <1>12, <2>4 DEF UploadFails, RollsBack, Goes, JobBecomes, AzureJob, Loop, HasFile, Apart
  <2>7. AzureJob(j)'
    BY <1>0, <1>12, <2>4 DEF UploadFails, RollsBack, Goes, JobBecomes, AzureJob, Loop, HasFile, Settled
  <2>8. \A f \in Files : AzureFile(f)'
    BY <1>0, <1>12, <2>4 DEF UploadFails, RollsBack, AzureJob, Loop, HasFile, AzureFile, Settled
  <2>9. ~revived' => Marked' /\ Checked' /\ Emptied'
    BY <1>0, <1>12, <2>4 DEF UploadFails, RollsBack, Goes, AzureJob, Loop, HasFile, AzureFile, Settled, Busy, Unrevived, Marked,
                        Checked, Emptied, Noted
  <2>10. ~revived' => Noted'
    BY <1>0, <1>12, <2>4 DEF UploadFails, RollsBack, Goes, AzureJob, Loop, HasFile, AzureFile, Settled, Busy, Unrevived, Noted
  <2>11. ~revived' => Dropped'
    BY <1>0, <1>12, <2>4 DEF UploadFails, RollsBack, Goes, AzureJob, Loop, HasFile, AzureFile, Settled, Busy, Unrevived, Dropped
  <2>12. job[j] \notin Ended
    BY <1>12 DEF UploadFails, AzureJob, Loop, Ended
  <2> QED
    BY <2>5, <2>6, <2>7, <2>8, <2>9, <2>10, <2>11, <2>12, AzureStepKeeps DEF AzureStepOf, Unrevived
<1>13. ASSUME Settles(j) PROVE AzureInv' /\ KeepsOutcome
  <2>3a. Goes(j, "note")
    BY <1>13 DEF Settles, Progress, Become
  <2>4. at' \in [Jobs -> Places]
    <3> "note" \in Places
      BY DEF Places
    <3> QED
      BY <2>3a, GoesTo
  <2>5. Typed' /\ AzureTyped'
    BY <1>0, <1>13, <2>4 DEF Settles, Progress, Become, JobBecomes, AzureJob, Loop, HasFile, JobStates, FileStates
  <2>6. \A k \in Jobs \ {j} : Apart(k)
    BY <1>0, <1>13, <2>4 DEF Settles, Progress, Become, Goes, JobBecomes, AzureJob, Loop, HasFile, Apart
  <2>7. AzureJob(j)'
    BY <1>0, <1>13, <2>4 DEF Settles, Progress, Become, Goes, JobBecomes, AzureJob, Loop, HasFile, Settled
  <2>8. \A f \in Files : AzureFile(f)'
    BY <1>0, <1>13, <2>4 DEF Settles, Progress, Become, AzureJob, Loop, HasFile, AzureFile, Settled
  <2>9. ~revived' => Marked' /\ Checked' /\ Emptied'
    BY <1>0, <1>13, <2>4 DEF Settles, Progress, Become, Goes, AzureJob, Loop, HasFile, AzureFile, Settled, Busy, Unrevived, Marked,
                        Checked, Emptied, Noted
  <2>10. ~revived' => Noted'
    BY <1>0, <1>13, <2>4 DEF Settles, Progress, Become, Goes, AzureJob, Loop, HasFile, AzureFile, Settled, Busy, Unrevived, Noted
  <2>11. ~revived' => Dropped'
    <3>1. PICK t \in Settled :
          /\ Become({File(j)}, t) /\ at' = [at EXCEPT ![j] = "note"]
          /\ at[j] \in {"success", "fail"}
      BY <1>13 DEF Settles, Progress, Goes, Settled
    <3>2. /\ \A f \in Files : status'[f] = IF f = File(j) THEN t ELSE status[f]
          /\ \A k \in Jobs \ {j} : at'[k] = at[k]
          /\ at'[j] = "note" /\ at[j] \in Loop
      BY <3>1 DEF Become, Loop
    <3>3. UNCHANGED <<exists, stored, tracked, revived>>
      BY <1>13 DEF Settles
    <3> QED
      BY <3>2, <3>3 DEF Unrevived, Dropped, Busy, Settled
  <2>12. job[j] \notin Ended
    BY <1>13 DEF Settles, AzureJob, Loop, Ended
  <2> QED
    BY <2>5, <2>6, <2>7, <2>8, <2>9, <2>10, <2>11, <2>12, AzureStepKeeps DEF AzureStepOf, Unrevived
<1>14. ASSUME AzureEnds(j) PROVE AzureInv' /\ KeepsOutcome
  <2>4. at' \in [Jobs -> Places]
    BY <1>14 DEF AzureEnds, Visible, Verdict, Goes, Places
  <2>5. Typed' /\ AzureTyped'
    BY <1>0, <1>14, <2>4 DEF AzureEnds, Visible, Verdict, JobBecomes, AzureJob, Loop, HasFile, JobStates, FileStates
  <2>6. \A k \in Jobs \ {j} : Apart(k)
    BY <1>0, <1>14, <2>4 DEF AzureEnds, Visible, Verdict, Goes, JobBecomes, AzureJob, Loop, HasFile, Apart
  <2>7. AzureJob(j)'
    BY <1>0, <1>14, <2>4 DEF AzureEnds, Visible, Verdict, Goes, JobBecomes, AzureJob, Loop, HasFile, Settled
  <2>8. \A f \in Files : AzureFile(f)'
    BY <1>0, <1>14, <2>4 DEF AzureEnds, Visible, Verdict, AzureJob, Loop, HasFile, AzureFile, Settled
  <2>9. ~revived' => Marked' /\ Checked' /\ Emptied'
    BY <1>0, <1>14, <2>4 DEF AzureEnds, Visible, Verdict, Goes, AzureJob, Loop, HasFile, AzureFile, Settled, Busy, Unrevived, Marked,
                        Checked, Emptied, Noted
  <2>10. ~revived' => Noted'
    BY <1>0, <1>14, <2>4 DEF AzureEnds, Visible, Verdict, Goes, AzureJob, Loop, HasFile, AzureFile, Settled, Busy, Unrevived, Noted
  <2>11. ~revived' => Dropped'
    BY <1>0, <1>14, <2>4 DEF AzureEnds, Visible, Verdict, Goes, AzureJob, Loop, HasFile, AzureFile, Settled, Busy, Unrevived, Dropped
  <2>12. job[j] \notin Ended
    BY <1>14 DEF AzureEnds, AzureJob, Loop, Ended
  <2> QED
    BY <2>5, <2>6, <2>7, <2>8, <2>9, <2>10, <2>11, <2>12, AzureStepKeeps DEF AzureStepOf, Unrevived
<1>15. ASSUME NotVisible(j) PROVE AzureInv' /\ KeepsOutcome
  <2>4. at' \in [Jobs -> Places]
    BY <1>15 DEF NotVisible, Goes, Places
  <2>4a. next' \in [Jobs -> Nat] /\ \A k \in Jobs : next'[k] \in 1..(Count[k] + 1)
    BY <1>0, <1>15, FilesAre DEF NotVisible
  <2>5. Typed' /\ AzureTyped'
    BY <1>0, <1>15, <2>4a, <2>4 DEF NotVisible, JobBecomes, AzureJob, Loop, HasFile, JobStates, FileStates
  <2>6. \A k \in Jobs \ {j} : Apart(k)
    BY <1>0, <1>15, <2>4 DEF NotVisible, Goes, JobBecomes, AzureJob, Loop, HasFile, Apart
  <2>7. AzureJob(j)'
    BY <1>0, <1>15, <2>4 DEF NotVisible, Goes, JobBecomes, AzureJob, Loop, HasFile, Settled
  <2>8. \A f \in Files : AzureFile(f)'
    BY <1>0, <1>15, <2>4 DEF NotVisible, AzureJob, Loop, HasFile, AzureFile, Settled
  <2>9. ~revived' => Marked' /\ Checked' /\ Emptied'
    BY <1>0, <1>15, <2>4 DEF NotVisible, Goes, AzureJob, Loop, HasFile, AzureFile, Settled, Busy, Unrevived, Marked,
                        Checked, Emptied, Noted
  <2>10. ~revived' => Noted'
    BY <1>0, <1>15, <2>4 DEF NotVisible, Goes, AzureJob, Loop, HasFile, AzureFile, Settled, Busy, Unrevived, Noted
  <2>11. ~revived' => Dropped'
    BY <1>0, <1>15, <2>4 DEF NotVisible, Goes, AzureJob, Loop, HasFile, AzureFile, Settled, Busy, Unrevived, Dropped
  <2>12. job[j] \notin Ended
    BY <1>15 DEF NotVisible, AzureJob, Loop, Ended
  <2> QED
    BY <2>5, <2>6, <2>7, <2>8, <2>9, <2>10, <2>11, <2>12, AzureStepKeeps DEF AzureStepOf, Unrevived
<1>16. ASSUME Undoes(j) PROVE AzureInv' /\ KeepsOutcome
  <2>1. HasFile(j) /\ (next' = next \/ next' = [next EXCEPT ![j] = @ + 1])
    BY <1>16 DEF Undoes, AzureJob, Loop, Goes
  <2>2. /\ next' \in [Jobs -> Nat] /\ \A k \in Jobs : next'[k] \in 1..(Count[k] + 1)
        /\ next'[j] = next[j] \/ next'[j] = next[j] + 1
    BY <2>1, NextTyped
  <2>3. next'[j] = next[j] + 1 =>
          \A f \in FilesOf(j) : /\ f[2] < next'[j] => f[2] < next[j] \/ f = File(j)
                               /\ f[2] >= next'[j] => f[2] > next[j]
    BY <2>1, GoesOn
  <2>4. at' \in [Jobs -> Places]
    BY <1>16 DEF Undoes, Become, Erases, Lose, Goes, Places
  <2>4b. /\ status' = status \/ Become({File(j)}, "FAILED")
         /\ UNCHANGED <<stored, harmed>> \/ Lose({File(j)})
         /\ \/ manifest' = manifest
            \/ \E v \in {"none", "FAILED"} : manifest' = [manifest EXCEPT ![File(j)] = v]
            \/ manifest' = [manifest EXCEPT ![File(j)] = manifest[File(j)]]
         /\ tracked' \subseteq tracked
         /\ forgotten' \subseteq forgotten \cup {File(j)}
    BY <1>16 DEF Undoes, Erases
  <2>4c. status' \in [Files -> FileStates] /\ manifest' \in [Files -> FileStates]
    <3>1. status' \in [Files -> FileStates]
      BY <2>4b DEF Become, FileStates
    <3>2. manifest[File(j)] \in FileStates /\ {"none", "FAILED"} \subseteq FileStates
      BY <1>0, <2>1 DEF FileStates
    <3>3. PICK v \in FileStates :
            manifest' = manifest \/ manifest' = [manifest EXCEPT ![File(j)] = v]
      BY <2>4b, <3>2
    <3>4. manifest' \in [Files -> FileStates]
      BY <3>3, ZenonT(40)
    <3> QED
      BY <3>1, <3>4
  <2>4d. stored' \in [Files -> {"none", "part", "all"}] /\ harmed' \subseteq Files
    BY <1>0, <2>1, <2>4b DEF Lose
  <2>5. Typed' /\ AzureTyped'
    BY <1>0, <1>16, <2>1, <2>2, <2>3, <2>4b, <2>4c, <2>4d, <2>4 DEF Undoes, Become, Erases, Lose, JobBecomes, AzureJob, Loop, HasFile, JobStates, FileStates
  <2>6. \A k \in Jobs \ {j} : Apart(k)
    BY <1>0, <1>16, <2>1, <2>2, <2>3, <2>4 DEF Undoes, Become, Erases, Lose, Goes, JobBecomes, AzureJob, Loop, HasFile, Apart
  <2>7. AzureJob(j)'
    BY <1>0, <1>16, <2>1, <2>2, <2>3, <2>4 DEF Undoes, Become, Erases, Lose, Goes, JobBecomes, AzureJob, Loop, HasFile, Settled
  <2>8. \A f \in Files : AzureFile(f)'
    BY <1>0, <1>16, <2>1, <2>2, <2>3, <2>4 DEF Undoes, Become, Erases, Lose, AzureJob, Loop, HasFile, AzureFile, Settled
  <2>9. ~revived' => Marked' /\ Checked' /\ Emptied'
    BY <1>0, <1>16, <2>1, <2>2, <2>3, <2>4 DEF Undoes, Become, Erases, Lose, Goes, AzureJob, Loop, HasFile, AzureFile, Settled, Busy, Unrevived, Marked,
                        Checked, Emptied, Noted
  <2>10. ~revived' => Noted'
    BY <1>0, <1>16, <2>1, <2>2, <2>3, <2>4 DEF Undoes, Become, Erases, Lose, Goes, AzureJob, Loop, HasFile, AzureFile, Settled, Busy, Unrevived, Noted
  <2>11. ~revived' => Dropped'
    BY <1>0, <1>16, <2>1, <2>2, <2>3, <2>4 DEF Undoes, Become, Erases, Lose, Goes, AzureJob, Loop, HasFile, AzureFile, Settled, Busy, Unrevived, Dropped
  <2>12. job[j] \notin Ended
    BY <1>16 DEF Undoes, AzureJob, Loop, Ended
  <2> QED
    BY <2>5, <2>6, <2>7, <2>8, <2>9, <2>10, <2>11, <2>12, AzureStepKeeps DEF AzureStepOf, Unrevived
<1>17. ASSUME Undone(j) PROVE AzureInv' /\ KeepsOutcome
  <2>4. at' \in [Jobs -> Places]
    BY <1>17 DEF Undone, Goes, Places
  <2>5. Typed' /\ AzureTyped'
    BY <1>0, <1>17, <2>4 DEF Undone, JobBecomes, AzureJob, Loop, HasFile, JobStates, FileStates
  <2>6. \A k \in Jobs \ {j} : Apart(k)
    BY <1>0, <1>17, <2>4 DEF Undone, Goes, JobBecomes, AzureJob, Loop, HasFile, Apart
  <2>7. AzureJob(j)'
    BY <1>0, <1>17, <2>4 DEF Undone, Goes, JobBecomes, AzureJob, Loop, HasFile, Settled
  <2>8. \A f \in Files : AzureFile(f)'
    BY <1>0, <1>17, <2>4 DEF Undone, AzureJob, Loop, HasFile, AzureFile, Settled
  <2>9. ~revived' => Marked' /\ Checked' /\ Emptied'
    BY <1>0, <1>17, <2>4 DEF Undone, Goes, AzureJob, Loop, HasFile, AzureFile, Settled, Busy, Unrevived, Marked,
                        Checked, Emptied, Noted
  <2>10. ~revived' => Noted'
    BY <1>0, <1>17, <2>4 DEF Undone, Goes, AzureJob, Loop, HasFile, AzureFile, Settled, Busy, Unrevived, Noted
  <2>11. ~revived' => Dropped'
    BY <1>0, <1>17, <2>4 DEF Undone, Goes, AzureJob, Loop, HasFile, AzureFile, Settled, Busy, Unrevived, Dropped
  <2>12. job[j] \notin Ended
    BY <1>17 DEF Undone, AzureJob, Loop, Ended
  <2> QED
    BY <2>5, <2>6, <2>7, <2>8, <2>9, <2>10, <2>11, <2>12, AzureStepKeeps DEF AzureStepOf, Unrevived
<1> QED
  BY <1>1, <1>2, <1>3, <1>4, <1>5, <1>6, <1>7, <1>8, <1>9, <1>10, <1>11, <1>12, <1>13, <1>14, <1>15, <1>16, <1>17 DEF AzureWorker

LEMMA AzureSubmitStep ==
  ASSUME AzureInv, NEW j \in Jobs, AzureSubmit(j)
  PROVE  AzureInv' /\ KeepsOutcome
<1> USE DEF AzureInv
<1>1. UNCHANGED <<exists, stored, next, harmed, manifest, forgotten, deleting>>
  BY DEF AzureSubmit, Registers, NothingToDo, azureVars, deleting, plans
<1>2. job[j] = "none" /\ Typed' /\ \A k \in Jobs \ {j} : Apart(k)
  BY RegistersApart, NothingApart DEF AzureSubmit, Places
<1>3. at[j] = "none" /\ next[j] = 1 /\ \A f \in FilesOf(j) : status[f] = "none"
  <2>1. at[j] = "none"
    BY <1>2 DEF AzureJob
  <2> QED
    BY <2>1 DEF AzureJob
<1>4. CASE NothingToDo(j) /\ UNCHANGED azureVars
  <2>1. at'[j] = "done" /\ job'[j] = "FAILED" /\ UNCHANGED <<status, azureVars>>
    BY <1>4, NothingApart DEF NothingToDo
  <2>2. AzureTyped' /\ \A f \in Files : AzureFile(f)'
    BY <2>1 DEF azureVars, deleting, plans, AzureTyped, AzureFile
  <2>3. AzureJob(j)'
    BY <2>1 DEF AzureJob, Loop
  <2>4. \A k \in Jobs : at'[k] = at[k] \/ (k = j /\ at'[k] = "done")
    BY <1>2, <2>1 DEF Apart
  <2>5. ~revived' => Unrevived'
    BY <1>1, <2>1, <2>4
    DEF azureVars, deleting, plans, Unrevived, Marked, Checked, Emptied, Noted, Dropped, Loop
  <2> QED
    BY <1>2, <2>2, <2>3, <2>5, AzureStepKeeps DEF AzureStepOf, Ended
<1>5. CASE /\ exists # "deleting"
           /\ Registers(j, "new")
           /\ tracked' = tracked \cup FilesOf(j)
           /\ UNCHANGED <<manifest, forgotten, deleting>>
  <2>1. at'[j] = "new" /\ job'[j] = "PENDING"
    BY <1>5, RegistersApart DEF Places
  <2>2. \A f \in Files : status'[f] = IF f \in FilesOf(j) THEN "UPLOADING" ELSE status[f]
    BY <1>5 DEF Registers, Become
  <2>3. AzureTyped'
    BY <1>5, FilesAre DEF deleting, plans, AzureTyped
  <2>4. \A f \in Files : AzureFile(f)'
    BY <1>1, <1>3, <1>5, <2>2 DEF deleting, plans, AzureFile, Settled
  <2>5. AzureJob(j)'
    BY <1>1, <1>3, <2>1, <2>2, FilesAre DEF AzureJob, Loop
  <2>6. \A k \in Jobs \ {j} :
          /\ at'[k] = at[k]
          /\ \A f \in FilesOf(k) : status'[f] = status[f] /\ f \notin FilesOf(j)
    BY <1>2, FilesAre DEF Apart
  <2>7. ~revived' => Marked' /\ Checked' /\ Emptied'
    BY <1>1, <1>5 DEF deleting, plans, Unrevived, Marked, Checked, Emptied
  <2>8. ~revived' => Noted'
    BY <1>1, <2>1, <2>6 DEF deleting, plans, Unrevived, Noted, Loop
  <2>9. ~revived' => Dropped'
    <3>1. \A k \in Jobs \ {j} : FilesOf(k) \subseteq tracked' => FilesOf(k) \subseteq tracked
      BY <1>5, <2>6
    <3> QED
      BY <1>1, <2>1, <2>6, <3>1 DEF deleting, plans, Unrevived, Dropped, Loop
  <2> QED
    BY <1>2, <2>3, <2>4, <2>5, <2>7, <2>8, <2>9, AzureStepKeeps DEF AzureStepOf, Unrevived, Ended
<1> QED
  BY <1>4, <1>5 DEF AzureSubmit

\* Steps that leave all jobs alone.
LEMMA AzureAside ==
  ASSUME AzureInv, \A k \in Jobs : Apart(k), Typed', AzureTyped',
         \A f \in Files : AzureFile(f)', ~revived' => Unrevived'
  PROVE  AzureInv' /\ KeepsOutcome
BY AzureApart, AllApart DEF AzureInv

LEMMA AzureFileDeletes ==
  ASSUME AzureInv, (\E f \in Files : AzureDeleteFile(f)) \/ DeleteFileStamps
  PROVE  AzureInv' /\ KeepsOutcome
<1> USE DEF AzureInv
<1>1. ASSUME NEW f \in Files, AzureDeleteFile(f) PROVE AzureInv' /\ KeepsOutcome
  <2>1. /\ Lose({f}) /\ UNCHANGED <<exists, status, job, at, next, lost>>
        /\ UNCHANGED <<tracked, forgotten, deletion, prior, found, revived>>
        /\ manifest' = [manifest EXCEPT ![f] = "none"]
        /\ erasing' = f \/ erasing' = <<>>
    BY <1>1 DEF AzureDeleteFile, plans
  <2>2. /\ \A k \in Jobs : Apart(k)
        /\ \A g \in Files : stored'[g] = IF g = f THEN "none" ELSE stored[g]
        /\ Typed'
    BY <2>1, LoseApart DEF Typed
  <2>3. /\ \A g \in Files : manifest'[g] = IF g = f THEN "none" ELSE manifest[g]
        /\ manifest' \in [Files -> FileStates]
    BY <2>1 DEF AzureTyped, FileStates
  <2>4. status[f] \in Settled
    <3>1. CASE f \in tracked
      <4>1. status[f] \notin Busy /\ status[f] # "none" /\ status[f] \in FileStates
        BY <1>1, <3>1 DEF AzureDeleteFile, AzureFile, Typed
      <4> QED
        BY <4>1 DEF Busy, Settled, FileStates
    <3>2. CASE f \notin tracked
      <4>1. manifest[f] \in Settled
        BY <1>1, <3>2 DEF AzureDeleteFile, AzureTyped, Busy, Settled, FileStates
      <4> QED
        BY <4>1 DEF AzureFile
    <3> QED
      BY <3>1, <3>2
  <2>5. AzureTyped'
    BY <2>1, <2>3 DEF AzureTyped
  <2>6. \A g \in Files : AzureFile(g)'
    <3>1. \A g \in Files : erasing' = g => g = f
      BY <2>1, NoFile
    <3> QED
      BY <2>1, <2>3, <2>4, <3>1 DEF AzureFile, Settled
  <2>7. ~revived' => Marked' /\ Checked' /\ Emptied' /\ Dropped'
    BY <2>1, <2>2, <2>3 DEF Unrevived, Marked, Checked, Emptied, Dropped, Busy
  <2>8. ~revived' => Noted'
    BY <2>1, <2>3, <2>4, FilesAre DEF Unrevived, Noted, Busy, Settled
  <2> QED
    BY <2>2, <2>5, <2>6, <2>7, <2>8, AzureAside DEF Unrevived
<1>2. ASSUME DeleteFileStamps PROVE AzureInv' /\ KeepsOutcome
  <2>1. /\ UNCHANGED <<stored, status, job, at, next, harmed, lost, manifest, deletion, prior, found>>
        /\ exists' = "active" /\ erasing' = <<>> /\ erasing # <<>>
        /\ revived' = (revived \/ exists # "active")
        /\ tracked' = tracked \ {erasing} /\ forgotten' = forgotten \cup {erasing}
    BY <1>2 DEF DeleteFileStamps, plans
  <2>2. (\A k \in Jobs : Apart(k)) /\ Typed' /\ AzureTyped'
    BY <2>1 DEF Apart, Typed, AzureTyped
  <2>3. \A g \in Files : AzureFile(g)'
    BY <2>1, NoFile DEF AzureFile, AzureTyped
  <2>4. ~revived' => Unrevived'
    BY <2>1 DEF Unrevived, Marked, Checked, Emptied, Noted, Dropped, AzureTyped
  <2> QED
    BY <2>2, <2>3, <2>4, AzureAside
<1> QED
  BY <1>1, <1>2

LEMMA AzureCollections ==
  ASSUME AzureInv,
         \/ AzureCreateCollection \/ DeletionMarks \/ DeletionChecks \/ DeletionDrops
         \/ DeletionForgets
  PROVE  AzureInv' /\ KeepsOutcome
<1> USE DEF AzureInv, deleting, plans, azureVars, base
<1>1. ASSUME AzureCreateCollection PROVE AzureInv' /\ KeepsOutcome
  <2>1. (\A k \in Jobs : Apart(k)) /\ Typed' /\ AzureTyped' /\ \A g \in Files : AzureFile(g)'
    BY <1>1 DEF AzureCreateCollection, Apart, Typed, AzureTyped, AzureFile
  <2>2. ~revived' => Unrevived'
    BY <1>1 DEF AzureCreateCollection, Unrevived, Marked, Checked, Emptied, Noted, Dropped
  <2> QED
    BY <2>1, <2>2, AzureAside
<1>2. ASSUME DeletionMarks PROVE AzureInv' /\ KeepsOutcome
  <2>1. \A f \in Files : found'[f] # "none" => f \in tracked
    BY <1>2 DEF DeletionMarks
  <2>2. found' \in [Files -> FileStates]
    BY <1>2 DEF DeletionMarks, Typed, FileStates
  <2>3. (\A k \in Jobs : Apart(k)) /\ Typed' /\ AzureTyped' /\ \A g \in Files : AzureFile(g)'
    BY <1>2, <2>2 DEF DeletionMarks, Apart, Typed, AzureTyped, AzureFile
  <2>4. \A f \in tracked : status[f] \notin Busy
    BY <1>2 DEF DeletionMarks, AzureFile, AzureTyped, Busy, Settled
  <2>5. ~revived' => Unrevived'
    BY <1>2, <2>1, <2>4 DEF DeletionMarks, Unrevived, Marked, Checked, Emptied, Noted, Dropped
  <2> QED
    BY <2>3, <2>5, AzureAside
<1>3. ASSUME DeletionChecks PROVE AzureInv' /\ KeepsOutcome
  <2> DEFINE seen == [f \in Files |-> IF found[f] # "none" THEN found[f] ELSE manifest[f]]
  <2>1. /\ UNCHANGED <<stored, status, job, at, next, harmed, lost, manifest, tracked, forgotten,
                       prior, erasing, revived>>
        /\ deletion = "marked"
        /\ \/ /\ deletion' = "idle" /\ exists' = prior
              /\ found' = [f \in Files |-> "none"]
           \/ /\ deletion' = "checked" /\ exists' = exists
              /\ found' = seen
              /\ \A f \in Files \ forgotten : seen[f] \notin Busy
    BY <1>3 DEF DeletionChecks, NoPlans
  <2>2. seen \in [Files -> FileStates] /\ [f \in Files |-> "none"] \in [Files -> FileStates]
    BY DEF AzureTyped, FileStates
  <2>3. \A f \in Files : seen[f] = IF found[f] # "none" THEN found[f] ELSE manifest[f]
    OBVIOUS
  <2> HIDE DEF seen
  <2>4. (\A k \in Jobs : Apart(k)) /\ Typed' /\ AzureTyped' /\ \A g \in Files : AzureFile(g)'
    BY <2>1, <2>2 DEF Apart, Typed, AzureTyped, AzureFile
  <2>5. CASE deletion' = "idle"
    <3>1. ~revived' => Unrevived'
      BY <2>1, <2>5 DEF Unrevived, Marked, Checked, Emptied, Noted, Dropped, AzureTyped
    <3> QED
      BY <2>4, <3>1, AzureAside
  <2>6. CASE deletion' = "checked"
    <3>1. /\ exists' = exists /\ found' = seen
          /\ \A f \in Files \ forgotten : seen[f] \notin Busy
      BY <2>1, <2>6
    <3>2. ASSUME ~revived, NEW f \in Files
          PROVE  /\ status[f] \notin Busy \/ manifest[f] \notin Busy
                 /\ seen[f] # "none" => status[f] \notin Busy
      <4>1. CASE f \in forgotten
        BY <4>1 DEF AzureFile, Busy, Settled
      <4>2. CASE found[f] # "none"
        BY <2>1, <3>2, <4>2 DEF Unrevived, Marked
      <4>3. CASE f \notin forgotten /\ found[f] = "none"
        <5>1. manifest[f] \notin Busy /\ seen[f] = manifest[f] /\ manifest[f] \in FileStates
          BY <2>3, <3>1, <4>3 DEF AzureTyped
        <5>2. manifest[f] # "none" => status[f] \in Settled
          BY <5>1 DEF AzureFile, Busy, Settled, FileStates
        <5> QED
          BY <5>1, <5>2 DEF Busy, Settled
      <4> QED
        BY <4>1, <4>2, <4>3
    <3>3. ~revived' => Marked' /\ Checked'
      BY <2>1, <3>1, <3>2 DEF Unrevived, Marked, Checked
    <3>4. ~revived' => Emptied' /\ Noted' /\ Dropped'
      BY <2>1, <2>6, <3>1 DEF Unrevived, Emptied, Noted, Dropped
    <3> QED
      BY <2>4, <3>3, <3>4, AzureAside DEF Unrevived
  <2> QED
    BY <2>1, <2>5, <2>6
<1>4. ASSUME DeletionDrops PROVE AzureInv' /\ KeepsOutcome
  <2>1. (\A k \in Jobs : Apart(k)) /\ Typed' /\ AzureTyped' /\ \A g \in Files : AzureFile(g)'
    BY <1>4 DEF DeletionDrops, Apart, Typed, AzureTyped, AzureFile
  <2>2. ~revived' => Dropped'
    <3> SUFFICES ASSUME ~revived PROVE Dropped'
      BY <1>4 DEF DeletionDrops
    <3>1. /\ deletion = "emptied"
          /\ UNCHANGED <<stored, status, at, tracked>>
      BY <1>4 DEF DeletionDrops
    <3>2. \A f \in Files : stored[f] = "none"
      BY <3>1 DEF Unrevived, Emptied
    <3>3. \A j \in Jobs : at[j] \in Loop => \A f \in FilesOf(j) : status[f] \notin Busy
      BY <3>1, FilesAre DEF Unrevived, Checked, Noted
    <3>4. ASSUME NEW j \in Jobs, at[j] = "manifests" PROVE ~(FilesOf(j) \subseteq tracked)
      <4>1. <<j, 1>> \in FilesOf(j)
        BY FilesAre
      <4>2. status[<<j, 1>>] \in Busy
        BY <3>4, <4>1 DEF AzureJob, Busy
      <4> QED
        BY <3>1, <4>1, <4>2, FilesAre DEF Unrevived, Marked
    <3> QED
      BY <3>1, <3>2, <3>3, <3>4 DEF Dropped
  <2>3. ~revived' => Marked' /\ Checked' /\ Emptied' /\ Noted'
    BY <1>4 DEF DeletionDrops, Unrevived, Marked, Checked, Emptied, Noted
  <2> QED
    BY <2>1, <2>2, <2>3, AzureAside DEF Unrevived
<1>5. ASSUME DeletionForgets PROVE AzureInv' /\ KeepsOutcome
  <2>1. (\A k \in Jobs : Apart(k)) /\ Typed' /\ AzureTyped' /\ \A g \in Files : AzureFile(g)'
    BY <1>5 DEF DeletionForgets, Apart, Typed, AzureTyped, AzureFile
  <2>2. \A j \in Jobs : ~(FilesOf(j) \subseteq tracked')
    <3> SUFFICES ASSUME NEW j \in Jobs PROVE ~(FilesOf(j) \subseteq tracked')
      OBVIOUS
    <3>1. <<j, 1>> \in FilesOf(j)
      BY FilesAre
    <3> QED
      BY <1>5, <3>1 DEF DeletionForgets
  <2>3. ~revived' => Unrevived'
    BY <1>5, <2>2 DEF DeletionForgets, Unrevived, Marked, Checked, Emptied, Noted, Dropped
  <2> QED
    BY <2>1, <2>3, AzureAside
<1> QED
  BY <1>1, <1>2, <1>3, <1>4, <1>5

LEMMA AzureEmpties ==
  ASSUME AzureInv, DeletionEmpties \/ DeletionEmptied \/ DeletionFails
  PROVE  AzureInv' /\ KeepsOutcome
<1> USE DEF AzureInv
<1>1. ASSUME DeletionEmpties PROVE AzureInv' /\ KeepsOutcome
  <2>1. /\ UNCHANGED <<exists, status, job, at, next, lost>>
        /\ UNCHANGED <<tracked, forgotten, prior, found, erasing, revived>>
        /\ deletion = "checked" /\ deletion' = "emptying"
    BY <1>1 DEF DeletionEmpties, plans
  <2>2. /\ \A g \in Files : stored'[g] = Left(g)
        /\ stored' \in [Files -> {"none", "part", "all"}]
    BY <1>1 DEF DeletionEmpties, Left, Typed
  <2>3. /\ harmed \subseteq harmed' /\ harmed' \subseteq Files
        /\ \A g \in Files : Left(g) # stored[g] => g \in harmed'
    BY <1>1 DEF DeletionEmpties, Typed
  <2>4. /\ \A g \in Files : manifest'[g] \in {manifest[g], "none"}
        /\ manifest' \in [Files -> FileStates]
    BY <1>1 DEF DeletionEmpties, AzureTyped, FileStates
  <2>5. \A g \in Files : stored'[g] = stored[g] \/ g \in harmed'
    BY <2>2, <2>3
  <2>6. \A g \in Files : stored[g] = "none" => stored'[g] = "none"
    BY <2>2 DEF Left
  <2>7. (\A k \in Jobs : Apart(k)) /\ Typed'
    BY <2>1, <2>2, <2>3, <2>5, FilesAre DEF Apart, Typed
  <2>8. AzureTyped' /\ \A g \in Files : AzureFile(g)'
    BY <2>1, <2>4 DEF AzureTyped, AzureFile, FileStates, Settled
  <2>9. ~revived' => Marked' /\ Checked' /\ Emptied' /\ Dropped'
    BY <2>1, <2>4, <2>6 DEF Unrevived, Marked, Checked, Emptied, Dropped, Busy
  <2>10. ~revived' => Noted'
    BY <2>1, FilesAre DEF Unrevived, Checked, Noted
  <2> QED
    BY <2>7, <2>8, <2>9, <2>10, AzureAside DEF Unrevived
<1>3. ASSUME DeletionEmptied PROVE AzureInv' /\ KeepsOutcome
  <2>1. /\ UNCHANGED base /\ UNCHANGED <<manifest, tracked, forgotten, prior, erasing, revived>>
        /\ deletion = "emptying" /\ deletion' = "emptied"
        /\ \A f \in Files : stored[f] = "none"
        /\ found' = [f \in Files |-> "none"]
    BY <1>3 DEF DeletionEmptied, NoPlans
  <2>2. found' \in [Files -> FileStates] /\ \A f \in Files : found'[f] = "none"
    BY <2>1 DEF FileStates
  <2>3. (\A k \in Jobs : Apart(k)) /\ Typed' /\ AzureTyped' /\ \A g \in Files : AzureFile(g)'
    BY <2>1, <2>2 DEF base, Apart, Typed, AzureTyped, AzureFile
  <2>4. ~revived' => Marked' /\ Checked'
    BY <2>1, <2>2 DEF base, Unrevived, Marked, Checked
  <2>5. ~revived' => Emptied' /\ Noted' /\ Dropped'
    BY <2>1 DEF base, Unrevived, Emptied, Noted, Dropped
  <2> QED
    BY <2>3, <2>4, <2>5, AzureAside DEF Unrevived
<1>2. ASSUME DeletionFails PROVE AzureInv' /\ KeepsOutcome
  <2>1. /\ UNCHANGED <<exists, status, job, at, next, lost, manifest, tracked, forgotten,
                       prior, erasing, revived>>
        /\ deletion' = "idle" /\ found' = [f \in Files |-> "none"]
    BY <1>2 DEF DeletionFails, NoPlans
  <2>2. /\ \A k \in Jobs : Apart(k)
        /\ \A g \in Files : stored'[g] \in {stored[g], "none"}
        /\ Typed'
    <3>1. CASE UNCHANGED <<stored, harmed>>
      BY <2>1, <3>1 DEF Apart, Typed
    <3>2. ASSUME NEW f \in Files, Lose({f})
          PROVE  /\ \A k \in Jobs : Apart(k)
                 /\ \A g \in Files : stored'[g] \in {stored[g], "none"}
                 /\ Typed'
      BY <2>1, <3>2, LoseApart DEF Typed
    <3> QED
      BY <1>2, <3>1, <3>2 DEF DeletionFails
  <2>3. AzureTyped' /\ \A g \in Files : AzureFile(g)'
    BY <2>1 DEF AzureTyped, AzureFile, FileStates
  <2>4. ~revived' => Unrevived'
    BY <2>1, <2>2 DEF Unrevived, Marked, Checked, Emptied, Noted, Dropped
  <2> QED
    BY <2>2, <2>3, <2>4, AzureAside
<1> QED
  BY <1>1, <1>2, <1>3

LEMMA AzureStep == AzureInv /\ AzureNext => AzureInv' /\ KeepsOutcome
BY AzureWorkerStep, AzureSubmitStep, AzureFileDeletes, AzureCollections, AzureEmpties
DEF AzureNext

LEMMA AzureRests == AzureInv /\ UNCHANGED <<base, azureVars>> => AzureInv'
BY DEF AzureInv, base, azureVars, deleting, plans, Typed, AzureTyped, AzureJob, AzureFile, HasFile,
       Unrevived, Marked, Checked, Emptied, Noted, Dropped

LEMMA AzureTruthful == AzureInv => MCTruthful
BY FilesAre DEF AzureInv, AzureJob, Settled, MCTruthful, TruthfulBut

-----------------------------------------------------------------------------
(* The embedded NeMo Retriever.                                            *)

Slots == 1..Len(queue)

NemoTyped ==
  /\ queue \in Seq(Files)
  /\ current = <<>> \/ current \in Files
  /\ closed \in BOOLEAN

\* No document is queued twice, or queued and being written; these documents
\* are the active ones.
NemoBooks ==
  /\ \A m, n \in Slots : Document(queue[m]) = Document(queue[n]) => m = n
  /\ \A m \in Slots : current # <<>> => Document(current) # Document(queue[m])
  /\ \A d \in active : \/ \E m \in Slots : d = Document(queue[m])
                       \/ current # <<>> /\ d = Document(current)
  /\ \A m \in Slots : Document(queue[m]) \in active
  /\ current # <<>> => Document(current) \in active

\* The status of a file agrees with its place, that of a job with its files.
NemoPlaces ==
  /\ \A m \in Slots : status[queue[m]] = "UPLOADING"
  /\ current # <<>> => status[current] \in {"INGESTING", "SUCCESS", "FAILED"}

NemoJob(j) ==
  \A f \in FilesOf(j) :
    /\ status[f] = "none" <=> job[j] = "none"
    /\ job[j] \in Ended => status[f] \in Settled

NemoInv ==
  /\ Typed /\ NemoTyped
  /\ exists # "deleting"
  /\ NemoBooks /\ NemoPlaces
  /\ \A j \in Jobs : NemoJob(j)
  /\ Searchable
  /\ GoneIsEmpty

LEMMA NemoFirst == KnowledgeInit /\ NemoInit => NemoInv
<1> SUFFICES ASSUME KnowledgeInit, NemoInit PROVE NemoInv
  OBVIOUS
<1>1. Typed
  BY FilesAre DEF KnowledgeInit, Typed, JobStates, FileStates, Places
<1>2. NemoTyped /\ Len(queue) = 0
  BY EmptySeq DEF NemoInit, NemoTyped
<1>3. NemoBooks /\ NemoPlaces
  BY <1>2 DEF NemoInit, NemoBooks, NemoPlaces, Slots
<1>4. \A j \in Jobs : NemoJob(j)
  BY FilesAre DEF KnowledgeInit, NemoJob, Ended
<1> QED
  BY <1>1, <1>2, <1>3, <1>4 DEF KnowledgeInit, NemoInv, Searchable, GoneIsEmpty

LEMMA NemoApart ==
  ASSUME NEW k \in Jobs, NemoJob(k), Apart(k)
  PROVE  NemoJob(k)'
BY FilesAre DEF NemoJob, Apart

\* A job whose state says that it ended has no file left in the works.
LEMMA ComputedIs ==
  ASSUME NEW j \in Jobs, NEW st, NEW began \in BOOLEAN
  PROVE  /\ Computed(st, j, began) \in JobStates \ {"none"}
         /\ Computed(st, j, began) \in Ended => \A f \in FilesOf(j) : st[f] \notin Busy
BY DEF Computed, Ended, JobStates, Busy

\* The queue as the steps see it.
LEMMA QueueIs ==
  ASSUME NemoTyped
  PROVE  /\ Len(queue) \in Nat /\ DOMAIN queue = Slots
         /\ \A m \in Slots : queue[m] \in Files
         /\ queue # <<>> => /\ 1 \in Slots /\ Head(queue) = queue[1]
                            /\ Tail(queue) \in Seq(Files)
                            /\ Len(Tail(queue)) = Len(queue) - 1
                            /\ \A m \in 1..Len(Tail(queue)) : /\ m + 1 \in Slots
                                                              /\ Tail(queue)[m] = queue[m + 1]
<1>1. /\ Len(queue) \in Nat /\ queue \in [Slots -> Files] /\ DOMAIN queue = Slots
  BY LenProperties DEF NemoTyped, Slots
<1>2. ASSUME queue # <<>>
      PROVE  /\ Tail(queue) \in Seq(Files)
             /\ Len(Tail(queue)) = Len(queue) - 1
             /\ \A m \in 1..Len(Tail(queue)) : Tail(queue)[m] = queue[m + 1]
  BY <1>2, HeadTailProperties DEF NemoTyped
<1>3. queue # <<>> => Len(queue) \in Nat \ {0}
  BY EmptySeq DEF NemoTyped
<1>4. Head(queue) = queue[1]
  BY DEF NemoTyped
<1> QED
  BY <1>1, <1>2, <1>3, <1>4 DEF Slots

\* submit_job.
LEMMA NemoSubmits ==
  ASSUME NemoInv, NEW j \in Jobs, NemoSubmit(j)
  PROVE  NemoInv' /\ KeepsOutcome
<1> USE DEF NemoInv
<1> DEFINE batch == [i \in 1..Count[j] |-> <<j, i>>]
           len == Len(queue)
<1>1. Count[j] \in Nat
  BY FilesAre
<1>2. batch \in Seq(Files) /\ Len(batch) = Count[j] /\ \A i \in 1..Count[j] : batch[i] = <<j, i>>
  <2>1. \A i \in 1..Count[j] : <<j, i>> \in Files
    BY FilesAre
  <2> QED
    BY <1>1, <2>1, LenProperties
<1>3. len \in Nat /\ queue \in Seq(Files)
  BY QueueIs DEF NemoTyped
<1> HIDE DEF batch, len
<1>4. /\ queue' \in Seq(Files) /\ Len(queue') = len + Count[j]
      /\ \A m \in 1..(len + Count[j]) : queue'[m] = IF m <= len THEN queue[m] ELSE batch[m - len]
  <2>1. queue' = queue \o batch
    BY DEF NemoSubmit, batch
  <2> QED
    <3>1. /\ queue \o batch \in Seq(Files) /\ Len(queue \o batch) = Len(queue) + Len(batch)
          /\ \A m \in 1..(Len(queue) + Len(batch)) :
               (queue \o batch)[m] = IF m <= Len(queue) THEN queue[m] ELSE batch[m - Len(queue)]
      BY <1>2, <1>3, ConcatProperties
    <3> QED
      BY <1>2, <2>1, <3>1 DEF len
<1>5. Slots = 1..len /\ Slots' = 1..(len + Count[j])
  BY <1>4 DEF Slots, len
<1>6. /\ \A m \in 1..len : queue'[m] = queue[m]
      /\ \A m \in Slots' \ Slots : /\ m - len \in 1..Count[j]
                                   /\ queue'[m] = <<j, m - len>>
                                   /\ Document(queue'[m]) = m - len
  <2>1. ASSUME NEW m \in 1..len PROVE queue'[m] = queue[m]
    <3>1. m \in 1..(len + Count[j]) /\ m <= len
      BY <1>1, <1>3
    <3> QED
      BY <1>4, <3>1
  <2>2. ASSUME NEW m \in Slots' \ Slots
        PROVE  m - len \in 1..Count[j] /\ queue'[m] = <<j, m - len>> /\ Document(queue'[m]) = m - len
    <3>1. m \in 1..(len + Count[j]) /\ ~(m <= len)
      BY <1>1, <1>3, <1>5
    <3>2. m - len \in 1..Count[j]
      BY <1>1, <1>3, <3>1
    <3>3. queue'[m] = batch[m - len]
      BY <1>4, <3>1
    <3>4. queue'[m] = <<j, m - len>>
      BY <1>2, <3>2, <3>3
    <3> QED
      BY <3>2, <3>4 DEF Document
  <2> QED
    BY <2>1, <2>2
<1>7. /\ active' = active \cup (1..Count[j]) /\ (1..Count[j]) \cap active = {}
      /\ UNCHANGED <<exists, stored, harmed, current, closed>>
      /\ \A f \in Files : status'[f] = IF f \in FilesOf(j) THEN "UPLOADING" ELSE status[f]
  BY DEF NemoSubmit, Registers, Become, Documents
<1>8. /\ Typed' /\ job[j] = "none" /\ job'[j] = "PENDING"
      /\ \A k \in Jobs \ {j} : Apart(k)
      /\ Searchable'
  BY RegistersApart DEF NemoSubmit, Places
<1>9. NemoJob(j)'
  BY <1>7, <1>8, FilesAre DEF NemoJob, Ended
<1>10. NemoTyped'
  BY <1>4, <1>7 DEF NemoTyped
<1>11. NemoBooks'
  <2>1. ASSUME NEW m \in Slots', NEW n \in Slots', Document(queue'[m]) = Document(queue'[n])
        PROVE  m = n
    <3>1. CASE m \in Slots /\ n \in Slots
      BY <1>5, <1>6, <2>1, <3>1 DEF NemoBooks
    <3>2. CASE m \notin Slots /\ n \notin Slots
      <4>1. m - len = n - len /\ m \in Nat /\ n \in Nat
        BY <1>5, <1>6, <2>1, <3>2
      <4> QED
        BY <1>3, <4>1
    <3>3. CASE ~(m \in Slots <=> n \in Slots)
      BY <1>5, <1>6, <1>7, <2>1, <3>3 DEF NemoBooks
    <3> QED
      BY <3>1, <3>2, <3>3
  <2>2. ASSUME NEW m \in Slots'
        PROVE  /\ Document(queue'[m]) \in active'
               /\ current' # <<>> => Document(current') # Document(queue'[m])
    <3>1. CASE m \in Slots
      BY <1>5, <1>6, <1>7, <3>1 DEF NemoBooks
    <3>2. CASE m \notin Slots
      BY <1>5, <1>6, <1>7, <3>2 DEF NemoBooks
    <3> QED
      BY <3>1, <3>2
  <2>3. ASSUME NEW d \in active'
        PROVE  \/ \E m \in Slots' : d = Document(queue'[m])
               \/ current' # <<>> /\ d = Document(current')
    <3>1. CASE d \in active
      <4>1. CASE current # <<>> /\ d = Document(current)
        BY <1>7, <4>1
      <4>2. ASSUME NEW m \in Slots, d = Document(queue[m])
            PROVE  \E n \in Slots' : d = Document(queue'[n])
        <5>1. m \in Slots'
          BY <1>1, <1>3, <1>5
        <5> QED
          BY <1>5, <1>6, <4>2, <5>1
      <4> QED
        BY <3>1, <4>1, <4>2 DEF NemoBooks
    <3>2. CASE d \in 1..Count[j]
      <4>1. d + len \in Slots' \ Slots /\ (d + len) - len = d
        BY <1>1, <1>3, <1>5, <3>2
      <4> QED
        BY <1>6, <4>1
    <3> QED
      BY <1>7, <2>3, <3>1, <3>2
  <2>4. current' # <<>> => Document(current') \in active'
    BY <1>7 DEF NemoBooks
  <2> QED
    BY <2>1, <2>2, <2>3, <2>4 DEF NemoBooks
<1>12. NemoPlaces'
  <2>1. ASSUME NEW m \in Slots' PROVE status'[queue'[m]] = "UPLOADING"
    <3>1. CASE m \in Slots
      BY <1>5, <1>6, <1>7, <3>1, QueueIs DEF NemoPlaces
    <3>2. CASE m \notin Slots
      <4>1. m - len \in 1..Count[j] /\ queue'[m] = <<j, m - len>>
        BY <1>6, <3>2
      <4>2. queue'[m] \in FilesOf(j) /\ queue'[m] \in Files
        BY <4>1, FilesAre
      <4> QED
        BY <1>7, <4>2
    <3> QED
      BY <3>1, <3>2
  <2>2. current # <<>> => current \notin FilesOf(j)
    BY <1>8, FilesAre DEF NemoPlaces, NemoJob
  <2> QED
    BY <1>7, <2>1, <2>2 DEF NemoPlaces, NemoTyped
<1> QED
  BY <1>7, <1>8, <1>9, <1>10, <1>11, <1>12, NemoApart, ApartKeeps DEF Ended, GoneIsEmpty

LEMMA NemoTakes ==
  ASSUME NemoInv, Takes
  PROVE  NemoInv' /\ KeepsOutcome
<1> USE DEF NemoInv
<1>0. /\ queue # <<>> /\ current = <<>> /\ current' = queue[1] /\ 1 \in Slots
      /\ queue[1] \in Files /\ queue[1] # <<>>
      /\ queue' = Tail(queue) /\ queue' \in Seq(Files)
      /\ Len(queue) \in Nat /\ Len(queue') = Len(queue) - 1
      /\ \A m \in Slots' : m + 1 \in Slots /\ m \in Nat /\ m >= 1 /\ queue'[m] = queue[m + 1]
      /\ UNCHANGED <<exists, stored, at, next, harmed, lost, active, closed>>
  BY QueueIs, NoFile DEF Takes, Slots
<1>1. PICK f \in Files : f = queue[1]
  BY <1>0
<1> DEFINE j == f[1]
<1>2. j \in Jobs /\ f \in FilesOf(j)
  BY FilesAre
<1>3. PICK st : status' = st
  OBVIOUS
<1>4. /\ \A g \in Files : status'[g] = IF g = f THEN "INGESTING" ELSE status[g]
      /\ status' \in [Files -> FileStates]
      /\ job' = [job EXCEPT ![j] = Computed(st, j, TRUE)]
  <2>1. current' = f
    BY <1>0, <1>1
  <2>2. Become({f}, "INGESTING") /\ JobBecomes(j, Computed(status', j, TRUE))
    BY <2>1 DEF Takes
  <2> QED
    BY <1>3, <2>2 DEF Become, JobBecomes, Typed, FileStates
<1>5. /\ Computed(st, j, TRUE) \in JobStates \ {"none"}
      /\ Computed(st, j, TRUE) \in Ended => \A g \in FilesOf(j) : st[g] \notin Busy
  BY <1>2, ComputedIs
<1>6. Typed' /\ Searchable' /\ GoneIsEmpty'
  BY <1>0, <1>4, <1>5 DEF Typed, Searchable, GoneIsEmpty
<1>7. (\A k \in Jobs \ {j} : Apart(k)) /\ job[j] \notin Ended
  <2>1. status[f] = "UPLOADING"
    BY <1>0, <1>1 DEF NemoPlaces
  <2>2. job[j] \notin Ended
    BY <1>2, <2>1 DEF NemoJob, Settled
  <2>3. ASSUME NEW k \in Jobs, k # j PROVE Apart(k)
    <3>1. \A g \in FilesOf(k) : g \in Files /\ status'[g] = status[g]
      BY <1>2, <1>4, <2>3, FilesAre
    <3>2. job'[k] = job[k]
      BY <1>2, <1>4, <2>3 DEF Typed
    <3> QED
      BY <1>0, <3>1, <3>2 DEF Apart
  <2> QED
    BY <2>2, <2>3
<1>8. NemoJob(j)'
  <2>1. status[f] = "UPLOADING"
    BY <1>0, <1>1 DEF NemoPlaces
  <2>2. job'[j] = Computed(st, j, TRUE) /\ job[j] # "none"
    BY <1>2, <1>4, <2>1 DEF NemoJob, Typed
  <2>3. job'[j] \notin Ended
    BY <1>2, <1>3, <1>4, <1>5, <2>2 DEF Busy
  <2>4. \A g \in FilesOf(j) : status'[g] # "none"
    BY <1>2, <1>4, <2>2, FilesAre DEF NemoJob
  <2> QED
    BY <1>5, <2>2, <2>3, <2>4 DEF NemoJob
<1>9. NemoTyped'
  BY <1>0 DEF NemoTyped
<1>10. NemoBooks'
  <2>1. ASSUME NEW m \in Slots', NEW n \in Slots', Document(queue'[m]) = Document(queue'[n])
        PROVE  m = n
    <3>1. m + 1 = n + 1
      <4>1. m + 1 \in Slots /\ queue'[m] = queue[m + 1] /\ n + 1 \in Slots /\ queue'[n] = queue[n + 1]
        BY <1>0
      <4> QED
        BY <2>1, <4>1 DEF NemoBooks
    <3> QED
      BY <1>0, <3>1
  <2>2. ASSUME NEW m \in Slots'
        PROVE  Document(queue'[m]) \in active' /\ Document(current') # Document(queue'[m])
    <3>0. m \in Nat /\ m >= 1 /\ m + 1 \in Slots /\ queue'[m] = queue[m + 1]
      BY <1>0
    <3>1. m + 1 # 1 /\ m + 1 \in Slots /\ queue'[m] = queue[m + 1]
      BY <3>0
    <3>2. Document(queue[m + 1]) \in active /\ Document(queue[m + 1]) # Document(queue[1])
      BY <1>0, <3>1 DEF NemoBooks
    <3> QED
      BY <1>0, <3>1, <3>2
  <2>3. ASSUME NEW d \in active'
        PROVE  (\E m \in Slots' : d = Document(queue'[m])) \/ d = Document(current')
    <3>1. PICK m \in Slots : d = Document(queue[m])
      BY <1>0 DEF NemoBooks
    <3>2. CASE m # 1
      <4>1. m - 1 \in Slots' /\ (m - 1) + 1 = m
        BY <1>0, <3>2 DEF Slots
      <4> QED
        BY <1>0, <3>1, <4>1
    <3> QED
      BY <1>0, <3>1, <3>2
  <2>4. Document(current') \in active'
    BY <1>0 DEF NemoBooks
  <2> QED
    BY <1>0, <2>1, <2>2, <2>3, <2>4 DEF NemoBooks
<1>11. NemoPlaces'
  <2>1. ASSUME NEW m \in Slots' PROVE status'[queue'[m]] = "UPLOADING"
    <3>1. m + 1 \in Slots /\ queue'[m] = queue[m + 1] /\ queue[m + 1] \in Files /\ m + 1 # 1
      BY <1>0, QueueIs
    <3>2. queue[m + 1] # f
      BY <1>0, <1>1, <3>1 DEF NemoBooks
    <3> QED
      BY <1>4, <3>1, <3>2 DEF NemoPlaces
  <2>2. status'[current'] = "INGESTING"
    BY <1>0, <1>1, <1>4
  <2> QED
    BY <2>1, <2>2 DEF NemoPlaces
<1> HIDE DEF j
<1> QED
  BY <1>0, <1>2, <1>6, <1>7, <1>8, <1>9, <1>10, <1>11, NemoApart, ApartKeeps

\* The file in hand is written, or not.
LEMMA NemoWrites ==
  ASSUME NemoInv, Writes \/ WriteFails
  PROVE  NemoInv' /\ KeepsOutcome
<1> USE DEF NemoInv
<1>0. /\ current # <<>> /\ current \in Files /\ status[current] = "INGESTING"
      /\ UNCHANGED <<exists, at, next, harmed, lost, queue, current, active, closed>>
  BY DEF Writes, WriteFails, NemoSettles, nemoVars, NemoTyped
<1>1. PICK f \in Files : f = current
  BY <1>0
<1> DEFINE j == f[1]
<1>2. j \in Jobs /\ f \in FilesOf(j)
  BY FilesAre
<1>3. PICK st : status' = st
  OBVIOUS
<1>4. PICK s \in Settled :
      /\ \A g \in Files : status'[g] = IF g = f THEN s ELSE status[g]
      /\ status' \in [Files -> FileStates]
      /\ job' = [job EXCEPT ![j] = Computed(st, j, TRUE)]
      /\ \/ UNCHANGED stored /\ s = "FAILED"
         \/ stored' = [stored EXCEPT ![f] = "all"] /\ exists = "active"
  <2>1. PICK s \in Settled :
        /\ Become({f}, s) /\ JobBecomes(j, Computed(status', j, TRUE))
        /\ \/ UNCHANGED stored /\ s = "FAILED"
           \/ stored' = [stored EXCEPT ![f] = "all"] /\ exists = "active"
    BY <1>1 DEF Writes, WriteFails, NemoSettles, Settled
  <2> QED
    BY <1>3, <2>1 DEF Become, JobBecomes, Typed, FileStates, Settled
<1>5. /\ Computed(st, j, TRUE) \in JobStates \ {"none"}
      /\ Computed(st, j, TRUE) \in Ended => \A g \in FilesOf(j) : st[g] \notin Busy
  BY <1>2, ComputedIs
<1>6. Typed' /\ Searchable' /\ GoneIsEmpty'
  <2>1. stored' \in [Files -> {"none", "part", "all"}]
    BY <1>4 DEF Typed
  <2> QED
    BY <1>0, <1>4, <1>5, <2>1 DEF Typed, Searchable, GoneIsEmpty
<1>7. (\A k \in Jobs \ {j} : Apart(k)) /\ job[j] \notin Ended
  <2>1. job[j] \notin Ended
    BY <1>0, <1>1, <1>2 DEF NemoJob, Settled
  <2>2. \A k \in Jobs \ {j} : Apart(k)
    <3>1. \A g \in Files : g # f => stored'[g] = stored[g] /\ status'[g] = status[g]
      BY <1>4 DEF Typed
    <3>2. \A k \in Jobs \ {j} : job'[k] = job[k] /\ \A g \in FilesOf(k) : g \in Files /\ g # f
      BY <1>4, FilesAre DEF Typed
    <3> QED
      BY <1>0, <3>1, <3>2 DEF Apart
  <2> QED
    BY <2>1, <2>2
<1>8. NemoJob(j)'
  <2>1. job'[j] = Computed(st, j, TRUE) /\ job[j] # "none"
    BY <1>0, <1>1, <1>2, <1>4 DEF NemoJob, Typed
  <2>2. \A g \in FilesOf(j) : status'[g] # "none" /\ status'[g] \in FileStates
    BY <1>2, <1>4, <2>1, FilesAre DEF NemoJob, Settled
  <2>3. job'[j] \in Ended => \A g \in FilesOf(j) : status'[g] \in Settled
    BY <1>3, <1>5, <2>1, <2>2 DEF Busy, Settled, FileStates
  <2> QED
    BY <1>5, <2>1, <2>2, <2>3 DEF NemoJob
<1>9. NemoTyped' /\ NemoBooks'
  BY <1>0 DEF NemoTyped, NemoBooks, Slots
<1>10. NemoPlaces'
  <2>1. ASSUME NEW m \in Slots PROVE queue[m] # f /\ queue[m] \in Files
    BY <1>0, <1>1, QueueIs DEF NemoBooks
  <2> QED
    BY <1>0, <1>1, <1>4, <2>1 DEF NemoPlaces, Slots, Settled
<1> HIDE DEF j
<1> QED
  BY <1>0, <1>2, <1>6, <1>7, <1>8, <1>9, <1>10, NemoApart, ApartKeeps

LEMMA NemoReleases ==
  ASSUME NemoInv, Releases \/ Closes
  PROVE  NemoInv' /\ KeepsOutcome
<1> USE DEF NemoInv
<1>1. /\ UNCHANGED <<exists, stored, status, job, at, next, harmed>>
      /\ lost' \subseteq Jobs
  <2>1. CASE Releases
    BY <2>1 DEF Releases, base, Typed
  <2>2. CASE Closes
    BY <2>2, QueueIs, FilesAre DEF Closes, Typed
  <2> QED
    BY <2>1, <2>2
<1>2. Typed' /\ Searchable' /\ GoneIsEmpty' /\ \A k \in Jobs : Apart(k)
  BY <1>1 DEF Typed, Searchable, GoneIsEmpty, Apart
<1>3. CASE Releases
  <2>1. /\ current # <<>> /\ current' = <<>> /\ UNCHANGED <<queue, closed>>
        /\ active' = active \ {Document(current)}
    BY <1>3 DEF Releases
  <2>2. NemoTyped' /\ NemoBooks' /\ NemoPlaces'
    BY <1>1, <2>1 DEF NemoTyped, NemoBooks, NemoPlaces, Slots
  <2> QED
    BY <1>1, <1>2, <2>2, NemoApart, AllApart
<1>4. CASE Closes
  <2>1. /\ queue' = <<>> /\ current' = current /\ closed' = TRUE
        /\ active' = active \ {Document(queue[i]) : i \in Slots}
    BY <1>4, QueueIs DEF Closes
  <2>2. Slots' = {} /\ queue' \in Seq(Files)
    BY <2>1, EmptySeq DEF Slots
  <2>3. NemoTyped' /\ NemoBooks' /\ NemoPlaces'
    BY <1>1, <2>1, <2>2 DEF NemoTyped, NemoBooks, NemoPlaces
  <2> QED
    BY <1>1, <1>2, <2>3, NemoApart, AllApart
<1> QED
  BY <1>3, <1>4

LEMMA NemoDeletes ==
  ASSUME NemoInv,
         \/ NemoCreateCollection \/ NemoDeleteCollection \/ Expires
         \/ \E f \in Files : NemoDeleteFile(f)
  PROVE  NemoInv' /\ KeepsOutcome
<1> USE DEF NemoInv
<1>0. NemoTyped' /\ NemoBooks' /\ NemoPlaces'
  BY DEF NemoCreateCollection, NemoDeleteCollection, Expires, NemoDeleteFile, nemoVars,
         NemoTyped, NemoBooks, NemoPlaces, Slots
<1>1. ASSUME \A k \in Jobs : Apart(k) PROVE (\A k \in Jobs : NemoJob(k)') /\ KeepsOutcome
  BY <1>1, AllApart, NemoApart
<1>2. CASE NemoCreateCollection
  <2>1. \A k \in Jobs : Apart(k)
    BY <1>2 DEF NemoCreateCollection, Apart
  <2> QED
    BY <1>0, <1>1, <1>2, <2>1 DEF NemoCreateCollection, Typed, Searchable, GoneIsEmpty
<1>3. CASE NemoDeleteCollection \/ Expires
  <2>1. Lose(Files) /\ UNCHANGED <<status, job, at, next, lost>> /\ exists' = "none"
    BY <1>3 DEF NemoDeleteCollection, Expires
  <2>2. /\ \A k \in Jobs : Apart(k)
        /\ \A f \in Files : stored'[f] = "none"
        /\ Typed' /\ Searchable'
    BY <2>1, LoseApart
  <2> QED
    BY <1>0, <1>1, <2>1, <2>2 DEF GoneIsEmpty
<1>4. ASSUME NEW f \in Files, NemoDeleteFile(f) PROVE NemoInv' /\ KeepsOutcome
  <2>1. /\ Lose(Namesakes(f)) /\ UNCHANGED <<status, job, at, next, lost>>
        /\ exists = "active" /\ exists' = "active"
    BY <1>4 DEF NemoDeleteFile
  <2>2. (\A k \in Jobs : Apart(k)) /\ Typed' /\ Searchable'
    BY <2>1, LoseApart DEF Namesakes
  <2> QED
    BY <1>0, <1>1, <2>1, <2>2 DEF GoneIsEmpty
<1> QED
  BY <1>2, <1>3, <1>4

LEMMA NemoStep == NemoInv /\ NemoNext => NemoInv' /\ KeepsOutcome
BY NemoSubmits, NemoTakes, NemoWrites, NemoReleases, NemoDeletes DEF NemoNext, NemoWorker

LEMMA NemoRests == NemoInv /\ UNCHANGED <<base, nemoVars>> => NemoInv'
BY DEF NemoInv, base, nemoVars, Typed, NemoTyped, NemoBooks, NemoPlaces, NemoJob, Slots,
       Searchable, GoneIsEmpty

LEMMA NemoTruthful == NemoInv => MCTruthful
BY FilesAre DEF NemoInv, NemoJob, Searchable, Settled, Ended, MCTruthful, TruthfulBut

\* The numbers that ActiveIsQueued compares.
LEMMA ActiveQueued ==
  ASSUME NemoTyped, NemoBooks
  PROVE  ActiveIsQueued
<1> DEFINE held == {current} \ {<<>>}
           open == Range(queue) \cup held
<1>1. /\ Len(queue) \in Nat /\ DOMAIN queue = Slots /\ \A m \in Slots : queue[m] \in Files
  BY QueueIs
<1>2. Range(queue) = {queue[m] : m \in Slots}
  BY <1>1 DEF Range
<1>3. IsFiniteSet(Range(queue)) /\ Cardinality(Range(queue)) = Len(queue)
  <2>1. IsFiniteSet(Slots) /\ Cardinality(Slots) = Len(queue)
    BY <1>1, FS_Interval, SMTT(30) DEF Slots
  <2>2. queue \in [Slots -> Range(queue)]
    BY <1>1, <1>2, LenProperties DEF NemoTyped, Slots
  <2>3. \A m, n \in Slots : queue[m] = queue[n] => m = n
    BY DEF NemoBooks
  <2>4. \A f \in Range(queue) : \E m \in Slots : queue[m] = f
    BY <1>2
  <2> QED
    BY <2>1, <2>2, <2>3, <2>4, SameSize
<1>4. IsFiniteSet(held)
  BY FS_Singleton, FS_Subset
<1>5. IsFiniteSet(open)
  BY <1>3, <1>4, FS_Union
<1>6. active = {Document(f) : f \in open}
  BY <1>2 DEF NemoBooks
<1>7. \A f, g \in open : Document(f) = Document(g) => f = g
  BY <1>2 DEF NemoBooks
<1> DEFINE doc == [f \in open |-> Document(f)]
<1>8. doc \in [open -> active]
  BY <1>6
<1>9. \A d \in active : \E f \in open : doc[f] = d
  BY <1>6
<1>10. \A f, g \in open : doc[f] = doc[g] => f = g
  BY <1>7
<1>11. Cardinality(active) = Cardinality(open)
  <2> HIDE DEF doc, open
  <2> QED
    BY <1>5, <1>8, <1>9, <1>10, SameSize
<1> QED
  BY <1>3, <1>6, <1>11 DEF ActiveIsQueued

-----------------------------------------------------------------------------
(* The NeMo service.                                                       *)

\* Files whose upload is still to end.
Pending == {f \in Files : at[f[1]] = "create" \/ status[f] = "UPLOADING"}

ServiceTyped == rejected \subseteq Files /\ shut \in BOOLEAN

ServiceJob(j) ==
  /\ at[j] \in {"none", "create", "upload"}
  /\ at[j] \in {"none", "create"} =>
       job[j] = "none" /\ \A f \in FilesOf(j) : status[f] = "none"
  /\ at[j] = "upload" => \A f \in FilesOf(j) : status[f] # "none"
  /\ job[j] \in Ended => \A f \in FilesOf(j) : status[f] \in Settled

\* The room taken is counted on a finite set of files.
ServiceInv ==
  /\ Typed /\ ServiceTyped
  /\ exists # "deleting"
  /\ \A j \in Jobs : ServiceJob(j)
  /\ IsFiniteSet(Pending) /\ outstanding = Cardinality(Pending) /\ outstanding <= MaxUploads
  /\ Searchable
  /\ GoneIsEmpty

LEMMA ServiceFirst == KnowledgeInit /\ ServiceInit => ServiceInv
<1> SUFFICES ASSUME KnowledgeInit, ServiceInit PROVE ServiceInv
  OBVIOUS
<1>1. Typed
  BY FilesAre DEF KnowledgeInit, Typed, JobStates, FileStates, Places
<1>2. ServiceTyped
  BY DEF ServiceInit, ServiceTyped
<1>3. \A j \in Jobs : ServiceJob(j)
  BY FilesAre DEF KnowledgeInit, ServiceJob, Ended
<1>4. Pending = {}
  BY FilesAre DEF KnowledgeInit, Pending
<1>5. outstanding = Cardinality(Pending) /\ IsFiniteSet(Pending) /\ outstanding <= MaxUploads
  BY <1>4, FS_EmptySet, UploadsAssumption DEF ServiceInit
<1> QED
  BY <1>1, <1>2, <1>3, <1>5 DEF KnowledgeInit, ServiceInv, Searchable, GoneIsEmpty

LEMMA ServiceApart ==
  ASSUME NEW k \in Jobs, ServiceJob(k), Apart(k)
  PROVE  ServiceJob(k)'
BY FilesAre DEF ServiceJob, Apart

\* A job whose state says that it ended has no file left in the works.
LEMMA CombinedIs ==
  ASSUME NEW j \in Jobs, NEW st, NEW rej
  PROVE  /\ Combined(st, j, rej) \in JobStates \ {"none"}
         /\ Combined(st, j, rej) \in Ended => \A f \in FilesOf(j) : st[f] \notin Busy
<1>1. Verdict(st, j) \in {"FAILED", "COMPLETED"}
  BY DEF Verdict
<1> QED
  BY <1>1 DEF Combined, Ended, JobStates, Busy

\* A step on one job that keeps the books of the room.
ServiceStepOf(j) ==
  /\ Typed' /\ ServiceTyped' /\ exists' # "deleting"
  /\ \A k \in Jobs \ {j} : Apart(k)
  /\ ServiceJob(j)'
  /\ (IsFiniteSet(Pending) /\ outstanding = Cardinality(Pending) /\ outstanding <= MaxUploads)'
  /\ Searchable' /\ GoneIsEmpty'

LEMMA ServiceStepKeeps ==
  ASSUME ServiceInv, NEW j \in Jobs, ServiceStepOf(j), job[j] \notin Ended
  PROVE  ServiceInv' /\ KeepsOutcome
<1>1. \A k \in Jobs : ServiceJob(k)'
  BY ServiceApart DEF ServiceInv, ServiceStepOf
<1>2. KeepsOutcome
  BY ApartKeeps DEF ServiceStepOf
<1> QED
  BY <1>1, <1>2 DEF ServiceInv, ServiceStepOf

LEMMA ServiceSubmits ==
  ASSUME ServiceInv, NEW j \in Jobs, Reserves(j) \/ Submission(j)
  PROVE  ServiceInv' /\ KeepsOutcome
<1> USE FilesAre, UploadsAssumption DEF ServiceInv, ServiceTyped, Typed, serviceVars
<1>0. /\ IsFiniteSet(FilesOf(j)) /\ Cardinality(FilesOf(j)) = Count[j]
      /\ Cardinality(Pending) \in Nat /\ FilesOf(j) \subseteq Files
  BY FilesCount, FS_CardinalityType
<1>1. ASSUME Reserves(j) PROVE ServiceInv' /\ KeepsOutcome
  <2>1. Typed' /\ ServiceTyped' /\ exists' # "deleting" /\ Searchable' /\ GoneIsEmpty'
    BY <1>1 DEF Reserves, Goes, Places, Searchable, GoneIsEmpty
  <2>2. (\A k \in Jobs \ {j} : Apart(k)) /\ ServiceJob(j)' /\ job[j] \notin Ended
    BY <1>1 DEF Reserves, Goes, Apart, ServiceJob, Ended
  <2>3. Pending' = Pending \cup FilesOf(j) /\ Pending \cap FilesOf(j) = {}
    BY <1>1 DEF Reserves, Goes, Pending, ServiceJob
  <2>4. IsFiniteSet(Pending') /\ Cardinality(Pending') = Cardinality(Pending) + Count[j]
    <3>1. /\ IsFiniteSet(Pending \cup FilesOf(j))
          /\ Cardinality(Pending \cup FilesOf(j)) =
               Cardinality(Pending) + Cardinality(FilesOf(j)) - Cardinality(Pending \cap FilesOf(j))
      BY <1>0, FS_Union
    <3>2. Cardinality(Pending \cap FilesOf(j)) = 0
      BY <2>3, FS_EmptySet
    <3> QED
      BY <1>0, <2>3, <3>1, <3>2
  <2>5. outstanding' = Cardinality(Pending') /\ outstanding' <= MaxUploads
    BY <1>1, <2>4 DEF Reserves
  <2> QED
    BY <2>1, <2>2, <2>4, <2>5, ServiceStepKeeps DEF ServiceStepOf
<1>2. ASSUME CreateFails(j) PROVE ServiceInv' /\ KeepsOutcome
  <2>1. Typed' /\ ServiceTyped' /\ exists' # "deleting" /\ Searchable' /\ GoneIsEmpty'
    BY <1>2 DEF CreateFails, Goes, Places, Searchable, GoneIsEmpty
  <2>2. (\A k \in Jobs \ {j} : Apart(k)) /\ ServiceJob(j)' /\ job[j] \notin Ended
    BY <1>2 DEF CreateFails, Goes, Apart, ServiceJob, Ended
  <2>3. Pending' = Pending \ FilesOf(j) /\ Pending \cap FilesOf(j) = FilesOf(j)
    BY <1>2, <1>0 DEF CreateFails, Goes, Pending, ServiceJob
  <2>4. IsFiniteSet(Pending') /\ Cardinality(Pending') = Cardinality(Pending) - Count[j]
    <3>1. /\ IsFiniteSet(Pending \ FilesOf(j))
          /\ Cardinality(Pending \ FilesOf(j)) =
               Cardinality(Pending) - Cardinality(Pending \cap FilesOf(j))
      BY <1>0, FS_Difference
    <3> QED
      BY <1>0, <2>3, <3>1
  <2>5. outstanding' = Cardinality(Pending') /\ outstanding' <= MaxUploads
    BY <1>0, <1>2, <2>4 DEF CreateFails
  <2> QED
    BY <2>1, <2>2, <2>4, <2>5, ServiceStepKeeps DEF ServiceStepOf
<1>3. ASSUME Creates(j) PROVE ServiceInv' /\ KeepsOutcome
  <2>1. Typed' /\ ServiceTyped' /\ exists' # "deleting" /\ Searchable' /\ GoneIsEmpty'
    BY <1>3 DEF Creates, Goes, JobBecomes, Become, Places, JobStates, FileStates, Searchable,
                GoneIsEmpty
  <2>2. (\A k \in Jobs \ {j} : Apart(k)) /\ ServiceJob(j)' /\ job[j] \notin Ended
    BY <1>3 DEF Creates, Goes, JobBecomes, Become, Apart, ServiceJob, Ended
  <2>3. Pending' = Pending
    BY <1>3 DEF Creates, Goes, Become, Pending, ServiceJob
  <2> QED
    BY <1>3, <2>1, <2>2, <2>3, ServiceStepKeeps DEF ServiceStepOf, Creates
<1> QED
  BY <1>1, <1>2, <1>3 DEF Submission

LEMMA ServiceFiles ==
  ASSUME ServiceInv, NEW f \in Files, ServiceFile(f)
  PROVE  ServiceInv' /\ KeepsOutcome
<1> USE FilesAre, UploadsAssumption DEF ServiceInv, ServiceTyped, Typed, serviceVars
<1> DEFINE j == f[1]
<1>0. j \in Jobs /\ f \in FilesOf(j) /\ Cardinality(Pending) \in Nat
  BY FS_CardinalityType
<1>1. ASSUME NEW s \in {"INGESTING", "FAILED"}, UploadEnds(f, s)
      PROVE  ServiceInv' /\ KeepsOutcome
  <2>1. PICK st, rej : status' = st /\ rejected' = rej
    OBVIOUS
  <2>2. /\ at[j] = "upload" /\ status[f] = "UPLOADING" /\ outstanding' = outstanding - 1
        /\ \A g \in Files : status'[g] = IF g = f THEN s ELSE status[g]
        /\ rejected' \subseteq Files
        /\ job' = [job EXCEPT ![j] = Combined(st, j, rej)]
        /\ UNCHANGED <<exists, stored, at, next, harmed, lost, shut>>
    BY <1>1, <2>1 DEF UploadEnds, Become, JobBecomes
  <2>3. /\ Combined(st, j, rej) \in JobStates \ {"none"}
        /\ Combined(st, j, rej) \in Ended => \A g \in FilesOf(j) : st[g] \notin Busy
    BY <1>0, CombinedIs
  <2>4. status' \in [Files -> FileStates]
    BY <1>1 DEF UploadEnds, Become, FileStates
  <2>5. Typed' /\ ServiceTyped' /\ exists' # "deleting" /\ Searchable' /\ GoneIsEmpty'
    BY <2>2, <2>3, <2>4 DEF Searchable, GoneIsEmpty
  <2>6. (\A k \in Jobs \ {j} : Apart(k)) /\ job[j] \notin Ended
    BY <1>0, <2>2 DEF Apart, ServiceJob, Settled
  <2>7. ServiceJob(j)'
    <3>1. \A g \in FilesOf(j) : status'[g] # "none" /\ status'[g] \in FileStates
      BY <1>0, <2>2, <2>4 DEF ServiceJob
    <3>2. job'[j] = Combined(st, j, rej)
      BY <1>0, <2>2
    <3>3. job'[j] \in Ended => \A g \in FilesOf(j) : status'[g] \in Settled
      BY <2>1, <2>3, <3>1, <3>2 DEF FileStates, Settled, Busy
    <3> QED
      BY <1>0, <2>2, <3>1, <3>3 DEF ServiceJob
  <2>8. Pending' = Pending \ {f} /\ f \in Pending
    BY <1>0, <2>2 DEF Pending, ServiceJob
  <2>9. IsFiniteSet(Pending') /\ Cardinality(Pending') = Cardinality(Pending) - 1
    BY <2>8, FS_RemoveElement
  <2>10. outstanding' = Cardinality(Pending') /\ outstanding' <= MaxUploads
    BY <1>0, <2>2, <2>9
  <2> QED
    BY <1>0, <2>5, <2>6, <2>7, <2>9, <2>10, ServiceStepKeeps DEF ServiceStepOf
<1>2. ASSUME ServiceIngests(f) PROVE ServiceInv' /\ KeepsOutcome
  <2>1. PICK st : status' = st
    OBVIOUS
  <2>2. PICK s \in Settled :
        /\ \A g \in Files : status'[g] = IF g = f THEN s ELSE status[g]
        /\ \/ UNCHANGED stored /\ s = "FAILED"
           \/ stored' = [stored EXCEPT ![f] = "all"] /\ exists = "active"
        /\ status' \in [Files -> FileStates]
    BY <1>2 DEF ServiceIngests, Become, Settled, FileStates
  <2>3. /\ status[f] = "INGESTING"
        /\ job' = [job EXCEPT ![j] = Combined(st, j, rejected)]
        /\ UNCHANGED <<exists, at, next, harmed, lost, serviceVars>>
    BY <1>2, <2>1 DEF ServiceIngests, JobBecomes
  <2>4. /\ Combined(st, j, rejected) \in JobStates \ {"none"}
        /\ Combined(st, j, rejected) \in Ended => \A g \in FilesOf(j) : st[g] \notin Busy
    BY <1>0, CombinedIs
  <2>5. Typed' /\ ServiceTyped' /\ exists' # "deleting"
    BY <2>2, <2>3, <2>4
  <2>6. Searchable' /\ GoneIsEmpty'
    BY <2>2, <2>3 DEF Searchable, GoneIsEmpty
  <2>7. (\A k \in Jobs \ {j} : Apart(k)) /\ job[j] \notin Ended
    BY <1>0, <2>2, <2>3 DEF Apart, ServiceJob, Settled
  <2>8. ServiceJob(j)'
    <3>1. \A g \in FilesOf(j) : status'[g] # "none" /\ status'[g] \in FileStates
      BY <1>0, <2>2, <2>3 DEF ServiceJob, Settled
    <3>2. job'[j] = Combined(st, j, rejected)
      BY <1>0, <2>3
    <3>3. job'[j] \in Ended => \A g \in FilesOf(j) : status'[g] \in Settled
      BY <2>1, <2>4, <3>1, <3>2 DEF FileStates, Settled, Busy
    <3>4. at'[j] = "upload"
      BY <1>0, <2>3 DEF ServiceJob
    <3> QED
      BY <3>1, <3>3, <3>4 DEF ServiceJob
  <2>9. Pending' = Pending
    BY <1>0, <2>2, <2>3 DEF Pending, Settled
  <2> QED
    BY <1>0, <2>3, <2>5, <2>6, <2>7, <2>8, <2>9, ServiceStepKeeps DEF ServiceStepOf
<1> QED
  BY <1>1, <1>2 DEF ServiceFile

LEMMA ServiceDeletes ==
  ASSUME ServiceInv,
         \/ ServiceCloses \/ ServiceCreateCollection \/ ServiceDeleteCollection
         \/ \E f \in Files : ServiceDeleteFile(f)
  PROVE  ServiceInv' /\ KeepsOutcome
<1> USE DEF ServiceInv
<1>0. UNCHANGED <<at, status, outstanding>> /\ ServiceTyped' /\ Pending' = Pending
  BY DEF ServiceCloses, ServiceCreateCollection, ServiceDeleteCollection, ServiceDeleteFile,
         serviceVars, base, ServiceTyped, Pending
<1>1. ASSUME \A k \in Jobs : Apart(k) PROVE (\A k \in Jobs : ServiceJob(k)') /\ KeepsOutcome
  BY <1>1, AllApart, ServiceApart
<1>2. CASE ServiceCloses \/ ServiceCreateCollection
  <2>1. \A k \in Jobs : Apart(k)
    BY <1>2 DEF ServiceCloses, ServiceCreateCollection, base, Apart
  <2> QED
    BY <1>0, <1>1, <1>2, <2>1
    DEF ServiceCloses, ServiceCreateCollection, base, Typed, Searchable, GoneIsEmpty
<1>3. CASE ServiceDeleteCollection
  <2>1. Lose(Files) /\ UNCHANGED <<status, job, at, next, lost>> /\ exists' = "none"
    BY <1>3 DEF ServiceDeleteCollection
  <2>2. /\ \A k \in Jobs : Apart(k)
        /\ \A f \in Files : stored'[f] = "none"
        /\ Typed' /\ Searchable'
    BY <2>1, LoseApart
  <2> QED
    BY <1>0, <1>1, <2>1, <2>2 DEF GoneIsEmpty
<1>4. ASSUME NEW f \in Files, ServiceDeleteFile(f) PROVE ServiceInv' /\ KeepsOutcome
  <2>1. /\ Lose({f}) /\ UNCHANGED <<status, job, at, next, lost>>
        /\ exists = "active" /\ exists' = "active"
    BY <1>4 DEF ServiceDeleteFile
  <2>2. (\A k \in Jobs : Apart(k)) /\ Typed' /\ Searchable'
    BY <2>1, LoseApart
  <2> QED
    BY <1>0, <1>1, <2>1, <2>2 DEF GoneIsEmpty
<1> QED
  BY <1>2, <1>3, <1>4

LEMMA ServiceStep == ServiceInv /\ ServiceNext => ServiceInv' /\ KeepsOutcome
BY ServiceSubmits, ServiceFiles, ServiceDeletes DEF ServiceNext

LEMMA ServiceRests == ServiceInv /\ UNCHANGED <<base, serviceVars>> => ServiceInv'
BY DEF ServiceInv, base, serviceVars, Typed, ServiceTyped, ServiceJob, Pending, Searchable,
       GoneIsEmpty

LEMMA ServiceTruthful == ServiceInv => MCTruthful
BY FilesAre DEF ServiceInv, ServiceJob, Searchable, Settled, Ended, MCTruthful, TruthfulBut

LEMMA RoomAccounted == ServiceInv => RoomIsAccounted
BY DEF ServiceInv, Pending, RoomIsAccounted

-----------------------------------------------------------------------------
(* The RAG server.                                                         *)

Words == {"none", "INGESTING", "SUCCESS", "FAILED"}

RagTyped ==
  /\ task \in [Jobs -> {"none", "running", "ended", "failed"}]
  /\ known \subseteq Jobs
  /\ listed \subseteq Files
  /\ unnamed \subseteq Files
  /\ poll \in [Jobs -> [Clients -> {"idle", "asks", "told"}]]
  /\ told \in [Jobs -> [Clients -> [Files -> Words]]]

\* As long as its thread is at work, a job is not known to the server and its
\* files are in the works: no poll can end it.
RagJob(j) ==
  /\ at[j] \in {"none", "new", "open", "answer", "failed", "done"}
  /\ at[j] = "none" => job[j] = "none"
  /\ at[j] # "done" => j \notin known
  /\ at[j] = "new" => job[j] = "PENDING"
  /\ at[j] \in {"open", "answer"} => job[j] = "PROCESSING"
  /\ at[j] = "failed" => job[j] \in {"PROCESSING", "FAILED"}
  /\ at[j] = "done" => job[j] \in {"PROCESSING"} \cup Ended
  /\ \A f \in FilesOf(j) : /\ at[j] \in {"new", "open", "answer"} => status[f] \in Busy
                           /\ at[j] = "failed" => status[f] = "FAILED"
                           /\ job[j] # "none" => status[f] # "none"
                           /\ job[j] \in Ended => status[f] \in Settled
  /\ job[j] = "COMPLETED" => Verdict(status, j) = "COMPLETED"

\* A file can pass for a success.
Passes(f) == stored[f] = "all" \/ f \in harmed \/ f \in unnamed

\* A file reported SUCCESS can; so can one that a client was told of, at a
\* time when the job knew its task.  Nobody polls a job that is not there.
Granted == \A f \in Files : status[f] = "SUCCESS" => Passes(f)
Spoken ==
  \A j \in Jobs, c \in Clients :
    /\ poll[j][c] # "idle" => job[j] # "none"
    /\ poll[j][c] = "asks" => j \in known
    /\ \A f \in Files : /\ told[j][c][f] = "SUCCESS" => Passes(f)
                        /\ told[j][c][f] # "none" => j \in known

RagInv ==
  /\ Typed /\ RagTyped
  /\ exists # "deleting"
  /\ \A j \in Jobs : RagJob(j)
  /\ Granted
  /\ Spoken
  /\ GoneIsEmpty

LEMMA RagFirst == KnowledgeInit /\ RagInit => RagInv
<1> SUFFICES ASSUME KnowledgeInit, RagInit PROVE RagInv
  OBVIOUS
<1>1. Typed
  BY FilesAre DEF KnowledgeInit, Typed, JobStates, FileStates, Places
<1>2. RagTyped
  BY FilesAre DEF RagInit, RagTyped, NoWord, Words
<1>3. \A j \in Jobs : RagJob(j)
  BY FilesAre DEF KnowledgeInit, RagInit, RagJob, Ended
<1>4. Spoken
  BY DEF RagInit, Spoken, NoWord
<1> QED
  BY <1>1, <1>2, <1>3, <1>4 DEF KnowledgeInit, RagInv, Granted, GoneIsEmpty

\* The verdict on a job is about the files of that job.
LEMMA VerdictOf ==
  ASSUME NEW st, NEW tt, NEW j \in Jobs, \A f \in FilesOf(j) : st[f] = tt[f]
  PROVE  Verdict(st, j) = Verdict(tt, j) /\ Verdict(st, j) \in {"FAILED", "COMPLETED"}
BY DEF Verdict

LEMMA RagApartKeeps ==
  ASSUME NEW k \in Jobs, RagJob(k), Apart(k), k \in known' <=> k \in known
  PROVE  RagJob(k)'
<1>1. Verdict(status', k) = Verdict(status, k)
  BY VerdictOf DEF Apart
<1>2. Verdict(status, k)' = Verdict(status', k)
  BY DEF Verdict
<1> QED
  BY <1>1, <1>2, FilesAre DEF RagJob, Apart

\* What can pass for a success goes on to, and what a job knows it goes on to
\* know.
RagGrows ==
  /\ \A f \in Files : Passes(f) => Passes(f)'
  /\ known \subseteq known'
  /\ \A k \in Jobs : job[k] # "none" => job'[k] # "none"

LEMMA GrowsSpoken ==
  ASSUME Spoken, RagGrows, UNCHANGED <<poll, told>>
  PROVE  Spoken'
BY DEF Spoken, RagGrows

LEMMA GrowsGranted ==
  ASSUME Granted, RagGrows, \A f \in Files : status'[f] = "SUCCESS" => status[f] = "SUCCESS"
  PROVE  Granted'
BY DEF Granted, RagGrows

RagStepOf(j) ==
  /\ Typed' /\ RagTyped' /\ exists' # "deleting"
  /\ \A k \in Jobs \ {j} : Apart(k) /\ (k \in known' <=> k \in known)
  /\ RagJob(j)'
  /\ Granted' /\ Spoken' /\ GoneIsEmpty'

LEMMA RagStepKeeps ==
  ASSUME RagInv, NEW j \in Jobs, RagStepOf(j)
  PROVE  RagInv' /\ (job[j] \notin Ended => KeepsOutcome)
<1>1. \A k \in Jobs : RagJob(k)'
  BY RagApartKeeps DEF RagInv, RagStepOf
<1>2. job[j] \notin Ended => KeepsOutcome
  BY ApartKeeps DEF RagStepOf
<1> QED
  BY <1>1, <1>2 DEF RagInv, RagStepOf

LEMMA RagWorkerStep ==
  ASSUME RagInv, backend = "foundational_rag", NEW j \in Jobs,
         \/ RagThread(j) \/ ServerStores(j) \/ ServerEnds(j) \/ Prunes(j)
         \/ \E c \in Clients : Asks(j, c)
  PROVE  RagInv' /\ KeepsOutcome
<1> USE FilesAre DEF RagInv, RagTyped, Typed, ragVars, polling, base
<1>0. HasFile(j) =>
        /\ File(j) \in Files /\ File(j) \in FilesOf(j)
        /\ File(j)[1] = j /\ File(j)[2] = next[j]
        /\ \A f \in FilesOf(j) : f[2] = next[j] => f = File(j)
  BY FileHere
<1>00. Verdict(status, j)' = Verdict(status', j)
  BY DEF Verdict
<1>1. ASSUME RagStart(j) PROVE RagInv' /\ KeepsOutcome
  <2>1. at' \in [Jobs -> Places] /\ exists' \in {"none", "active"}
    BY <1>1 DEF RagStart, Goes, Places
  <2>3. Typed' /\ RagTyped' /\ exists' # "deleting"
    BY <1>0, <2>1, <1>1 DEF RagStart, JobBecomes, RagJob, HasFile, JobStates, FileStates
  <2>4. \A k \in Jobs \ {j} : Apart(k) /\ (k \in known' <=> k \in known)
    BY <1>0, <1>1 DEF RagStart, Goes, JobBecomes, HasFile, Apart
  <2>5. RagJob(j)'
    BY <1>0, <1>00, <1>1 DEF RagStart, Goes, JobBecomes, RagJob, Settled, Ended, Busy
  <2>6. RagGrows
    BY <1>1 DEF RagStart, Goes, JobBecomes, RagGrows, Passes
  <2>7. \A f \in Files : status'[f] = "SUCCESS" => status[f] = "SUCCESS"
    BY <1>0, <1>1 DEF RagStart
  <2>8. Spoken'
    BY <1>1, <2>6, GrowsSpoken DEF RagStart
  <2>9. Granted' /\ GoneIsEmpty'
    BY <1>1, <2>6, <2>7, GrowsGranted DEF RagStart, GoneIsEmpty
  <2>10. job[j] \notin Ended
    BY <1>1 DEF RagStart, RagJob, Ended
  <2> QED
    BY <2>3, <2>4, <2>5, <2>8, <2>9, <2>10, RagStepKeeps DEF RagStepOf
<1>2. ASSUME Opens(j) PROVE RagInv' /\ KeepsOutcome
  <2>1. at' \in [Jobs -> Places] /\ exists' \in {"none", "active"}
    BY <1>2 DEF Opens, Become, Goes, Places
  <2>2. next' \in [Jobs -> Nat] /\ \A k \in Jobs : next'[k] \in 1..(Count[k] + 1)
    BY <1>2, NextTyped DEF Opens
  <2>3. Typed' /\ RagTyped' /\ exists' # "deleting"
    BY <1>0, <2>1, <2>2, <1>2 DEF Opens, Become, JobBecomes, RagJob, HasFile, JobStates, FileStates
  <2>4. \A k \in Jobs \ {j} : Apart(k) /\ (k \in known' <=> k \in known)
    BY <1>0, <1>2 DEF Opens, Become, Goes, JobBecomes, HasFile, Apart
  <2>5. RagJob(j)'
    BY <1>0, <1>00, <1>2 DEF Opens, Become, Goes, JobBecomes, RagJob, Settled, Ended, Busy
  <2>6. RagGrows
    BY <1>2 DEF Opens, Become, Goes, JobBecomes, RagGrows, Passes
  <2>7. \A f \in Files : status'[f] = "SUCCESS" => status[f] = "SUCCESS"
    BY <1>0, <1>2 DEF Opens, Become
  <2>8. Spoken'
    BY <1>2, <2>6, GrowsSpoken DEF Opens, Become
  <2>9. Granted' /\ GoneIsEmpty'
    BY <1>2, <2>6, <2>7, GrowsGranted DEF Opens, Become, GoneIsEmpty
  <2>10. job[j] \notin Ended
    BY <1>2 DEF Opens, RagJob, Ended
  <2> QED
    BY <2>3, <2>4, <2>5, <2>8, <2>9, <2>10, RagStepKeeps DEF RagStepOf
<1>3. ASSUME OpenFails(j) PROVE RagInv' /\ KeepsOutcome
  <2>1. at' \in [Jobs -> Places] /\ exists' \in {"none", "active"}
    BY <1>3 DEF OpenFails, Become, WorkerDies, Listed, Goes, Places
  <2>3. Typed' /\ RagTyped' /\ exists' # "deleting"
    BY <1>0, <2>1, <1>3 DEF OpenFails, Become, WorkerDies, Listed, JobBecomes, RagJob, HasFile, JobStates, FileStates
  <2>4. \A k \in Jobs \ {j} : Apart(k) /\ (k \in known' <=> k \in known)
    BY <1>0, <1>3 DEF OpenFails, Become, WorkerDies, Listed, Goes, JobBecomes, HasFile, Apart
  <2>5. RagJob(j)'
    BY <1>0, <1>00, <1>3 DEF OpenFails, Become, WorkerDies, Listed, Goes, JobBecomes, RagJob, Settled, Ended, Busy
  <2>6. RagGrows
    BY <1>3 DEF OpenFails, Become, WorkerDies, Listed, Goes, JobBecomes, RagGrows, Passes
  <2>7. \A f \in Files : status'[f] = "SUCCESS" => status[f] = "SUCCESS"
    BY <1>0, <1>3 DEF OpenFails, Become, WorkerDies, Listed
  <2>8. Spoken'
    BY <1>3, <2>6, GrowsSpoken DEF OpenFails, Become, WorkerDies, Listed
  <2>9. Granted' /\ GoneIsEmpty'
    BY <1>3, <2>6, <2>7, GrowsGranted DEF OpenFails, Become, WorkerDies, Listed, GoneIsEmpty
  <2>10. job[j] \notin Ended
    BY <1>3 DEF OpenFails, RagJob, Ended
  <2> QED
    BY <2>3, <2>4, <2>5, <2>8, <2>9, <2>10, RagStepKeeps DEF RagStepOf
<1>4. ASSUME Posts(j) PROVE RagInv' /\ KeepsOutcome
  <2>1. at' \in [Jobs -> Places] /\ exists' \in {"none", "active"}
    BY <1>4 DEF Posts, Goes, Places
  <2>3. Typed' /\ RagTyped' /\ exists' # "deleting"
    BY <1>0, <2>1, <1>4 DEF Posts, JobBecomes, RagJob, HasFile, JobStates, FileStates
  <2>4. \A k \in Jobs \ {j} : Apart(k) /\ (k \in known' <=> k \in known)
    BY <1>0, <1>4 DEF Posts, Goes, JobBecomes, HasFile, Apart
  <2>5. RagJob(j)'
    BY <1>0, <1>00, <1>4 DEF Posts, Goes, JobBecomes, RagJob, Settled, Ended, Busy
  <2>6. RagGrows
    BY <1>4 DEF Posts, Goes, JobBecomes, RagGrows, Passes
  <2>7. \A f \in Files : status'[f] = "SUCCESS" => status[f] = "SUCCESS"
    BY <1>0, <1>4 DEF Posts
  <2>8. Spoken'
    BY <1>4, <2>6, GrowsSpoken DEF Posts
  <2>9. Granted' /\ GoneIsEmpty'
    BY <1>4, <2>6, <2>7, GrowsGranted DEF Posts, GoneIsEmpty
  <2>10. job[j] \notin Ended
    BY <1>4 DEF Posts, RagJob, Ended
  <2> QED
    BY <2>3, <2>4, <2>5, <2>8, <2>9, <2>10, RagStepKeeps DEF RagStepOf
<1>5. ASSUME PostFails(j) PROVE RagInv' /\ KeepsOutcome
  <2>1. at' \in [Jobs -> Places] /\ exists' \in {"none", "active"}
    <3>1. Goes(j, "failed") \/ Goes(j, "done")
      BY <1>5 DEF PostFails, WorkerDies
    <3> "failed" \in Places /\ "done" \in Places
      BY DEF Places
    <3> QED
      BY <1>5, <3>1, GoesTo DEF PostFails
  <2>3. Typed' /\ RagTyped' /\ exists' # "deleting"
    BY <1>0, <2>1, <1>5 DEF PostFails, Become, WorkerDies, Listed, JobBecomes, RagJob, HasFile, JobStates, FileStates
  <2>4. \A k \in Jobs \ {j} : Apart(k) /\ (k \in known' <=> k \in known)
    BY <1>0, <1>5 DEF PostFails, Become, WorkerDies, Listed, Goes, JobBecomes, HasFile, Apart
  <2>5. RagJob(j)'
    BY <1>0, <1>00, <1>5 DEF PostFails, Become, WorkerDies, Listed, Goes, JobBecomes, RagJob, Settled, Ended, Busy
  <2>6. RagGrows
    BY <1>5 DEF PostFails, Become, WorkerDies, Listed, Goes, JobBecomes, RagGrows, Passes
  <2>7. \A f \in Files : status'[f] = "SUCCESS" => status[f] = "SUCCESS"
    BY <1>0, <1>5 DEF PostFails, Become, WorkerDies, Listed
  <2>8. Spoken'
    BY <1>5, <2>6, GrowsSpoken DEF PostFails, Become, WorkerDies, Listed
  <2>9. Granted' /\ GoneIsEmpty'
    BY <1>5, <2>6, <2>7, GrowsGranted DEF PostFails, Become, WorkerDies, Listed, GoneIsEmpty
  <2>10. job[j] \notin Ended
    BY <1>5 DEF PostFails, RagJob, Ended
  <2> QED
    BY <2>3, <2>4, <2>5, <2>8, <2>9, <2>10, RagStepKeeps DEF RagStepOf
<1>6. ASSUME RagFails(j) PROVE RagInv' /\ KeepsOutcome
  <2>1. at' \in [Jobs -> Places] /\ exists' \in {"none", "active"}
    BY <1>6 DEF RagFails, Goes, Places
  <2>3. Typed' /\ RagTyped' /\ exists' # "deleting"
    BY <1>0, <2>1, <1>6 DEF RagFails, JobBecomes, RagJob, HasFile, JobStates, FileStates
  <2>4. \A k \in Jobs \ {j} : Apart(k) /\ (k \in known' <=> k \in known)
    BY <1>0, <1>6 DEF RagFails, Goes, JobBecomes, HasFile, Apart
  <2>5. RagJob(j)'
    BY <1>0, <1>00, <1>6 DEF RagFails, Goes, JobBecomes, RagJob, Settled, Ended, Busy
  <2>6. RagGrows
    BY <1>6 DEF RagFails, Goes, JobBecomes, RagGrows, Passes
  <2>7. \A f \in Files : status'[f] = "SUCCESS" => status[f] = "SUCCESS"
    BY <1>0, <1>6 DEF RagFails
  <2>8. Spoken'
    BY <1>6, <2>6, GrowsSpoken DEF RagFails
  <2>9. Granted' /\ GoneIsEmpty'
    BY <1>6, <2>6, <2>7, GrowsGranted DEF RagFails, GoneIsEmpty
  <2>10. KeepsOutcome
    BY <1>6, <2>4 DEF RagFails, JobBecomes, RagJob, Ended, Apart, KeepsOutcome
  <2> QED
    BY <2>3, <2>4, <2>5, <2>8, <2>9, <2>10, RagStepKeeps DEF RagStepOf
<1>7. ASSUME Notes(j) PROVE RagInv' /\ KeepsOutcome
  <2>1. at' \in [Jobs -> Places] /\ exists' \in {"none", "active"}
    <3>1. Goes(j, "done")
      BY <1>7 DEF Notes, WorkerDies
    <3> "done" \in Places
      BY DEF Places
    <3> QED
      BY <1>7, <3>1, GoesTo DEF Notes
  <2>3. Typed' /\ RagTyped' /\ exists' # "deleting"
    BY <1>0, <2>1, <1>7 DEF Notes, WorkerDies, JobBecomes, RagJob, HasFile, JobStates, FileStates
  <2>4. \A k \in Jobs \ {j} : Apart(k) /\ (k \in known' <=> k \in known)
    BY <1>0, <1>7 DEF Notes, WorkerDies, Goes, JobBecomes, HasFile, Apart
  <2>5. RagJob(j)'
    BY <1>0, <1>00, <1>7 DEF Notes, WorkerDies, Goes, JobBecomes, RagJob, Settled, Ended, Busy
  <2>6. RagGrows
    BY <1>7 DEF Notes, WorkerDies, Goes, JobBecomes, RagGrows, Passes
  <2>7. \A f \in Files : status'[f] = "SUCCESS" => status[f] = "SUCCESS"
    BY <1>0, <1>7 DEF Notes, WorkerDies
  <2>8. Spoken'
    BY <1>7, <2>6, GrowsSpoken DEF Notes, WorkerDies
  <2>9. Granted' /\ GoneIsEmpty'
    BY <1>7, <2>6, <2>7, GrowsGranted DEF Notes, WorkerDies, GoneIsEmpty
  <2>10. job[j] \notin Ended
    BY <1>7 DEF Notes, RagJob, Ended
  <2> QED
    BY <2>3, <2>4, <2>5, <2>8, <2>9, <2>10, RagStepKeeps DEF RagStepOf
<1>8. ASSUME ServerStores(j) PROVE RagInv' /\ KeepsOutcome
  <2>1. at' \in [Jobs -> Places] /\ exists' \in {"none", "active"}
    BY <1>8 DEF ServerStores, Goes, Places
  <2>3. Typed' /\ RagTyped' /\ exists' # "deleting"
    BY <1>0, <2>1, <1>8 DEF ServerStores, JobBecomes, RagJob, HasFile, JobStates, FileStates
  <2>4. \A k \in Jobs \ {j} : Apart(k) /\ (k \in known' <=> k \in known)
    BY <1>0, <1>8 DEF ServerStores, Goes, JobBecomes, HasFile, Apart
  <2>5. RagJob(j)'
    BY <1>0, <1>00, <1>8 DEF ServerStores, Goes, JobBecomes, RagJob, Settled, Ended, Busy
  <2>6. RagGrows
    BY <1>8 DEF ServerStores, Goes, JobBecomes, RagGrows, Passes
  <2>7. \A f \in Files : status'[f] = "SUCCESS" => status[f] = "SUCCESS"
    BY <1>0, <1>8 DEF ServerStores
  <2>8. Spoken'
    BY <1>8, <2>6, GrowsSpoken DEF ServerStores
  <2>9. Granted' /\ GoneIsEmpty'
    BY <1>8, <2>6, <2>7, GrowsGranted DEF ServerStores, GoneIsEmpty
  <2>10. KeepsOutcome
    BY <1>8 DEF ServerStores, KeepsOutcome
  <2> QED
    BY <2>3, <2>4, <2>5, <2>8, <2>9, <2>10, RagStepKeeps DEF RagStepOf
<1>9. ASSUME ServerEnds(j) PROVE RagInv' /\ KeepsOutcome
  <2>1. at' \in [Jobs -> Places] /\ exists' \in {"none", "active"}
    BY <1>9 DEF ServerEnds, Goes, Places
  <2>3. Typed' /\ RagTyped' /\ exists' # "deleting"
    <3>1. task' \in [Jobs -> {"none", "running", "ended", "failed"}]
      <4>1. \/ task' = [task EXCEPT ![j] = "failed"]
            \/ task' = [task EXCEPT ![j] = "ended"]
        BY <1>9 DEF ServerEnds
      <4> QED
        BY <4>1
    <3>2. unnamed' \subseteq Files
      BY <1>9 DEF ServerEnds
    <3> QED
      BY <2>1, <1>9, <3>1, <3>2 DEF ServerEnds
  <2>4. \A k \in Jobs \ {j} : Apart(k) /\ (k \in known' <=> k \in known)
    BY <1>0, <1>9 DEF ServerEnds, Goes, JobBecomes, HasFile, Apart
  <2>5. RagJob(j)'
    BY <1>0, <1>00, <1>9 DEF ServerEnds, Goes, JobBecomes, RagJob, Settled, Ended, Busy
  <2>6. RagGrows
    BY <1>9 DEF ServerEnds, Goes, JobBecomes, RagGrows, Passes
  <2>7. \A f \in Files : status'[f] = "SUCCESS" => status[f] = "SUCCESS"
    BY <1>0, <1>9 DEF ServerEnds
  <2>8. Spoken'
    BY <1>9, <2>6, GrowsSpoken DEF ServerEnds
  <2>9. Granted' /\ GoneIsEmpty'
    BY <1>9, <2>6, <2>7, GrowsGranted DEF ServerEnds, GoneIsEmpty
  <2>10. KeepsOutcome
    BY <1>9 DEF ServerEnds, KeepsOutcome
  <2> QED
    BY <2>3, <2>4, <2>5, <2>8, <2>9, <2>10, RagStepKeeps DEF RagStepOf
<1>10. ASSUME Prunes(j) PROVE RagInv' /\ KeepsOutcome
  <2>1. at' \in [Jobs -> Places] /\ exists' \in {"none", "active"}
    BY <1>10 DEF Prunes, Goes, Places
  <2>3. Typed' /\ RagTyped' /\ exists' # "deleting"
    BY <1>0, <2>1, <1>10 DEF Prunes, JobBecomes, RagJob, HasFile, JobStates, FileStates
  <2>4. \A k \in Jobs \ {j} : Apart(k) /\ (k \in known' <=> k \in known)
    BY <1>0, <1>10 DEF Prunes, Goes, JobBecomes, HasFile, Apart
  <2>5. RagJob(j)'
    BY <1>0, <1>00, <1>10 DEF Prunes, Goes, JobBecomes, RagJob, Settled, Ended, Busy
  <2>6. RagGrows
    BY <1>10 DEF Prunes, Goes, JobBecomes, RagGrows, Passes
  <2>7. \A f \in Files : status'[f] = "SUCCESS" => status[f] = "SUCCESS"
    BY <1>0, <1>10 DEF Prunes
  <2>8. Spoken'
    BY <1>10, <2>6, GrowsSpoken DEF Prunes
  <2>9. Granted' /\ GoneIsEmpty'
    BY <1>10, <2>6, <2>7, GrowsGranted DEF Prunes, GoneIsEmpty
  <2>10. KeepsOutcome
    BY <1>10, <2>4 DEF Prunes, JobBecomes, RagJob, Ended, Apart, KeepsOutcome
  <2> QED
    BY <2>3, <2>4, <2>5, <2>8, <2>9, <2>10, RagStepKeeps DEF RagStepOf
<1>11. ASSUME \E c \in Clients : Asks(j, c) PROVE RagInv' /\ KeepsOutcome
  <2>1. at' \in [Jobs -> Places] /\ exists' \in {"none", "active"}
    BY <1>11 DEF Asks, Goes, Places
  <2>3. Typed' /\ RagTyped' /\ exists' # "deleting"
    BY <1>0, <2>1, <1>11 DEF Asks, JobBecomes, RagJob, HasFile, JobStates, FileStates
  <2>4. \A k \in Jobs \ {j} : Apart(k) /\ (k \in known' <=> k \in known)
    BY <1>0, <1>11 DEF Asks, Goes, JobBecomes, HasFile, Apart
  <2>5. RagJob(j)'
    BY <1>0, <1>00, <1>11 DEF Asks, Goes, JobBecomes, RagJob, Settled, Ended, Busy
  <2>6. RagGrows
    BY <1>11 DEF Asks, Goes, JobBecomes, RagGrows, Passes
  <2>7. \A f \in Files : status'[f] = "SUCCESS" => status[f] = "SUCCESS"
    BY <1>0, <1>11 DEF Asks
  <2>8. Spoken'
    BY <1>11, <2>6 DEF Asks, RagGrows, Spoken
  <2>9. Granted' /\ GoneIsEmpty'
    BY <1>11, <2>6, <2>7, GrowsGranted DEF Asks, GoneIsEmpty
  <2>10. KeepsOutcome
    BY <1>11 DEF Asks, KeepsOutcome
  <2> QED
    BY <2>3, <2>4, <2>5, <2>8, <2>9, <2>10, RagStepKeeps DEF RagStepOf
<1> QED
  BY <1>1, <1>2, <1>3, <1>4, <1>5, <1>6, <1>7, <1>8, <1>9, <1>10, <1>11 DEF RagThread

\* The server's answer comes in.
LEMMA RagAnswered ==
  ASSUME RagInv, NEW j \in Jobs, NEW c \in Clients, Answers(j, c)
  PROVE  RagInv' /\ KeepsOutcome
<1> USE DEF RagInv
<1> DEFINE word == [f \in Files |-> IF f \in FilesOf(j) THEN Tells(j, f) ELSE "none"]
<1>1. /\ UNCHANGED base /\ UNCHANGED <<task, known, listed, unnamed>>
      /\ poll[j][c] = "asks"
      /\ poll' = [poll EXCEPT ![j][c] = "told"]
      /\ told' = [told EXCEPT ![j][c] = word]
  BY DEF Answers
<1>2. \A f \in Files : /\ word[f] \in Words
                       /\ word[f] = "SUCCESS" => Passes(f)
  BY DEF Tells, Passes, Words
<1>3. word \in [Files -> Words]
  BY <1>2
<1> HIDE DEF word
<1>4. /\ poll' \in [Jobs -> [Clients -> {"idle", "asks", "told"}]]
      /\ told' \in [Jobs -> [Clients -> [Files -> Words]]]
  BY <1>1, <1>3 DEF RagTyped
<1>5. \A k \in Jobs, d \in Clients :
        /\ poll'[k][d] = IF k = j /\ d = c THEN "told" ELSE poll[k][d]
        /\ told'[k][d] = IF k = j /\ d = c THEN word ELSE told[k][d]
  BY <1>1 DEF RagTyped
<1>6. \A k \in Jobs : Apart(k)
  BY <1>1 DEF base, Apart
<1>7. Typed' /\ RagTyped' /\ Granted' /\ GoneIsEmpty' /\ exists' # "deleting"
  BY <1>1, <1>4 DEF base, Typed, RagTyped, Granted, Passes, GoneIsEmpty
<1>8. j \in known /\ job' = job /\ \A f \in Files : Passes(f)' <=> Passes(f)
  BY <1>1 DEF base, Spoken, Passes
<1>9. Spoken'
  BY <1>1, <1>2, <1>5, <1>8 DEF Spoken
<1> QED
  BY <1>1, <1>6, <1>7, <1>9, RagApartKeeps, AllApart

\* And is written to what is still in the works.
LEMMA RagApplied ==
  ASSUME RagInv, NEW j \in Jobs, NEW c \in Clients, Applies(j, c)
  PROVE  RagInv' /\ KeepsOutcome
<1> USE FilesAre DEF RagInv
<1>1. /\ UNCHANGED <<exists, stored, at, next, harmed, lost, task, known, listed, unnamed>>
      /\ poll' = [poll EXCEPT ![j][c] = "idle"]
      /\ told' = [told EXCEPT ![j][c] = NoWord]
  BY DEF Applies
<1>2. /\ \A f \in Files \ FilesOf(j) : status'[f] = status[f]
      /\ \A f \in FilesOf(j) :
           \/ status'[f] = status[f]
           \/ /\ status[f] = "INGESTING" /\ j \in known
              /\ status'[f] = told[j][c][f] /\ told[j][c][f] # "none"
  BY DEF Applies, Listed, Spoken
<1>3. status' \in [Files -> FileStates] /\ \A f \in Files : status'[f] = "none" => status[f] = "none"
  BY DEF Applies, Typed, RagTyped, Words, FileStates
<1>4. \/ job' = job
      \/ /\ job[j] # "FAILED" /\ job' = [job EXCEPT ![j] = Verdict(status', j)]
         /\ \A f \in FilesOf(j) : status'[f] \notin Busy
  BY DEF Applies, JobBecomes
<1>5. Verdict(status', j) \in {"FAILED", "COMPLETED"}
  BY VerdictOf
<1>6. job' \in [Jobs -> JobStates] /\ \A k \in Jobs \ {j} : job'[k] = job[k]
  BY <1>4, <1>5 DEF Typed, JobStates
<1>7. \A k \in Jobs \ {j} : Apart(k) /\ (k \in known' <=> k \in known)
  BY <1>1, <1>2, <1>6 DEF Apart
<1>8. NoWord \in [Files -> Words] /\ \A f \in Files : NoWord[f] = "none"
  BY DEF NoWord, Words
<1>9. /\ poll' \in [Jobs -> [Clients -> {"idle", "asks", "told"}]]
      /\ told' \in [Jobs -> [Clients -> [Files -> Words]]]
      /\ \A k \in Jobs, d \in Clients :
           /\ poll'[k][d] = IF k = j /\ d = c THEN "idle" ELSE poll[k][d]
           /\ told'[k][d] = IF k = j /\ d = c THEN NoWord ELSE told[k][d]
  BY <1>1, <1>8 DEF RagTyped
<1>10. Typed' /\ RagTyped' /\ exists' # "deleting" /\ GoneIsEmpty'
  BY <1>1, <1>3, <1>6, <1>9 DEF Typed, RagTyped, GoneIsEmpty
<1>11. \A f \in Files : Passes(f)' <=> Passes(f)
  BY <1>1 DEF Passes
<1>12. Spoken'
  <2>1. \A k \in Jobs : job[k] # "none" => job'[k] # "none"
    BY <1>4, <1>5, <1>6
  <2> QED
    BY <1>1, <1>8, <1>9, <1>11, <2>1 DEF Spoken
<1>13. Granted'
  BY <1>2, <1>11 DEF Granted, Spoken
<1>14. job[j] # "none"
  BY DEF Applies, Spoken
<1>15. job[j] \in Ended => job'[j] = job[j] /\ \A f \in FilesOf(j) : status'[f] = status[f]
  <2> SUFFICES ASSUME job[j] \in Ended
               PROVE  job'[j] = job[j] /\ \A f \in FilesOf(j) : status'[f] = status[f]
    OBVIOUS
  <2>1. \A f \in FilesOf(j) : status[f] \in Settled
    BY DEF RagJob
  <2>2. \A f \in FilesOf(j) : status'[f] = status[f]
    BY <1>2, <2>1 DEF Settled
  <2>3. Verdict(status', j) = Verdict(status, j)
    BY <2>2, VerdictOf
  <2>4. job[j] = "COMPLETED" => Verdict(status', j) = "COMPLETED"
    BY <2>3 DEF RagJob
  <2>5. job'[j] = job[j]
    BY <1>4, <2>4 DEF Typed, Ended
  <2> QED
    BY <2>2, <2>5
<1>16. KeepsOutcome
  BY <1>7, <1>15 DEF Apart, KeepsOutcome
<1>17. RagJob(j)'
  <2>1. Verdict(status, j)' = Verdict(status', j)
    BY DEF Verdict
  <2>2. at[j] # "done" => \A f \in FilesOf(j) : status'[f] = status[f]
    BY <1>2 DEF RagJob
  <2>3. \A f \in FilesOf(j) : status'[f] # "none" /\ status'[f] \in FileStates
    BY <1>3, <1>14 DEF RagJob
  <2>4. CASE job' = job
    <3>1. job[j] = "COMPLETED" => Verdict(status', j) = "COMPLETED"
      <4>1. job[j] = "COMPLETED" => Verdict(status', j) = Verdict(status, j)
        BY <1>15, VerdictOf DEF Ended
      <4> QED
        BY <4>1 DEF RagJob
    <3> QED
      BY <1>1, <1>15, <2>1, <2>2, <2>3, <2>4, <3>1 DEF RagJob
  <2>5. CASE job' # job
    <3>1. /\ job'[j] = Verdict(status', j)
          /\ \A f \in FilesOf(j) : status'[f] \in Settled
      BY <1>4, <2>3, <2>5 DEF Typed, FileStates, Settled, Busy
    <3>2. <<j, 1>> \in FilesOf(j)
      OBVIOUS
    <3>3. at[j] \in {"failed", "done"}
      <4>1. at[j] # "done" => status[<<j, 1>>] \notin Busy
        BY <2>2, <3>1, <3>2 DEF Busy, Settled
      <4> QED
        BY <1>14, <3>2, <4>1 DEF RagJob
    <3>4. at[j] = "failed" => Verdict(status', j) = "FAILED"
      <4>1. at[j] = "failed" => \A f \in FilesOf(j) : status'[f] = "FAILED"
        BY <2>2 DEF RagJob
      <4> QED
        BY <4>1 DEF Verdict
    <3> QED
      BY <1>1, <1>5, <2>1, <2>2, <2>3, <3>1, <3>3, <3>4 DEF RagJob, Ended
  <2> QED
    BY <2>4, <2>5
<1> QED
  BY <1>7, <1>10, <1>12, <1>13, <1>16, <1>17, RagStepKeeps DEF RagStepOf

LEMMA RagSubmitStep ==
  ASSUME RagInv, NEW j \in Jobs, RagSubmit(j)
  PROVE  RagInv' /\ KeepsOutcome
<1> USE DEF RagInv
<1>1. UNCHANGED <<exists, stored, next, harmed, ragVars>>
  BY DEF RagSubmit, Registers
<1>2. /\ job[j] = "none" /\ Typed' /\ \A k \in Jobs \ {j} : Apart(k)
      /\ at'[j] = "new" /\ job'[j] = "PENDING"
  BY RegistersApart DEF RagSubmit, Places
<1>3. j \notin known /\ \A f \in FilesOf(j) : status'[f] = "UPLOADING"
  <2>1. at[j] # "done"
    BY <1>2 DEF RagJob, Ended
  <2> QED
    BY <2>1, FilesAre DEF RagJob, RagSubmit, Registers, Become
<1>4. RagJob(j)'
  BY <1>1, <1>2, <1>3 DEF RagJob, ragVars, Busy, Ended
<1>5. RagGrows
  BY <1>1, <1>2 DEF RagGrows, Passes, Apart, ragVars
<1>6. Granted' /\ Spoken'
  <2>1. \A f \in Files : status'[f] = "SUCCESS" => status[f] = "SUCCESS"
    BY <1>2, <1>3, FilesAre DEF Apart
  <2> QED
    BY <1>1, <1>5, <2>1, GrowsGranted, GrowsSpoken DEF ragVars, polling
<1>7. RagStepOf(j)
  BY <1>1, <1>2, <1>4, <1>6 DEF RagStepOf, RagTyped, GoneIsEmpty, ragVars, polling
<1> QED
  BY <1>2, <1>7, RagStepKeeps DEF Ended

LEMMA RagDeletes ==
  ASSUME RagInv,
         \/ RagCreateCollection \/ RagDeleteCollection
         \/ \E f \in Files : RagDeleteFiles(f) \/ RagDeleteFile(f)
  PROVE  RagInv' /\ KeepsOutcome
<1> USE DEF RagInv
<1>0. UNCHANGED <<known, unnamed, poll, told, status, job>> /\ RagTyped'
  BY DEF RagCreateCollection, RagDeleteCollection, RagDeleteFiles, RagDeleteFile, ragVars,
         polling, RagTyped
<1>1. ASSUME \A k \in Jobs : Apart(k)
      PROVE  (\A k \in Jobs : RagJob(k)') /\ KeepsOutcome /\ Granted' /\ Spoken'
  <2>1. \A f \in Files : Passes(f) => Passes(f)'
    BY <1>0, <1>1, FilesAre DEF Apart, Passes
  <2>2. RagGrows
    BY <1>0, <2>1 DEF RagGrows
  <2>3. Granted' /\ Spoken'
    BY <1>0, <2>2, GrowsGranted, GrowsSpoken
  <2> QED
    BY <1>0, <1>1, <2>3, AllApart, RagApartKeeps
<1>2. CASE RagCreateCollection
  <2>1. \A k \in Jobs : Apart(k)
    BY <1>2 DEF RagCreateCollection, Apart
  <2> QED
    BY <1>0, <1>1, <1>2, <2>1 DEF RagCreateCollection, Typed, GoneIsEmpty
<1>3. CASE RagDeleteCollection
  <2>1. Lose(Files) /\ UNCHANGED <<status, job, at, next, lost>> /\ exists' = "none"
    BY <1>3 DEF RagDeleteCollection
  <2>2. /\ \A k \in Jobs : Apart(k)
        /\ \A f \in Files : stored'[f] = "none"
        /\ Typed'
    BY <2>1, LoseApart
  <2> QED
    BY <1>0, <1>1, <2>1, <2>2 DEF GoneIsEmpty
<1>4. ASSUME NEW f \in Files, RagDeleteFiles(f) \/ RagDeleteFile(f)
      PROVE  RagInv' /\ KeepsOutcome
  <2>1. Lose(Namesakes(f)) /\ UNCHANGED <<status, job, at, next>> /\ exists' = exists
    BY <1>4 DEF RagDeleteFiles, RagDeleteFile
  <2>2. lost' = lost \/ lost' \subseteq Jobs
    BY <1>4, FilesAre DEF RagDeleteFiles, RagDeleteFile, Namesakes, Typed
  <2>3. /\ \A k \in Jobs : Apart(k)
        /\ \A g \in Files : stored'[g] = IF g \in Namesakes(f) THEN "none" ELSE stored[g]
        /\ Typed'
    BY <2>1, <2>2, LoseApart DEF Namesakes, Typed
  <2> QED
    BY <1>0, <1>1, <2>1, <2>3 DEF GoneIsEmpty
<1> QED
  BY <1>2, <1>3, <1>4

LEMMA RagStep ==
  RagInv /\ backend = "foundational_rag" /\ RagNext => RagInv' /\ KeepsOutcome
BY RagWorkerStep, RagAnswered, RagApplied, RagSubmitStep, RagDeletes DEF RagNext

LEMMA RagRests == RagInv /\ UNCHANGED <<base, ragVars>> => RagInv'
BY DEF RagInv, base, ragVars, polling, Typed, RagTyped, RagJob, Verdict, Granted, Spoken, Passes,
       GoneIsEmpty

LEMMA RagTruthful == RagInv => MCTruthful
BY FilesAre DEF RagInv, RagJob, Granted, Passes, Ended, Settled, MCTruthful, TruthfulBut

-----------------------------------------------------------------------------
(* The backend configured.                                                 *)

\* Any step of the backend configured, without the bound that MCNext puts on
\* the second job.
RunsOne ==
  \/ Runs("llamaindex") /\ LlamaNext
  \/ Runs("opensearch") /\ OpenSearchNext
  \/ Runs("azure") /\ AzureNext
  \/ Runs("nemo") /\ NemoNext
  \/ Runs("nemo_service") /\ ServiceNext
  \/ Runs("foundational_rag") /\ RagNext

\* The invariant of the backend configured; a name that no step is for rests
\* in the initial state, of which LlamaInv is as true as any.
Others == {"opensearch", "azure", "nemo", "nemo_service", "foundational_rag"}
Configured ==
  /\ backend \notin Others => LlamaInv
  /\ backend = "opensearch" => OpenInv
  /\ backend = "azure" => AzureInv
  /\ backend = "nemo" => NemoInv
  /\ backend = "nemo_service" => ServiceInv
  /\ backend = "foundational_rag" => RagInv

\* What WellFormed says of the variables of a backend, configured or not.
OthersTyped ==
  /\ LlamaTyped /\ OpenTyped /\ AzureTyped /\ NemoTyped /\ NemoBooks
  /\ ServiceTyped /\ RagTyped

KnowledgeInv == Configured /\ OthersTyped

LEMMA KnowledgeFirst == MCInit => KnowledgeInv
<1> SUFFICES ASSUME MCInit PROVE KnowledgeInv
  OBVIOUS
<1>1. LlamaInv /\ OpenInv /\ AzureInv /\ NemoInv /\ ServiceInv /\ RagInv
  BY LlamaFirst, OpenFirst, AzureFirst, NemoFirst, ServiceFirst, RagFirst DEF MCInit
<1>2. Configured
  BY <1>1 DEF Configured
<1>3. OthersTyped
  BY <1>1 DEF OthersTyped, LlamaInv, OpenInv, AzureInv, NemoInv, ServiceInv, RagInv
<1> QED
  BY <1>2, <1>3 DEF KnowledgeInv

LEMMA LlamaRestsTyped == LlamaTyped /\ UNCHANGED llamaVars => LlamaTyped'
BY DEF LlamaTyped, llamaVars
LEMMA OpenRestsTyped == OpenTyped /\ UNCHANGED osVars => OpenTyped'
BY DEF OpenTyped, osVars
LEMMA AzureRestsTyped == AzureTyped /\ UNCHANGED azureVars => AzureTyped'
BY DEF AzureTyped, azureVars, deleting, plans
LEMMA NemoRestsTyped == NemoTyped /\ NemoBooks /\ UNCHANGED nemoVars => NemoTyped' /\ NemoBooks'
BY DEF NemoTyped, NemoBooks, Slots, nemoVars
LEMMA ServiceRestsTyped == ServiceTyped /\ UNCHANGED serviceVars => ServiceTyped'
BY DEF ServiceTyped, serviceVars
LEMMA RagRestsTyped == RagTyped /\ UNCHANGED ragVars => RagTyped'
BY DEF RagTyped, ragVars, polling

LEMMA RunsKeeps == KnowledgeInv /\ RunsOne => KnowledgeInv' /\ KeepsOutcome
<1> SUFFICES ASSUME KnowledgeInv, RunsOne PROVE KnowledgeInv' /\ KeepsOutcome
  OBVIOUS
<1> USE LlamaRestsTyped, OpenRestsTyped, AzureRestsTyped, NemoRestsTyped, ServiceRestsTyped,
        RagRestsTyped
<1>0. Configured /\ OthersTyped
  BY DEF KnowledgeInv
<1>1. ASSUME Runs("llamaindex"), LlamaNext PROVE KnowledgeInv' /\ KeepsOutcome
  <2>1. LlamaInv' /\ KeepsOutcome
    BY <1>0, <1>1, LlamaStep DEF Runs, Configured, Others
  <2>2. OthersTyped'
    BY <1>0, <1>1, <2>1 DEF Runs, OthersTyped, LlamaInv
  <2> QED
    BY <1>1, <2>1, <2>2 DEF Runs, KnowledgeInv, Configured
<1>2. ASSUME Runs("opensearch"), OpenSearchNext PROVE KnowledgeInv' /\ KeepsOutcome
  <2>1. OpenInv' /\ KeepsOutcome
    BY <1>0, <1>2, OpenStep DEF Runs, Configured
  <2>2. OthersTyped'
    BY <1>0, <1>2, <2>1 DEF Runs, OthersTyped, OpenInv
  <2> QED
    BY <1>2, <2>1, <2>2 DEF Runs, KnowledgeInv, Configured, Others
<1>3. ASSUME Runs("azure"), AzureNext PROVE KnowledgeInv' /\ KeepsOutcome
  <2>1. AzureInv' /\ KeepsOutcome
    BY <1>0, <1>3, AzureStep DEF Runs, Configured
  <2>2. OthersTyped'
    BY <1>0, <1>3, <2>1 DEF Runs, OthersTyped, AzureInv
  <2> QED
    BY <1>3, <2>1, <2>2 DEF Runs, KnowledgeInv, Configured, Others
<1>4. ASSUME Runs("nemo"), NemoNext PROVE KnowledgeInv' /\ KeepsOutcome
  <2>1. NemoInv' /\ KeepsOutcome
    BY <1>0, <1>4, NemoStep DEF Runs, Configured
  <2>2. OthersTyped'
    BY <1>0, <1>4, <2>1 DEF Runs, OthersTyped, NemoInv
  <2> QED
    BY <1>4, <2>1, <2>2 DEF Runs, KnowledgeInv, Configured, Others
<1>5. ASSUME Runs("nemo_service"), ServiceNext PROVE KnowledgeInv' /\ KeepsOutcome
  <2>1. ServiceInv' /\ KeepsOutcome
    BY <1>0, <1>5, ServiceStep DEF Runs, Configured
  <2>2. OthersTyped'
    BY <1>0, <1>5, <2>1 DEF Runs, OthersTyped, ServiceInv
  <2> QED
    BY <1>5, <2>1, <2>2 DEF Runs, KnowledgeInv, Configured, Others
<1>6. ASSUME Runs("foundational_rag"), RagNext PROVE KnowledgeInv' /\ KeepsOutcome
  <2>1. RagInv' /\ KeepsOutcome
    BY <1>0, <1>6, RagStep DEF Runs, Configured
  <2>2. OthersTyped'
    BY <1>0, <1>6, <2>1 DEF Runs, OthersTyped, RagInv
  <2> QED
    BY <1>6, <2>1, <2>2 DEF Runs, KnowledgeInv, Configured, Others
<1> QED
  BY <1>1, <1>2, <1>3, <1>4, <1>5, <1>6 DEF RunsOne

LEMMA KnowledgeRests == KnowledgeInv /\ UNCHANGED vars => KnowledgeInv'
<1> SUFFICES ASSUME KnowledgeInv, UNCHANGED vars PROVE KnowledgeInv'
  OBVIOUS
<1>1. /\ backend' = backend /\ UNCHANGED base
      /\ UNCHANGED llamaVars /\ UNCHANGED <<handle, bound>>
      /\ UNCHANGED osVars /\ UNCHANGED azureVars /\ UNCHANGED nemoVars
      /\ UNCHANGED serviceVars /\ UNCHANGED ragVars
  BY DEF vars, llamaVars
<1>2. OthersTyped'
  BY <1>1, LlamaRestsTyped, OpenRestsTyped, AzureRestsTyped, NemoRestsTyped,
     ServiceRestsTyped, RagRestsTyped DEF KnowledgeInv, OthersTyped
<1>3. Configured'
  BY <1>1, LlamaRests, OpenRests, AzureRests, NemoRests, ServiceRests, RagRests
  DEF KnowledgeInv, Configured
<1> QED
  BY <1>2, <1>3 DEF KnowledgeInv

LEMMA KnowledgeStep == KnowledgeInv /\ [RunsOne]_vars => KnowledgeInv'
BY RunsKeeps, KnowledgeRests

LEMMA TypedImplies == Typed => TypeOK
BY DEF Typed, TypeOK

\* What the properties read off the invariant.
LEMMA KnowledgeSays == KnowledgeInv => WellFormed /\ MCTruthful /\ MCGoneIsEmpty
<1> SUFFICES ASSUME KnowledgeInv PROVE WellFormed /\ MCTruthful /\ MCGoneIsEmpty
  OBVIOUS
<1>0. Configured /\ OthersTyped
  BY DEF KnowledgeInv
<1>1. \/ LlamaInv \/ OpenInv \/ AzureInv \/ NemoInv \/ ServiceInv \/ RagInv
  BY <1>0 DEF Configured, Others
<1>2. Typed /\ MCTruthful
  <2>1. MCTruthful
    BY <1>1, LlamaTruthful, OpenTruthful, AzureTruthful, NemoTruthful, ServiceTruthful, RagTruthful
  <2>2. Typed
    BY <1>1 DEF LlamaInv, OpenInv, AzureInv, NemoInv, ServiceInv, RagInv
  <2> QED
    BY <2>1, <2>2
<1>3. WellFormed
  <2>1. backend = "nemo_service" => RoomIsAccounted
    BY <1>0, RoomAccounted DEF Configured
  <2>2. ActiveIsQueued
    BY <1>0, ActiveQueued DEF OthersTyped
  <2>3. TypeOK
    BY <1>2, TypedImplies
  <2>4. tracked \cup forgotten \cup rejected \cup listed \cup unnamed \subseteq Files
    BY <1>0 DEF OthersTyped, AzureTyped, ServiceTyped, RagTyped
  <2>5. /\ manifest \in [Files -> FileStates]
        /\ deletion \in {"idle", "marked", "checked", "emptying", "emptied", "dropped"}
    BY <1>0 DEF OthersTyped, AzureTyped
  <2>6. /\ handle \in [Jobs -> {"none", "held", "lost"}] /\ bound \subseteq Jobs
        /\ dask \subseteq Jobs /\ result \in [Files -> {"none", "SUCCESS", "FAILED"}]
        /\ losses \in [Jobs -> 0..Losses]
    BY <1>0 DEF OthersTyped, LlamaTyped, OpenTyped
  <2>7. task \in [Jobs -> {"none", "running", "ended", "failed"}] /\ known \subseteq Jobs
    BY <1>0 DEF OthersTyped, RagTyped
  <2> QED
    BY <2>1, <2>2, <2>3, <2>4, <2>5, <2>6, <2>7 DEF WellFormed
<1>4. MCGoneIsEmpty
  BY <1>1 DEF MCGoneIsEmpty, GoneIsEmpty, LlamaInv, OpenInv, AzureInv, NemoInv, ServiceInv, RagInv,
              Unrevived, Dropped
<1> QED
  BY <1>2, <1>3, <1>4

LEMMA OutcomeStays == KnowledgeInv /\ [RunsOne]_vars => [KeepsOutcome]_<<job, status>>
<1> SUFFICES ASSUME KnowledgeInv, [RunsOne]_vars, ~UNCHANGED <<job, status>> PROVE KeepsOutcome
  OBVIOUS
<1>1. RunsOne
  BY DEF vars, base
<1> QED
  BY <1>1, RunsKeeps

LEMMA BoundedRuns == MCSpec => MCInit /\ [][RunsOne]_vars
<1>1. MCNext => RunsOne
  BY DEF MCNext, RunsOne
<1> QED
  BY <1>1, PTL DEF MCSpec

LEMMA KnowledgeHolds == MCInit /\ [][RunsOne]_vars => []KnowledgeInv
BY KnowledgeFirst, KnowledgeStep, PTL

\* Whatever backend is configured, and for any jobs side by side: what each
\* keeps has its type, the embedded NeMo queue agrees with the documents it
\* calls active, and the room that the NeMo client takes is that of uploads
\* still to end; a completed job has no file in the works, and every file it
\* reports SUCCESS is wholly searchable unless a deletion took chunks of it
\* or the RAG server failed it without a name or a message;
\* no chunk outlives its collection, on Azure as long as no delete_file has
\* revived a collection being deleted; and an ended job stands.
THEOREM KnowledgeSound ==
  MCInit /\ [][RunsOne]_vars => [](WellFormed /\ MCTruthful /\ MCGoneIsEmpty) /\ OutcomeKept
<1>1. KnowledgeInv => WellFormed /\ MCTruthful /\ MCGoneIsEmpty
  BY KnowledgeSays
<1>2. MCInit /\ [][RunsOne]_vars => [](WellFormed /\ MCTruthful /\ MCGoneIsEmpty)
  BY <1>1, KnowledgeHolds, PTL
<1>3. KnowledgeInv /\ [RunsOne]_vars => [KeepsOutcome]_<<job, status>>
  BY OutcomeStays
<1>4. MCInit /\ [][RunsOne]_vars => [][KeepsOutcome]_<<job, status>>
  BY <1>3, KnowledgeHolds, PTL
<1>5. MCInit /\ [][RunsOne]_vars => OutcomeKept
  BY <1>4 DEF OutcomeKept, KeepsOutcome
<1> QED
  BY <1>2, <1>5

\* Of the model that the run checks: the types, and the books of the two NeMo
\* profiles (queue_file and _process_queue; _begin_submission and the tasks
\* that give the room back).
THEOREM KnowledgeWellFormed == MCSpec => []WellFormed
BY BoundedRuns, KnowledgeSound, PTL

\* What get_job_status says of a completed job can be relied on, but for the
\* files that the RAG server failed without a name or a message.
THEOREM KnowledgeTruthful == MCSpec => []MCTruthful
BY BoundedRuns, KnowledgeSound, PTL

\* delete_collection leaves no chunk behind.
THEOREM KnowledgeGoneIsEmpty == MCSpec => []MCGoneIsEmpty
BY BoundedRuns, KnowledgeSound, PTL

\* An ended job and its files stand, but for the two ways in which OpenSearch
\* and the RAG backend turn it to failed.
THEOREM KnowledgeOutcomeKept == MCSpec => OutcomeKept
BY BoundedRuns, KnowledgeSound
=============================================================================
