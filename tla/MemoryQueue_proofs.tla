------------------------- MODULE MemoryQueue_proofs -------------------------
(***************************************************************************)
(* Proofs about the in-memory queue for every set of jobs, number of       *)
(* attempts and concurrency: its types, that the active count is exact,    *)
(* the concurrency limit, that timers and the interval start no job twice  *)
(* and no job too often, and that every job goes through JobLifecycle.     *)
(***************************************************************************)
EXTENDS MemoryQueue, FiniteSetTheorems, SequenceTheorems, WellFoundedInduction, TLAPS

\* A job its caller has not retried: at most one handler, and while it has one
\* no timer is set for it; there is an attempt left for what may start it next.
JobOK(j) ==
    /\ \A g, h \in HandlersOf(j) : g = h
    /\ HandlersOf(j) # {} => /\ processedOn[j] /\ ~finishedOn[j]
                             /\ retryTimers[j] = 0 /\ j \notin delayTimers
    /\ retryTimers[j] \in {0, 1}
    /\ retryTimers[j] = 1 => finishedOn[j]
    /\ j \in delayTimers => ~finishedOn[j]
    /\ finishedOn[j] => attemptsMade[j] + retryTimers[j] <= MaxAttempts
    /\ ~finishedOn[j] => attemptsMade[j] + 1 <= MaxAttempts
    /\ j \notin added => ~finishedOn[j] /\ HandlersOf(j) = {}

JobsOK == \A j \in Jobs \ retried : JobOK(j)

IInv == TypeOK /\ ActiveCountExact /\ JobsOK

-----------------------------------------------------------------------------
\* Removing one element keeps the others.
LEMMA Removal ==
  ASSUME NEW S, NEW s \in Seq(S), NEW i \in DOMAIN s
  PROVE  /\ RemoveAt(s, i) \in Seq(S)
         /\ \A k \in DOMAIN s : k # i =>
              \E j \in DOMAIN RemoveAt(s, i) : RemoveAt(s, i)[j] = s[k]
<1> DEFINE r == RemoveAt(s, i)  u == SubSeq(s, 1, i - 1)  v == SubSeq(s, i + 1, Len(s))
<1>0. i \in 1..Len(s) /\ Len(s) \in Nat
  OBVIOUS
<1>1. u \in Seq(S) /\ Len(u) = i - 1 /\ \A j \in 1..i - 1 : u[j] = s[j]
  BY <1>0, SubSeqProperties, ElementOfSeq
<1>2. /\ v \in Seq(S) /\ Len(v) = Len(s) - i
      /\ \A j \in 1..Len(s) - i : v[j] = s[i + j]
  BY <1>0, SubSeqProperties, ElementOfSeq
<1> HIDE DEF u, v
<1>3. r = u \o v
  BY DEF RemoveAt, u, v
<1>4. /\ u \o v \in Seq(S) /\ Len(u \o v) = Len(u) + Len(v)
      /\ \A j \in 1..Len(u) + Len(v) : (u \o v)[j] = IF j <= Len(u) THEN u[j] ELSE v[j - Len(u)]
  BY <1>1, <1>2, ConcatProperties
<1> HIDE DEF r
<1>5. r \in Seq(S) /\ DOMAIN r = 1..Len(s) - 1
  BY <1>0, <1>1, <1>2, <1>3, <1>4
<1>6. ASSUME NEW j \in 1..Len(s) - 1 PROVE r[j] = IF j < i THEN s[j] ELSE s[j + 1]
  <2>1. j \in 1..Len(u) + Len(v)
    BY <1>0, <1>1, <1>2
  <2> DEFINE m == Len(u)
  <2>2. m = i - 1 /\ r[j] = IF j <= m THEN u[j] ELSE v[j - m]
    BY <1>1, <1>3, <1>4, <2>1
  <2> HIDE DEF m
  <2>3. CASE j < i
    BY <1>0, <1>1, <2>2, <2>3
  <2>4. CASE ~(j < i)
    <3>1. j - m \in 1..Len(s) - i /\ i + (j - m) = j + 1 /\ ~(j <= m)
      BY <1>0, <2>2, <2>4
    <3> QED BY <1>2, <2>2, <2>4, <3>1
  <2> QED BY <2>3, <2>4
<1>7. ASSUME NEW k \in DOMAIN s, k # i PROVE \E j \in DOMAIN r : r[j] = s[k]
  <2>1. CASE k < i
    BY <1>0, <1>5, <1>6, <2>1
  <2>2. CASE k > i
    <3>1. k - 1 \in 1..Len(s) - 1 /\ ~(k - 1 < i) /\ (k - 1) + 1 = k
      BY <1>0, <2>2
    <3> QED BY <1>5, <1>6, <3>1
  <2> QED BY <1>7, <2>1, <2>2
<1> QED BY <1>5, <1>7 DEF r

\* Handlers are finitely many.
LEMMA Finiteness ==
  ASSUME TypeOK
  PROVE  IsFiniteSet(running) /\ IsFiniteSet(orphans) /\ IsFiniteSet(Jobs \X Calls)
<1>1. IsFiniteSet(Jobs \X Calls)
  BY QueueAssumption, FS_Product
<1>2. running \in SUBSET (Jobs \X Calls) /\ orphans \in SUBSET (Jobs \X Calls)
  BY DEF TypeOK
<1> QED BY <1>1, <1>2, FS_Subset

\* Starting the jobs of S adds a handler for each of them.
LEMMA Starting ==
  ASSUME TypeOK, ActiveCountExact, NEW S \in SUBSET Jobs, NEW new \in [Jobs -> BOOLEAN],
         Start(S, new)
  PROVE  /\ processedOn' \in [Jobs -> BOOLEAN]
         /\ \A j \in Jobs : processedOn'[j] <=> j \in S \/ new[j]
         /\ running \subseteq running' /\ running' \subseteq running \cup (S \X Calls)
         /\ \A g, h \in running' \ running : g[1] = h[1] => g = h
         /\ (running' \ running) \cap orphans = {}
         /\ S = {} => running' = running
         /\ activeJobs' = Cardinality(running') /\ activeJobs' \in Nat
         /\ activeJobs' = activeJobs + Cardinality(S)
<1>1. PICK h \in [S -> Calls] :
        /\ \A j \in S : <<j, h[j]>> \notin running \cup orphans
        /\ running' = running \cup {<<j, h[j]>> : j \in S}
  BY DEF Start
<1> DEFINE N == {<<j, h[j]>> : j \in S}
           f == [j \in S |-> <<j, h[j]>>]
<1>2. IsFiniteSet(S)
  BY QueueAssumption, FS_Subset
<1>3. f \in Bijection(S, N)
  BY DEF Bijection, Injection, Surjection, IsInjective
<1>4. IsFiniteSet(N) /\ Cardinality(N) = Cardinality(S)
  BY <1>2, <1>3, FS_Bijection DEF ExistsBijection
<1>5. running \cap N = {}
  BY <1>1
<1>6. Cardinality(running \cup N) = Cardinality(running) + Cardinality(N) - Cardinality(running \cap N)
  BY <1>4, Finiteness, FS_Union
<1>7. Cardinality(running \cap N) = 0
  BY <1>5, FS_EmptySet
<1>8. Cardinality(running) \in Nat /\ Cardinality(N) \in Nat
  BY <1>4, Finiteness, FS_CardinalityType
<1>9. activeJobs' = Cardinality(running') /\ activeJobs' \in Nat
  <2>1. activeJobs' = activeJobs + Cardinality(S)
    BY DEF Start
  <2>2. running' = running \cup N /\ activeJobs = Cardinality(running)
    BY <1>1 DEF ActiveCountExact
  <2> HIDE DEF N
  <2> QED BY <1>4, <1>6, <1>7, <1>8, <2>1, <2>2
<1>10. /\ processedOn' \in [Jobs -> BOOLEAN]
       /\ \A j \in Jobs : processedOn'[j] <=> j \in S \/ new[j]
  BY DEF Start
<1>11. /\ running \subseteq running' /\ running' \subseteq running \cup (S \X Calls)
       /\ \A g, k \in running' \ running : g[1] = k[1] => g = k
       /\ (running' \ running) \cap orphans = {}
       /\ S = {} => running' = running
  BY <1>1
<1> QED BY <1>9, <1>10, <1>11 DEF Start

-----------------------------------------------------------------------------
LEMMA InitOK == Init => IInv
<1> SUFFICES ASSUME Init PROVE IInv
  OBVIOUS
<1>1. TypeOK
  <2>1. jobs \in Seq(added)
    BY EmptySeq DEF Init
  <2>2. attemptsMade \in [Jobs -> Nat] /\ retryTimers \in [Jobs -> Nat]
    BY DEF Init
  <2>4. delayTimers \subseteq Delayed \cap Here /\ running \subseteq added \X Calls
        /\ orphans \subseteq added \X Calls
    BY DEF Init
  <2>3. /\ processedOn \in [Jobs -> BOOLEAN] /\ finishedOn \in [Jobs -> BOOLEAN]
        /\ failedReason \in [Jobs -> Reasons]
    BY DEF Init, Reasons
  <2>a. concurrency \in Nat \ {0} /\ activeJobs \in Nat
    BY DEF Init
  <2>b. queue \in {"none", "running", "paused", "closed"}
    BY DEF Init
  <2>5. processor \in BOOLEAN /\ loop \in BOOLEAN
    BY DEF Init
  <2>6. added \subseteq Jobs /\ retried \subseteq added
    BY DEF Init
  <2> QED BY <2>1, <2>2, <2>3, <2>4, <2>a, <2>b, <2>5, <2>6 DEF TypeOK
<1>2. ActiveCountExact
  BY FS_EmptySet DEF Init, ActiveCountExact
<1>3. JobsOK
  BY QueueAssumption DEF Init, JobsOK, JobOK, HandlersOf
<1> QED BY <1>1, <1>2, <1>3 DEF IInv

-----------------------------------------------------------------------------
\* The set processJob() starts, and who calls it.
LEMMA Processing ==
  ASSUME IInv, NEW j \in Jobs, NEW new \in [Jobs -> BOOLEAN], ProcessJob(j, new)
  PROVE  \E S \in SUBSET {j} : S \subseteq Here /\ (S # {} => Open) /\ Start(S, new)
BY DEF ProcessJob

LEMMA AddedHere == TypeOK => Here \subseteq added /\ added \subseteq Jobs
<1> SUFFICES ASSUME TypeOK PROVE Here \subseteq added
  BY DEF TypeOK
<1> QED BY ElementOfSeq DEF TypeOK, Here

\* How the step that ends a handler changes the counts.
LEMMA Leaving ==
  ASSUME IInv, NEW h \in running \cup orphans, Leave(h)
  PROVE  /\ activeJobs' = Cardinality(running') /\ activeJobs' \in Nat
         /\ running' \subseteq running /\ orphans' \subseteq orphans
         /\ h \notin running' \cup orphans'
<1>1. IsFiniteSet(running)
  BY Finiteness DEF IInv
<1>2. CASE h \in running
  <2>1. Cardinality(running \ {h}) = Cardinality(running) - 1
    BY <1>1, <1>2, FS_RemoveElement
  <2>2. IsFiniteSet(running \ {h}) /\ Cardinality(running \ {h}) \in Nat
    BY <1>1, FS_RemoveElement, FS_CardinalityType
  <2> QED BY <1>2, <2>1, <2>2 DEF Leave, IInv, ActiveCountExact
<1>3. CASE h \notin running
  BY <1>3 DEF Leave, IInv, ActiveCountExact, TypeOK
<1>4. running' \subseteq running /\ orphans' \subseteq orphans /\ h \notin running' \cup orphans'
  BY DEF Leave
<1> QED BY <1>2, <1>3, <1>4

\* What a step that starts the jobs of S must do with a job not retried.
StartsWell(j, S, new) ==
    /\ \/ finishedOn'[j] = finishedOn[j] /\ retryTimers'[j] = retryTimers[j]
       \/ retryTimers[j] = 1 /\ retryTimers'[j] = 0 /\ ~finishedOn'[j]
    /\ HandlersOf(j) # {} => new[j]
    /\ j \in S => ~finishedOn'[j] /\ HandlersOf(j) = {} /\ j \notin delayTimers'

\* Starting a job that has no handler and no timer keeps every job in order.
LEMMA StartKeepsOrder ==
  ASSUME IInv, NEW S \in SUBSET Jobs, NEW new \in [Jobs -> BOOLEAN], Start(S, new),
         finishedOn' \in [Jobs -> BOOLEAN], attemptsMade' = attemptsMade, orphans' = orphans,
         S \subseteq added', added \subseteq added', retried \subseteq retried',
         delayTimers' \subseteq delayTimers \cup (Jobs \ added),
         \A j \in Jobs \ retried' : StartsWell(j, S, new)
  PROVE  JobsOK'
<1> SUFFICES ASSUME NEW j \in Jobs, j \notin retried' PROVE JobOK(j)'
  BY DEF JobsOK
<1>1. JobOK(j) /\ j \notin retried
  BY DEF IInv, JobsOK
<1>0. /\ \/ finishedOn'[j] = finishedOn[j] /\ retryTimers'[j] = retryTimers[j]
         \/ retryTimers[j] = 1 /\ retryTimers'[j] = 0 /\ ~finishedOn'[j]
      /\ HandlersOf(j) # {} => new[j]
      /\ j \in S => ~finishedOn'[j] /\ HandlersOf(j) = {} /\ j \notin delayTimers'
  BY DEF StartsWell
<1>2. /\ running \subseteq running' /\ running' \subseteq running \cup (S \X Calls)
      /\ \A g, h \in running' \ running : g[1] = h[1] => g = h
      /\ processedOn'[j] <=> j \in S \/ new[j]
  BY Starting DEF IInv
<1>3. j \notin S => HandlersOf(j)' = HandlersOf(j)
  BY <1>2 DEF HandlersOf
<1>4. j \in S => HandlersOf(j)' \subseteq running' \ running
  BY <1>0, <1>2 DEF HandlersOf
<1>5. \A g, h \in HandlersOf(j)' : g = h
  <2>1. CASE j \in S
    BY <1>2, <1>4, <2>1 DEF HandlersOf
  <2>2. CASE j \notin S
    BY <1>1, <1>3, <2>2 DEF JobOK
  <2> QED BY <2>1, <2>2
<1>6. HandlersOf(j)' # {} => /\ processedOn'[j] /\ ~finishedOn'[j]
                             /\ retryTimers'[j] = 0 /\ j \notin delayTimers'
  <2>1. CASE j \in S
    BY <1>0, <1>1, <1>2, <2>1 DEF JobOK, IInv, TypeOK
  <2>2. CASE j \notin S
    BY <1>0, <1>1, <1>2, <1>3, <2>2 DEF JobOK, IInv, TypeOK
  <2> QED BY <2>1, <2>2
<1>7. /\ retryTimers'[j] \in {0, 1}
      /\ retryTimers'[j] = 1 => finishedOn'[j]
      /\ finishedOn'[j] => attemptsMade'[j] + retryTimers'[j] <= MaxAttempts
      /\ ~finishedOn'[j] => attemptsMade'[j] + 1 <= MaxAttempts
  BY <1>0, <1>1, QueueAssumption DEF JobOK, IInv, TypeOK
<1>8. j \in delayTimers' => ~finishedOn'[j]
  BY <1>0, <1>1 DEF JobOK, IInv, TypeOK
<1>9. j \notin added' => ~finishedOn'[j] /\ HandlersOf(j)' = {}
  BY <1>0, <1>1, <1>3 DEF JobOK
<1> QED BY <1>5, <1>6, <1>7, <1>8, <1>9 DEF JobOK

-----------------------------------------------------------------------------
\* What starting the jobs of a set does to the types and to the count.
LEMMA StartTypes ==
  ASSUME IInv, NEW S \in SUBSET Jobs, NEW new \in [Jobs -> BOOLEAN], Start(S, new),
         added \subseteq added', S \subseteq added'
  PROVE  /\ processedOn' \in [Jobs -> BOOLEAN] /\ running' \subseteq added' \X Calls
         /\ activeJobs' \in Nat /\ ActiveCountExact'
<1>1. /\ processedOn' \in [Jobs -> BOOLEAN] /\ running' \subseteq running \cup (S \X Calls)
      /\ activeJobs' = Cardinality(running') /\ activeJobs' \in Nat
  BY Starting DEF IInv
<1> QED BY <1>1 DEF ActiveCountExact, IInv, TypeOK

LEMMA AddJobOK == ASSUME IInv, NEW j \in Jobs, AddJob(j) PROVE IInv'
<1>1. j \notin added /\ added' = added \cup {j} /\ j \notin Here
  BY AddedHere DEF AddJob, IInv
<1>2. jobs' \in Seq(added') /\ Here' = Here \cup {j}
  <2>1. jobs \in Seq(added') /\ jobs' = Append(jobs, j)
    BY <1>1 DEF AddJob, IInv, TypeOK
  <2>2. /\ Len(jobs) \in Nat /\ Len(jobs') = Len(jobs) + 1 /\ jobs'[Len(jobs) + 1] = j
        /\ \A i \in 1..Len(jobs) : jobs'[i] = jobs[i]
        /\ jobs' \in Seq(added')
    BY <1>1, <2>1
  <2>3. DOMAIN jobs = 1..Len(jobs) /\ DOMAIN jobs' = 1..Len(jobs) + 1
    BY <2>1, <2>2
  <2> QED BY <2>2, <2>3 DEF Here
<1>4. CASE j \in Delayed
  <2>1. delayTimers' = delayTimers \cup {j} /\ UNCHANGED <<processedOn, running, activeJobs>>
    BY <1>4 DEF AddJob, runVars
  <2>2. TypeOK'
    BY <1>1, <1>2, <1>4, <2>1 DEF AddJob, EnsureQueue, IInv, TypeOK
  <2>3. ActiveCountExact'
    BY <2>1 DEF IInv, ActiveCountExact
  <2>4. JobsOK'
    BY <1>1, <2>1 DEF AddJob, IInv, JobsOK, JobOK, HandlersOf
  <2> QED BY <2>2, <2>3, <2>4 DEF IInv
<1>5. CASE j \notin Delayed
  <2>1. PICK T \in SUBSET {j} : Start(T, processedOn)
    BY <1>5 DEF AddJob
  <2>2. /\ delayTimers' = delayTimers
        /\ UNCHANGED <<retried, finishedOn, failedReason, attemptsMade, retryTimers,
                       orphans, processor, concurrency, loop>>
    BY <1>5 DEF AddJob
  <2>3. processedOn \in [Jobs -> BOOLEAN] /\ T \in SUBSET Jobs /\ T \subseteq added'
    BY <1>1 DEF IInv, TypeOK
  <2>4. /\ processedOn' \in [Jobs -> BOOLEAN] /\ running' \subseteq added' \X Calls
        /\ activeJobs' \in Nat /\ ActiveCountExact'
    BY <1>1, <2>1, <2>3, StartTypes
  <2>5. TypeOK'
    <3>1. queue' \in {"none", "running", "paused", "closed"}
      BY DEF AddJob, EnsureQueue, IInv, TypeOK
    <3> QED BY <1>1, <1>2, <2>2, <2>4, <3>1 DEF IInv, TypeOK
  <2>6. j \notin delayTimers
    BY <1>5 DEF IInv, TypeOK
  <2>7. \A k \in Jobs \ retried' :
          /\ HandlersOf(k) # {} => processedOn[k]
          /\ k \in T => ~finishedOn[k] /\ HandlersOf(k) = {}
    BY <1>1, <2>2 DEF IInv, JobsOK, JobOK
  <2>8. JobsOK'
    <3>1. /\ finishedOn' \in [Jobs -> BOOLEAN] /\ attemptsMade' = attemptsMade /\ orphans' = orphans
          /\ T \subseteq added' /\ added \subseteq added' /\ retried \subseteq retried'
          /\ delayTimers' \subseteq delayTimers \cup (Jobs \ added)
      BY <1>1, <2>2, <2>6 DEF IInv, TypeOK
    <3>2. \A k \in Jobs \ retried' : StartsWell(k, T, processedOn)
      BY <2>2, <2>6, <2>7 DEF StartsWell
    <3> QED BY <2>1, <2>3, <3>1, <3>2, StartKeepsOrder
  <2> QED BY <2>4, <2>5, <2>8 DEF IInv
<1> QED BY <1>4, <1>5

\* A step that starts the jobs of S and touches no timer but theirs.
LEMMA DelayPassesOK == ASSUME IInv, NEW j \in Jobs, DelayPasses(j) PROVE IInv'
<1>1. PICK S \in SUBSET {j} : Start(S, processedOn) /\ S \subseteq Here
  BY Processing DEF DelayPasses, IInv, TypeOK
<1>2. processedOn \in [Jobs -> BOOLEAN] /\ S \in SUBSET Jobs /\ S \subseteq added' /\ added' = added
  BY <1>1, AddedHere DEF DelayPasses, IInv, TypeOK
<1>3. /\ processedOn' \in [Jobs -> BOOLEAN] /\ running' \subseteq added' \X Calls
      /\ activeJobs' \in Nat /\ ActiveCountExact'
  BY <1>1, <1>2, StartTypes
<1>4. TypeOK'
  BY <1>3 DEF DelayPasses, queueVars, IInv, TypeOK, Here
<1>5. JobsOK'
  <2>1. /\ finishedOn' \in [Jobs -> BOOLEAN] /\ attemptsMade' = attemptsMade /\ orphans' = orphans
        /\ retried \subseteq retried' /\ delayTimers' \subseteq delayTimers \cup (Jobs \ added)
    BY <1>1 DEF DelayPasses, IInv, TypeOK
  <2>2. \A k \in Jobs \ retried' : StartsWell(k, S, processedOn)
    BY <1>1 DEF DelayPasses, IInv, TypeOK, JobsOK, JobOK, StartsWell
  <2> QED BY <1>1, <1>2, <2>1, <2>2, StartKeepsOrder
<1> QED BY <1>3, <1>4, <1>5 DEF IInv

\* getJobStatus() by its tests, in their order.
LEMMA StatusBy ==
  ASSUME NEW j, failedReason[j] \in Reasons, finishedOn[j] \in BOOLEAN, processedOn[j] \in BOOLEAN
  PROVE  /\ failedReason[j] = "text" => StatusOf(j) = "failed"
         /\ failedReason[j] # "text" /\ finishedOn[j] => StatusOf(j) = "completed"
         /\ failedReason[j] # "text" /\ ~finishedOn[j] /\ processedOn[j] => StatusOf(j) = "active"
         /\ failedReason[j] # "text" /\ ~finishedOn[j] /\ ~processedOn[j] =>
              StatusOf(j) \in {"waiting", "delayed"}
BY DEF StatusOf

LEMMA TickOK == ASSUME IInv, Tick PROVE IInv'
<1>1. PICK S \in SUBSET Waiting : Start(S, processedOn)
  BY DEF Tick
<1>2. /\ processedOn \in [Jobs -> BOOLEAN] /\ S \in SUBSET Jobs /\ S \subseteq added' /\ added' = added
      /\ UNCHANGED <<retried, jobs, finishedOn, failedReason, attemptsMade, timerVars, orphans, queueVars>>
  BY <1>1, AddedHere DEF Tick, Waiting, IInv, TypeOK
<1>3. /\ processedOn' \in [Jobs -> BOOLEAN] /\ running' \subseteq added' \X Calls
      /\ activeJobs' \in Nat /\ ActiveCountExact'
  BY <1>1, <1>2, StartTypes
<1>4. TypeOK'
  BY <1>2, <1>3 DEF timerVars, queueVars, IInv, TypeOK, Here
<1>5. JobsOK'
  <2>1. /\ finishedOn' \in [Jobs -> BOOLEAN] /\ attemptsMade' = attemptsMade /\ orphans' = orphans
        /\ retried \subseteq retried' /\ delayTimers' \subseteq delayTimers \cup (Jobs \ added)
    BY <1>1, <1>2 DEF timerVars, Waiting, IInv, TypeOK
  <2>2. ASSUME NEW k \in S PROVE ~finishedOn[k] /\ ~processedOn[k] /\ k \notin Delayed
    <3>1. k \in Jobs /\ k \notin Delayed /\ StatusOf(k) = "waiting"
      BY <1>1, <1>2 DEF Waiting
    <3>2. {finishedOn[k], processedOn[k]} \subseteq BOOLEAN /\ failedReason[k] \in Reasons
      BY <3>1 DEF IInv, TypeOK
    <3> QED BY <3>1, <3>2, StatusBy
  <2>3. \A k \in Jobs \ retried' : StartsWell(k, S, processedOn)
    BY <1>1, <1>2, <2>2 DEF timerVars, IInv, TypeOK, JobsOK, JobOK, StartsWell
  <2> QED BY <1>1, <1>2, <2>1, <2>3, StartKeepsOrder
<1> QED BY <1>3, <1>4, <1>5 DEF IInv

LEMMA AgainOK ==
  ASSUME IInv, NEW j \in Jobs, Again(j),
         \/ /\ retried' = retried /\ retryTimers[j] > 0
            /\ retryTimers' = [retryTimers EXCEPT ![j] = @ - 1]
         \/ j \in Here /\ retried' = retried \cup {j} /\ retryTimers' = retryTimers
  PROVE  IInv'
<1> DEFINE new == [processedOn EXCEPT ![j] = FALSE]
<1>1. PICK S \in SUBSET {j} : Start(S, new) /\ S \subseteq Here
  BY Processing DEF Again, IInv, TypeOK
<1>2. /\ new \in [Jobs -> BOOLEAN] /\ S \in SUBSET Jobs /\ S \subseteq added' /\ added' = added
      /\ UNCHANGED <<added, jobs, attemptsMade, delayTimers, orphans, queueVars>>
      /\ finishedOn' = [finishedOn EXCEPT ![j] = FALSE]
      /\ failedReason' = [failedReason EXCEPT ![j] = "none"]
  BY <1>1, AddedHere DEF Again, IInv, TypeOK
<1> HIDE DEF new
<1>3. /\ processedOn' \in [Jobs -> BOOLEAN] /\ running' \subseteq added' \X Calls
      /\ activeJobs' \in Nat /\ ActiveCountExact'
  BY <1>1, <1>2, StartTypes
<1>4. retryTimers' \in [Jobs -> Nat] /\ retried' \subseteq added
  BY AddedHere DEF IInv, TypeOK
<1>5. TypeOK'
  <2>1. finishedOn' \in [Jobs -> BOOLEAN] /\ failedReason' \in [Jobs -> Reasons]
    BY <1>2 DEF IInv, TypeOK, Reasons
  <2> QED BY <1>2, <1>3, <1>4, <2>1 DEF queueVars, IInv, TypeOK, Here
<1>6. JobsOK'
  <2>1. /\ finishedOn' \in [Jobs -> BOOLEAN] /\ attemptsMade' = attemptsMade /\ orphans' = orphans
        /\ retried \subseteq retried' /\ delayTimers' \subseteq delayTimers \cup (Jobs \ added)
    BY <1>2 DEF IInv, TypeOK
  <2>2. ASSUME j \notin retried' PROVE retryTimers[j] = 1 /\ finishedOn[j] /\ HandlersOf(j) = {} /\ j \notin delayTimers
    BY <2>2 DEF IInv, JobsOK, JobOK
  <2>3. \A k \in Jobs \ retried' : StartsWell(k, S, new)
    <3>1. ASSUME NEW k \in Jobs \ retried' PROVE StartsWell(k, S, new)
      <4>1. CASE k = j
        BY <1>1, <1>2, <2>2, <4>1 DEF new, IInv, TypeOK, StartsWell
      <4>2. CASE k # j
        BY <1>1, <1>2, <4>2 DEF new, IInv, TypeOK, JobsOK, JobOK, StartsWell
      <4> QED BY <4>1, <4>2
    <3> QED BY <3>1
  <2> QED BY <1>1, <1>2, <2>1, <2>2, <2>3, StartKeepsOrder
<1> QED BY <1>3, <1>5, <1>6 DEF IInv

\* A handler that ends frees its place, and its job may have one timer more.
LEMMA LeavesOK ==
  ASSUME IInv, NEW h \in running \cup orphans, Returns(h) \/ Throws(h)
  PROVE  IInv'
<1> DEFINE j == h[1]
<1>1. j \in added /\ h \in HandlersOf(j)
  BY DEF HandlersOf, IInv, TypeOK
<1>2. /\ activeJobs' = Cardinality(running') /\ activeJobs' \in Nat
      /\ running' \subseteq running /\ orphans' \subseteq orphans
      /\ h \notin running' \cup orphans'
  BY Leaving DEF Returns, Throws
<1>3. /\ UNCHANGED <<added, retried, jobs, processedOn, delayTimers, queueVars>>
      /\ finishedOn' = [finishedOn EXCEPT ![j] = TRUE]
      /\ \/ failedReason' = failedReason
         \/ \E m \in Reasons : failedReason' = [failedReason EXCEPT ![j] = m]
  <2>1. MessagesOf(j) \subseteq Reasons
    BY DEF MessagesOf, Reasons
  <2> QED BY <2>1 DEF Returns, Throws, timerVars
<1>4. \/ UNCHANGED <<attemptsMade, retryTimers>>
      \/ /\ attemptsMade' = [attemptsMade EXCEPT ![j] = @ + 1]
         /\ \/ retryTimers' = retryTimers
            \/ /\ attemptsMade'[j] < MaxAttempts
               /\ retryTimers' = [retryTimers EXCEPT ![j] = @ + 1]
  <2>1. CASE Returns(h)
    BY <2>1 DEF Returns, timerVars
  <2>2. CASE Throws(h)
    <3>1. CASE attemptsMade'[j] < MaxAttempts
      BY <2>2, <3>1 DEF Throws
    <3>2. CASE ~(attemptsMade'[j] < MaxAttempts)
      BY <2>2, <3>2 DEF Throws, IInv, TypeOK
    <3> QED BY <3>1, <3>2
  <2> QED BY <2>1, <2>2
<1> HIDE DEF j
<1>5. j \in Jobs
  BY <1>1 DEF IInv, TypeOK
<1>6. attemptsMade' \in [Jobs -> Nat] /\ retryTimers' \in [Jobs -> Nat]
  <2>1. attemptsMade \in [Jobs -> Nat] /\ retryTimers \in [Jobs -> Nat]
    BY DEF IInv, TypeOK
  <2> QED BY <1>4, <1>5, <2>1
<1>7. finishedOn' \in [Jobs -> BOOLEAN] /\ failedReason' \in [Jobs -> Reasons]
  <2>1. finishedOn' \in [Jobs -> BOOLEAN]
    BY <1>3, <1>5 DEF IInv, TypeOK
  <2>2. failedReason' \in [Jobs -> Reasons]
    <3>1. failedReason \in [Jobs -> Reasons]
      BY DEF IInv, TypeOK
    <3>2. ASSUME NEW m \in Reasons, failedReason' = [failedReason EXCEPT ![j] = m]
          PROVE  failedReason' \in [Jobs -> Reasons]
      BY <1>5, <3>1, <3>2
    <3> QED BY <1>3, <3>1, <3>2
  <2> QED BY <2>1, <2>2
<1>8. TypeOK'
  <2>1. processedOn' \in [Jobs -> BOOLEAN] /\ delayTimers' \subseteq Delayed \cap Here'
    BY <1>3 DEF IInv, TypeOK, Here
  <2>2. /\ added' \subseteq Jobs /\ retried' \subseteq added' /\ jobs' \in Seq(added')
        /\ running' \subseteq added' \X Calls /\ orphans' \subseteq added' \X Calls
    BY <1>2, <1>3 DEF IInv, TypeOK
  <2>3. UNCHANGED queueVars
    BY <1>3
  <2> QED BY <1>2, <1>6, <1>7, <2>1, <2>2, <2>3 DEF queueVars, IInv, TypeOK
<1>9. ActiveCountExact'
  BY <1>2 DEF ActiveCountExact
<1>10. ASSUME NEW k \in Jobs, k \notin retried' PROVE JobOK(k)'
  <2>1. JobOK(k)
    BY <1>3, <1>10 DEF IInv, JobsOK
  <2>2. HandlersOf(k)' \subseteq HandlersOf(k)
    BY <1>2 DEF HandlersOf
  <2>3. CASE k # j
    <3>1. /\ finishedOn'[k] = finishedOn[k] /\ attemptsMade'[k] = attemptsMade[k]
          /\ retryTimers'[k] = retryTimers[k] /\ processedOn'[k] = processedOn[k]
      BY <1>3, <1>4, <1>5, <2>3 DEF IInv, TypeOK
    <3> QED BY <1>3, <2>1, <2>2, <3>1 DEF JobOK
  <2>4. CASE k = j
    <3>1. HandlersOf(k)' = {}
      <4>1. \A g \in HandlersOf(k) : g = h
        BY <1>1, <2>1, <2>4 DEF JobOK
      <4>2. h \notin HandlersOf(k)'
        BY <1>2 DEF HandlersOf
      <4> QED BY <2>2, <4>1, <4>2
    <3>2. ~finishedOn[k] /\ retryTimers[k] = 0 /\ k \notin delayTimers /\ finishedOn'[k]
      BY <1>1, <1>3, <1>5, <2>1, <2>4 DEF JobOK, IInv, TypeOK
    <3>3. attemptsMade[k] + 1 <= MaxAttempts
      BY <2>1, <3>2 DEF JobOK
    <3>4. retryTimers'[k] \in {0, 1} /\ attemptsMade'[k] + retryTimers'[k] <= MaxAttempts
      BY <1>4, <1>5, <2>4, <3>2, <3>3, QueueAssumption DEF IInv, TypeOK
    <3> QED BY <1>1, <1>3, <2>4, <3>1, <3>2, <3>4 DEF JobOK
  <2> QED BY <2>3, <2>4
<1> QED BY <1>8, <1>9, <1>10 DEF IInv, JobsOK

LEMMA RemoveJobOK == ASSUME IInv, NEW j \in Jobs, RemoveJob(j) PROVE IInv'
<1> DEFINE i == CHOOSE n \in DOMAIN jobs : jobs[n] = j
<1>1. i \in DOMAIN jobs /\ jobs[i] = j /\ jobs' = RemoveAt(jobs, i)
  BY DEF RemoveJob, Here
<1> HIDE DEF i
<1>2. jobs \in Seq(added)
  BY DEF IInv, TypeOK
<1>3. /\ jobs' \in Seq(added)
      /\ \A k \in DOMAIN jobs : k # i => \E n \in DOMAIN jobs' : jobs'[n] = jobs[k]
  BY <1>1, <1>2, Removal
<1>4. Here \ {j} \subseteq Here'
  BY <1>1, <1>3 DEF Here
<1>5. delayTimers' \subseteq Delayed \cap Here' /\ delayTimers' \subseteq delayTimers
  BY <1>4 DEF RemoveJob, IInv, TypeOK
<1>6. UNCHANGED <<added, retried, jobVars, retryTimers, runVars, orphans, queueVars>>
  BY DEF RemoveJob
<1>7. TypeOK'
  BY <1>3, <1>5, <1>6 DEF jobVars, runVars, queueVars, IInv, TypeOK
<1>8. ActiveCountExact'
  BY <1>6 DEF runVars, IInv, ActiveCountExact
<1>9. JobsOK'
  BY <1>5, <1>6 DEF jobVars, runVars, IInv, JobsOK, JobOK, HandlersOf
<1> QED BY <1>7, <1>8, <1>9 DEF IInv

\* Steps that touch neither a job nor a handler.
LEMMA ControlOK ==
  ASSUME IInv, UNCHANGED <<added, retried, jobs, jobVars, timerVars, runVars, orphans>>,
         queue' \in {"none", "running", "paused", "closed"},
         processor' \in BOOLEAN, loop' \in BOOLEAN, concurrency' \in Nat \ {0}
  PROVE  IInv'
<1>1. TypeOK'
  BY DEF jobVars, timerVars, runVars, IInv, TypeOK, Here
<1>2. ActiveCountExact'
  BY DEF runVars, IInv, ActiveCountExact
<1>3. JobsOK'
  BY DEF jobVars, timerVars, runVars, IInv, JobsOK, JobOK, HandlersOf
<1> QED BY <1>1, <1>2, <1>3 DEF IInv

LEMMA DropOK == ASSUME IInv, Obliterate \/ Close PROVE IInv'
<1>1. /\ queue' \in {"none", "closed"} /\ loop' = FALSE
      /\ jobs' = << >> /\ delayTimers' = delayTimers \ Here
      /\ orphans' = orphans \cup running /\ running' = {}
      /\ processor' = FALSE /\ concurrency' = 1 /\ activeJobs' = 0
      /\ UNCHANGED <<added, retried, jobVars, retryTimers>>
  BY DEF Obliterate, Close, Drop
<1>2. delayTimers' = {} /\ jobs' \in Seq(added)
  BY <1>1 DEF IInv, TypeOK
<1>3. TypeOK'
  <2>1. /\ added' \subseteq Jobs /\ retried' \subseteq added' /\ jobs' \in Seq(added')
        /\ delayTimers' \subseteq Delayed \cap Here'
        /\ running' \subseteq added' \X Calls /\ orphans' \subseteq added' \X Calls
    BY <1>1, <1>2 DEF IInv, TypeOK
  <2>2. /\ processedOn' \in [Jobs -> BOOLEAN] /\ finishedOn' \in [Jobs -> BOOLEAN]
        /\ failedReason' \in [Jobs -> Reasons]
        /\ attemptsMade' \in [Jobs -> Nat] /\ retryTimers' \in [Jobs -> Nat]
    BY <1>1 DEF jobVars, IInv, TypeOK
  <2>3. queue' \in {"none", "running", "paused", "closed"}
    BY <1>1
  <2>4. processor' \in BOOLEAN /\ loop' \in BOOLEAN
    BY <1>1
  <2>5. concurrency' \in Nat \ {0} /\ activeJobs' \in Nat
    BY <1>1
  <2> QED BY <2>1, <2>2, <2>3, <2>4, <2>5 DEF TypeOK
<1>4. ActiveCountExact'
  BY <1>1, FS_EmptySet DEF ActiveCountExact
<1>5. JobsOK'
  BY <1>1, <1>2 DEF jobVars, IInv, JobsOK, JobOK, HandlersOf
<1> QED BY <1>3, <1>4, <1>5 DEF IInv

LEMMA NextOK == IInv /\ [Next]_vars => IInv'
<1> SUFFICES ASSUME IInv, [Next]_vars PROVE IInv'
  OBVIOUS
<1>1. ASSUME NEW j \in Jobs, AddJob(j) PROVE IInv'
  BY <1>1, AddJobOK
<1>2. ASSUME NEW j \in Jobs, DelayPasses(j) PROVE IInv'
  BY <1>2, DelayPassesOK
<1>3. ASSUME NEW j \in Jobs, RetryFires(j) PROVE IInv'
  <2>1. /\ Again(j) /\ retried' = retried /\ retryTimers[j] > 0
        /\ retryTimers' = [retryTimers EXCEPT ![j] = @ - 1]
    BY <1>3 DEF RetryFires
  <2> QED BY <2>1, AgainOK
<1>4. ASSUME NEW j \in Jobs, RetryJob(j) PROVE IInv'
  <2>1. Again(j) /\ j \in Here /\ retried' = retried \cup {j} /\ retryTimers' = retryTimers
    BY <1>4 DEF RetryJob
  <2> QED BY <2>1, AgainOK
<1>5. ASSUME NEW j \in Jobs, RemoveJob(j) PROVE IInv'
  BY <1>5, RemoveJobOK
<1>6. ASSUME NEW h \in running \cup orphans, Returns(h) \/ Throws(h) PROVE IInv'
  BY <1>6, LeavesOK
<1>7. ASSUME NEW n \in Limits, Process(n) PROVE IInv'
  <2>1. n \in Nat \ {0}
    BY QueueAssumption
  <2>2. queue' \in {"none", "running", "paused", "closed"}
    BY <1>7 DEF Process, EnsureQueue, IInv, TypeOK
  <2>3. processor' = TRUE /\ loop' = TRUE /\ concurrency' = n
    BY <1>7 DEF Process
  <2> QED BY <1>7, <2>1, <2>2, <2>3, ControlOK DEF Process
<1>8. CASE PauseQueue
  BY <1>8, ControlOK DEF PauseQueue, IInv, TypeOK
<1>9. CASE ResumeQueue
  BY <1>9, ControlOK DEF ResumeQueue, IInv, TypeOK
<1>10. CASE Obliterate \/ Close
  BY <1>10, DropOK
<1>11. CASE Tick
  BY <1>11, TickOK
<1>12. CASE UNCHANGED vars
  <2>1. UNCHANGED <<added, retried, jobs, jobVars, timerVars, runVars, orphans, queueVars>>
    BY <1>12 DEF vars
  <2> QED BY <2>1, ControlOK DEF queueVars, IInv, TypeOK
<1> QED BY <1>1, <1>2, <1>3, <1>4, <1>5, <1>6, <1>7, <1>8, <1>9, <1>10, <1>11, <1>12 DEF Next

LEMMA Invariance == Spec => []IInv
BY InitOK, NextOK, PTL DEF Spec

-----------------------------------------------------------------------------
\* Every variable keeps its type.
THEOREM TypeCorrect == Spec => []TypeOK
BY Invariance, PTL DEF IInv

\* activeJobs is the number of handlers at work for the queue, for every set of
\* jobs and every way of removing, retrying and dropping them.
THEOREM ActiveCountHolds == Spec => []ActiveCountExact
BY Invariance, PTL DEF IInv

\* Timers, the delay and the interval never start a job that is running.
THEOREM OnceHolds == Spec => []OnceAtATime
<1>1. IInv => OnceAtATime
  <2> SUFFICES ASSUME IInv, NEW j \in Jobs \ retried PROVE Cardinality(HandlersOf(j)) <= 1
    BY DEF OnceAtATime
  <2>1. \A g, h \in HandlersOf(j) : g = h
    BY DEF IInv, JobsOK, JobOK
  <2>2. CASE HandlersOf(j) = {}
    <3>1. Cardinality(HandlersOf(j)) = 0
      BY <2>2, FS_EmptySet
    <3> QED BY <3>1
  <2>3. CASE HandlersOf(j) # {}
    <3>1. PICK h : HandlersOf(j) = {h}
      BY <2>1, <2>3
    <3>2. Cardinality(HandlersOf(j)) = 1
      BY <3>1, FS_Singleton
    <3> QED BY <3>2
  <2> QED BY <2>2, <2>3
<1> QED BY <1>1, Invariance, PTL

\* A job that fails is tried no more often than its options say.
THEOREM AttemptsHold == Spec => []AttemptsKept
<1>1. IInv => AttemptsKept
  <2> SUFFICES ASSUME IInv, NEW j \in Jobs \ retried
               PROVE  attemptsMade[j] + Cardinality(HandlersOf(j)) + retryTimers[j] <= MaxAttempts
    BY DEF AttemptsKept
  <2>0. attemptsMade[j] \in Nat /\ retryTimers[j] \in Nat /\ finishedOn[j] \in BOOLEAN
    BY DEF IInv, TypeOK
  <2>1. JobOK(j)
    BY DEF IInv, JobsOK
  <2>2. CASE HandlersOf(j) = {}
    <3>1. Cardinality(HandlersOf(j)) = 0
      BY <2>2, FS_EmptySet
    <3>2. CASE finishedOn[j]
      BY <2>0, <2>1, <3>1, <3>2, QueueAssumption DEF JobOK
    <3>3. CASE ~finishedOn[j]
      BY <2>0, <2>1, <3>1, <3>3, QueueAssumption DEF JobOK
    <3> QED BY <3>2, <3>3
  <2>3. CASE HandlersOf(j) # {}
    <3>1. PICK h : HandlersOf(j) = {h}
      BY <2>1, <2>3 DEF JobOK
    <3>2. Cardinality(HandlersOf(j)) = 1
      BY <3>1, FS_Singleton
    <3>3. attemptsMade[j] + 1 <= MaxAttempts /\ retryTimers[j] = 0
      BY <2>1, <2>3 DEF JobOK
    <3> QED BY <2>0, <3>2, <3>3, QueueAssumption
  <2> QED BY <2>2, <2>3
<1> QED BY <1>1, Invariance, PTL

-----------------------------------------------------------------------------
\* The elements of a sequence that have fewer than n of T before them are at
\* most n of them: all but the last are before it.
LEMMA FirstFew ==
  ASSUME NEW S, NEW s \in Seq(S), NEW T, IsFiniteSet(T), NEW n \in Nat,
         T \subseteq {s[i] : i \in DOMAIN s},
         NEW F, F \subseteq T,
         \A j \in F : Cardinality({i \in T : \E a, b \in DOMAIN s : a < b /\ s[a] = i /\ s[b] = j}) < n
  PROVE  IsFiniteSet(F) /\ Cardinality(F) <= n
<1> DEFINE Before(i, j) == \E a, b \in DOMAIN s : a < b /\ s[a] = i /\ s[b] = j
           P == {Len(s) - i : i \in {k \in DOMAIN s : s[k] \in F}}
<1>1. IsFiniteSet(F)
  BY FS_Subset
<1>2. CASE F = {}
  BY <1>2, FS_EmptySet
<1>3. CASE F # {}
  <2>1. P # {} /\ P \subseteq Nat
    BY <1>3
  <2>2. PICK m \in P : \A y \in P : ~(<<y, m>> \in OpToRel(<, Nat))
    BY <2>1, NatLessThanWellFounded, WFMin
  <2>3. PICK k \in DOMAIN s : s[k] \in F /\ m = Len(s) - k
    OBVIOUS
  <2>4. ASSUME NEW a \in DOMAIN s, s[a] \in F PROVE a <= k
    <3>1. Len(s) - a \in P /\ Len(s) - a \in Nat /\ m \in Nat
      BY <2>1, <2>4
    <3>2. ~(Len(s) - a < m)
      BY <2>2, <3>1 DEF OpToRel
    <3> QED BY <2>3, <3>2
  <2>5. F \ {s[k]} \subseteq {i \in T : Before(i, s[k])}
    <3> SUFFICES ASSUME NEW f \in F, f # s[k] PROVE Before(f, s[k])
      OBVIOUS
    <3>1. PICK a \in DOMAIN s : s[a] = f
      OBVIOUS
    <3>2. a < k
      BY <2>4, <3>1
    <3> QED BY <3>1, <3>2
  <2> DEFINE B == {i \in T : Before(i, s[k])}
  <2>6. IsFiniteSet(B) /\ Cardinality(B) \in Nat /\ Cardinality(B) < n
    <3>1. IsFiniteSet(B)
      BY FS_Subset
    <3>2. Cardinality(B) < n
      BY <2>3
    <3> QED BY <3>1, <3>2, FS_CardinalityType
  <2> HIDE DEF B
  <2>7. Cardinality(F \ {s[k]}) <= Cardinality(B)
    BY <2>5, <2>6, FS_Subset DEF B
  <2>8. Cardinality(F \ {s[k]}) = Cardinality(F) - 1 /\ Cardinality(F) \in Nat
    BY <1>1, <2>3, FS_RemoveElement, FS_CardinalityType
  <2> QED BY <1>1, <2>6, <2>7, <2>8
<1> QED BY <1>1, <1>2, <1>3

\* The step that starts the jobs of S while there is room for them.
LEMMA StartWithinLimit ==
  ASSUME IInv, NEW S \in SUBSET Jobs, NEW new \in [Jobs -> BOOLEAN], Start(S, new),
         S # {} => queue' = "running" /\ activeJobs + Cardinality(S) <= concurrency'
  PROVE  running' \ running # {} => queue' = "running" /\ Cardinality(running') <= concurrency'
<1>1. /\ S = {} => running' = running
      /\ activeJobs' = Cardinality(running') /\ activeJobs' = activeJobs + Cardinality(S)
  BY Starting DEF IInv
<1> QED BY <1>1

\* Handlers are started only by a running queue and within its concurrency.
THEOREM LimitHolds == Spec => StartsWithinLimit
<1> DEFINE Limit == running' \ running # {} =>
                      queue' = "running" /\ Cardinality(running') <= concurrency'
<1>1. ASSUME IInv, [Next]_vars PROVE Limit \/ UNCHANGED vars
  <2> USE <1>1
  <2>a. ASSUME NEW S \in SUBSET Jobs, Open, Cardinality(S) <= 1, queue' = "running",
               concurrency' = concurrency
        PROVE  activeJobs + Cardinality(S) <= concurrency'
    <3>1. IsFiniteSet(S) /\ Cardinality(S) \in Nat
      BY QueueAssumption, FS_Subset, FS_CardinalityType
    <3> QED BY <2>a, <3>1 DEF Open, IInv, TypeOK
  <2>b. ASSUME NEW j \in Jobs, NEW S \in SUBSET {j} PROVE Cardinality(S) <= 1
    <3>1. Cardinality({}) = 0 /\ Cardinality({j}) = 1
      BY FS_EmptySet, FS_Singleton
    <3>2. S = {} \/ S = {j}
      OBVIOUS
    <3> QED BY <3>1, <3>2
  <2>1. ASSUME NEW j \in Jobs, AddJob(j) PROVE Limit
    <3>1. CASE j \in Delayed
      BY <2>1, <3>1 DEF AddJob, runVars
    <3>2. CASE j \notin Delayed
      <4>1. PICK S \in SUBSET {j} : Start(S, processedOn) /\ (S # {} => Open)
        BY <2>1, <3>2 DEF AddJob
      <4>2. S # {} => queue' = "running" /\ concurrency' = concurrency
        BY <2>1, <4>1 DEF AddJob, EnsureQueue, Open
      <4>3. S # {} => activeJobs + Cardinality(S) <= concurrency'
        BY <2>a, <2>b, <4>1, <4>2
      <4>4. S \in SUBSET Jobs /\ processedOn \in [Jobs -> BOOLEAN]
        BY DEF IInv, TypeOK
      <4> QED BY <4>1, <4>2, <4>3, <4>4, StartWithinLimit
    <3> QED BY <3>1, <3>2
  <2>2. ASSUME NEW j \in Jobs, NEW new \in [Jobs -> BOOLEAN], ProcessJob(j, new), UNCHANGED queueVars
        PROVE  Limit
    <3>1. PICK S \in SUBSET {j} : (S # {} => Open) /\ Start(S, new)
      BY <2>2, Processing
    <3>2. S # {} => queue' = "running" /\ concurrency' = concurrency
      BY <2>2, <3>1 DEF queueVars, Open
    <3>3. S # {} => activeJobs + Cardinality(S) <= concurrency'
      BY <2>a, <2>b, <3>1, <3>2
    <3> QED BY <3>1, <3>2, <3>3, StartWithinLimit
  <2>3. ASSUME NEW j \in Jobs, DelayPasses(j) PROVE Limit
    BY <2>2, <2>3 DEF DelayPasses, IInv, TypeOK
  <2>4. ASSUME NEW j \in Jobs, RetryFires(j) \/ RetryJob(j) PROVE Limit
    <3>1. Again(j)
      BY <2>4 DEF RetryFires, RetryJob
    <3> QED BY <2>2, <3>1 DEF Again, IInv, TypeOK
  <2>5. CASE Tick
    <3> DEFINE ready == {j \in Waiting :
                           Cardinality({i \in Waiting : \E m, n \in DOMAIN jobs :
                              m < n /\ jobs[m] = i /\ jobs[n] = j}) < concurrency - activeJobs}
    <3>1. Open /\ Start(ready, processedOn) /\ UNCHANGED queueVars
      BY <2>5 DEF Tick
    <3>2. concurrency - activeJobs \in Nat /\ concurrency \in Nat /\ activeJobs \in Nat
      BY <3>1 DEF Open, IInv, TypeOK
    <3>3. IsFiniteSet(Waiting) /\ Waiting \subseteq {jobs[i] : i \in DOMAIN jobs} /\ Waiting \subseteq Jobs
      <4>1. Waiting \subseteq Here /\ Waiting \subseteq Jobs
        BY AddedHere DEF Waiting, IInv
      <4> QED BY <4>1, QueueAssumption, FS_Subset DEF Here
    <3>4. jobs \in Seq(added)
      BY DEF IInv, TypeOK
    <3>5. /\ ready \subseteq Waiting
          /\ \A j \in ready : Cardinality({i \in Waiting : \E m, n \in DOMAIN jobs :
                              m < n /\ jobs[m] = i /\ jobs[n] = j}) < concurrency - activeJobs
      OBVIOUS
    <3> HIDE DEF ready
    <3>6. IsFiniteSet(ready) /\ Cardinality(ready) <= concurrency - activeJobs
      BY <3>2, <3>3, <3>4, <3>5, FirstFew
    <3>7. Cardinality(ready) \in Nat
      BY <3>6, FS_CardinalityType
    <3>8. activeJobs + Cardinality(ready) <= concurrency' /\ queue' = "running"
      BY <3>1, <3>2, <3>6, <3>7 DEF queueVars, Open
    <3>9. ready \in SUBSET Jobs /\ processedOn \in [Jobs -> BOOLEAN]
      BY <3>3, <3>5 DEF IInv, TypeOK
    <3> QED BY <3>1, <3>8, <3>9, StartWithinLimit
  <2>6. ASSUME NEW h \in running \cup orphans, Returns(h) \/ Throws(h) PROVE Limit
    BY <2>6 DEF Returns, Throws, Leave
  <2>7. ASSUME NEW j \in Jobs, RemoveJob(j) PROVE Limit
    BY <2>7 DEF RemoveJob, runVars
  <2>8. ASSUME NEW n \in Limits, Process(n) PROVE Limit
    BY <2>8 DEF Process, runVars
  <2>9. CASE PauseQueue \/ ResumeQueue
    BY <2>9 DEF PauseQueue, ResumeQueue, runVars
  <2>10. CASE Obliterate \/ Close
    BY <2>10 DEF Obliterate, Close, Drop
  <2> QED BY <2>1, <2>3, <2>4, <2>5, <2>6, <2>7, <2>8, <2>9, <2>10 DEF Next
<1>2. ASSUME IInv, [Next]_vars PROVE [Limit]_vars
  BY <1>1, <1>2
<1> QED BY <1>2, Invariance, PTL DEF Spec, StartsWithinLimit
-----------------------------------------------------------------------------
(* The life of a job                                                        *)

HasFailed(j) == failedReason[j] # "none"

\* What getJobStatus() goes by, of a job its caller has not retried: whoever is
\* called active has a handler, and a retry timer is for a job that has failed.
TellsTruth(j) ==
    /\ HasFailed(j) => finishedOn[j]
    /\ processedOn[j] /\ ~finishedOn[j] => HandlersOf(j) # {}
    /\ retryTimers[j] # 0 => HasFailed(j)
    /\ j \notin added => ~processedOn[j]

StatusIsTrue == \A j \in Jobs \ retried : TellsTruth(j)

Reported(j) == IF j \in retried THEN "retried"
               ELSE IF j \notin added THEN "new" ELSE StatusMeant(j)

\* The four ways a step may treat a job.
Untouched(j) ==
    /\ processedOn'[j] = processedOn[j] /\ finishedOn'[j] = finishedOn[j]
    /\ failedReason'[j] = failedReason[j] /\ attemptsMade'[j] = attemptsMade[j]
    /\ retryTimers'[j] = retryTimers[j] /\ HandlersOf(j)' = HandlersOf(j)
Fresh(j) ==
    /\ ~finishedOn'[j] /\ failedReason'[j] = "none"
    /\ attemptsMade'[j] = attemptsMade[j] /\ retryTimers'[j] = 0
Started(j) ==
    /\ finishedOn[j] => HasFailed(j)
    /\ Fresh(j) /\ processedOn'[j] /\ j \in added'
    /\ HandlersOf(j) = {} /\ \E h : HandlersOf(j)' = {h}
SetBack(j) ==
    /\ finishedOn[j] /\ HasFailed(j)
    /\ Fresh(j) /\ ~processedOn'[j]
    /\ HandlersOf(j) = {} /\ HandlersOf(j)' = {}
Ended(j) ==
    /\ finishedOn'[j] /\ processedOn'[j] = processedOn[j]
    /\ \/ /\ failedReason'[j] = failedReason[j] /\ attemptsMade'[j] = attemptsMade[j]
          /\ retryTimers'[j] = retryTimers[j]
       \/ failedReason'[j] # "none" /\ attemptsMade'[j] = attemptsMade[j] + 1
    /\ (\E h : HandlersOf(j) = {h}) /\ HandlersOf(j)' = {}

\* The steps of the abstract specification, by what they are mapped to.
LEMMA AbstractSteps ==
  ASSUME NEW j \in Jobs
  PROVE  LET s == Reported(j)  t == Reported(j)'
             m == attemptsMade[j]  n == attemptsMade'[j]
             h == Cardinality(HandlersOf(j))  g == Cardinality(HandlersOf(j)')
         IN  /\ Lifecycle!Stays(j) <=> t = s /\ n = m /\ g = h
             /\ Lifecycle!TakenOver(j) <=> t = "retried"
             /\ Lifecycle!Add(j) <=> s = "new" /\ t \in {"waiting", "delayed"} /\ n = m /\ g = h
             /\ Lifecycle!Begin(j) <=>
                  /\ s \in {"new", "failed", "waiting", "delayed"} /\ t = "active"
                  /\ m < MaxAttempts /\ n = m /\ g = h + 1
             /\ Lifecycle!Complete(j) <=>
                  s = "active" /\ t = "completed" /\ n = m /\ g = h - 1
             /\ Lifecycle!Fail(j) <=>
                  s = "active" /\ t = "failed" /\ n = m + 1 /\ g = h - 1
             /\ Lifecycle!Requeue(j) <=>
                  /\ s = "failed" /\ t \in {"waiting", "delayed"}
                  /\ m < MaxAttempts /\ n = m /\ g = h
BY DEF Reported, Lifecycle!Stays, Lifecycle!TakenOver, Lifecycle!Add, Lifecycle!Begin,
   Lifecycle!Complete, Lifecycle!Fail, Lifecycle!Requeue, Lifecycle!Goes, Lifecycle!Pending

Treated(j) == Untouched(j) \/ Started(j) \/ SetBack(j) \/ Ended(j)

AbstractStep(j) ==
    \/ Lifecycle!Add(j) \/ Lifecycle!Begin(j) \/ Lifecycle!Complete(j) \/ Lifecycle!Fail(j)
    \/ Lifecycle!Requeue(j) \/ Lifecycle!TakenOver(j) \/ Lifecycle!Stays(j)

\* Each of the four is a step of the abstract specification, and keeps the status
\* true.
LEMMA OneJob ==
  ASSUME IInv, IInv', StatusIsTrue, NEW j \in Jobs, j \notin retried, j \notin retried',
         added \subseteq added', Treated(j)
  PROVE  TellsTruth(j)' /\ AbstractStep(j)
<1> USE DEF Reported, HasFailed
<1>1. JobOK(j) /\ JobOK(j)' /\ TellsTruth(j)
  BY DEF IInv, JobsOK, StatusIsTrue
<1>2. /\ attemptsMade[j] \in Nat /\ attemptsMade'[j] \in Nat /\ MaxAttempts \in Nat
      /\ {finishedOn[j], processedOn[j]} \subseteq BOOLEAN /\ failedReason[j] \in Reasons
      /\ {finishedOn'[j], processedOn'[j]} \subseteq BOOLEAN /\ failedReason'[j] \in Reasons
  BY QueueAssumption DEF IInv, TypeOK
<1>3. /\ HasFailed(j) => StatusMeant(j) = "failed"
      /\ ~HasFailed(j) /\ ~finishedOn[j] /\ processedOn[j] => StatusMeant(j) = "active"
      /\ ~HasFailed(j) /\ ~finishedOn[j] /\ ~processedOn[j] =>
           StatusMeant(j) \in {"waiting", "delayed"}
  BY <1>2, StatusBy DEF StatusMeant, Reasons
<1>4. /\ HasFailed(j)' => StatusMeant(j)' = "failed"
      /\ ~HasFailed(j)' /\ finishedOn'[j] => StatusMeant(j)' = "completed"
      /\ ~HasFailed(j)' /\ ~finishedOn'[j] /\ processedOn'[j] => StatusMeant(j)' = "active"
      /\ ~HasFailed(j)' /\ ~finishedOn'[j] /\ ~processedOn'[j] =>
           StatusMeant(j)' \in {"waiting", "delayed"}
  BY <1>2 DEF StatusMeant, StatusOf, HasFailed, Reasons
<1>5. CASE Untouched(j)
  <2>1. TellsTruth(j)'
    BY <1>1, <1>5 DEF Untouched, TellsTruth
  <2>2. CASE j \notin added /\ j \in added'
    BY <1>1, <1>3, <1>4, <1>5, <2>2, AbstractSteps DEF Untouched, TellsTruth, JobOK, AbstractStep
  <2>3. CASE j \in added <=> j \in added'
    <3>1. StatusMeant(j)' = StatusMeant(j)
      BY <1>5 DEF Untouched, StatusMeant, StatusOf
    <3> QED BY <1>5, <2>1, <2>3, <3>1, AbstractSteps DEF Untouched, AbstractStep
  <2> QED BY <2>1, <2>2, <2>3
<1>6. CASE Started(j)
  <2>1. TellsTruth(j)'
    BY <1>6 DEF Started, Fresh, TellsTruth
  <2>2. Cardinality(HandlersOf(j)) = 0 /\ Cardinality(HandlersOf(j)') = 1
    BY <1>6, FS_EmptySet, FS_Singleton DEF Started
  <2>3. attemptsMade[j] < MaxAttempts /\ attemptsMade'[j] = attemptsMade[j]
    BY <1>1, <1>2, <1>6 DEF Started, Fresh, JobOK
  <2>4. Reported(j) \in {"new", "failed", "waiting", "delayed"} /\ Reported(j)' = "active"
    BY <1>1, <1>3, <1>4, <1>6 DEF Started, Fresh, TellsTruth
  <2> QED BY <2>1, <2>2, <2>3, <2>4, AbstractSteps DEF AbstractStep
<1>7. CASE SetBack(j)
  <2>1. TellsTruth(j)'
    BY <1>7 DEF SetBack, Fresh, TellsTruth
  <2>2. attemptsMade[j] < MaxAttempts /\ attemptsMade'[j] = attemptsMade[j]
    BY <1>1, <1>2, <1>7 DEF SetBack, Fresh, JobOK
  <2>3. Reported(j) = "failed" /\ Reported(j)' \in {"waiting", "delayed"}
    BY <1>1, <1>3, <1>4, <1>7 DEF SetBack, Fresh, JobOK
  <2> QED BY <1>7, <2>1, <2>2, <2>3, AbstractSteps DEF AbstractStep, SetBack
<1>8. CASE Ended(j)
  <2>1. processedOn[j] /\ ~finishedOn[j] /\ ~HasFailed(j) /\ j \in added /\ retryTimers[j] = 0
    BY <1>1, <1>8 DEF Ended, JobOK, TellsTruth
  <2>2. TellsTruth(j)'
    BY <1>8, <2>1 DEF Ended, TellsTruth
  <2>3. Cardinality(HandlersOf(j)) = 1 /\ Cardinality(HandlersOf(j)') = 0
    BY <1>8, FS_EmptySet, FS_Singleton DEF Ended
  <2>4. Reported(j) = "active"
    BY <1>3, <2>1
  <2>5. \/ Reported(j)' = "failed" /\ attemptsMade'[j] = attemptsMade[j] + 1
        \/ Reported(j)' = "completed" /\ attemptsMade'[j] = attemptsMade[j]
    BY <1>4, <1>8, <2>1 DEF Ended
  <2> QED BY <2>2, <2>3, <2>4, <2>5, AbstractSteps DEF AbstractStep
<1> QED BY <1>5, <1>6, <1>7, <1>8 DEF Treated

\* What starting the jobs of S does to one job.
LEMMA StartedOrNot ==
  ASSUME NEW S \in SUBSET Jobs, NEW new \in [Jobs -> BOOLEAN], Start(S, new),
         orphans' = orphans, NEW j \in Jobs
  PROVE  /\ processedOn'[j] <=> j \in S \/ new[j]
         /\ processedOn'[j] \in BOOLEAN
         /\ j \notin S => HandlersOf(j)' = HandlersOf(j)
         /\ j \in S /\ HandlersOf(j) = {} => \E h : HandlersOf(j)' = {h}
<1>1. PICK h \in [S -> Calls] : running' = running \cup {<<k, h[k]>> : k \in S}
  BY DEF Start
<1>2. (processedOn'[j] <=> j \in S \/ new[j]) /\ processedOn'[j] \in BOOLEAN
  BY DEF Start
<1>3. j \notin S => HandlersOf(j)' = HandlersOf(j)
  BY <1>1 DEF HandlersOf
<1>4. j \in S => HandlersOf(j)' = HandlersOf(j) \cup {<<j, h[j]>>}
  BY <1>1 DEF HandlersOf
<1> QED BY <1>2, <1>3, <1>4

\* What a step does to a job its caller has not retried.
LEMMA EachTreated ==
  ASSUME IInv, StatusIsTrue, Next, NEW k \in Jobs, k \notin retried'
  PROVE  k \notin retried /\ added \subseteq added' /\ Treated(k)
<1> USE DEF Treated, HasFailed
<1>0. /\ processedOn \in [Jobs -> BOOLEAN] /\ finishedOn \in [Jobs -> BOOLEAN]
      /\ failedReason \in [Jobs -> Reasons] /\ attemptsMade \in [Jobs -> Nat]
      /\ retryTimers \in [Jobs -> Nat]
  BY DEF IInv, TypeOK
<1>a. k \notin retried => JobOK(k) /\ TellsTruth(k)
  BY DEF IInv, JobsOK, StatusIsTrue
<1>1. ASSUME NEW j \in Jobs, AddJob(j) PROVE k \notin retried /\ added \subseteq added' /\ Treated(k)
  <2>1. /\ added' = added \cup {j} /\ j \notin added
        /\ UNCHANGED <<retried, finishedOn, failedReason, attemptsMade, retryTimers, orphans>>
    BY <1>1 DEF AddJob
  <2>2. CASE j \in Delayed
    BY <1>1, <2>1, <2>2 DEF AddJob, runVars, Untouched, HandlersOf
  <2>3. CASE j \notin Delayed
    <3>1. PICK S \in SUBSET {j} : S \subseteq Jobs /\ Start(S, processedOn)
      BY <1>1, <2>3 DEF AddJob
    <3>2. /\ processedOn'[k] <=> k \in S \/ processedOn[k]
          /\ processedOn'[k] \in BOOLEAN
          /\ k \notin S => HandlersOf(k)' = HandlersOf(k)
          /\ k \in S /\ HandlersOf(k) = {} => \E h : HandlersOf(k)' = {h}
      BY <1>0, <2>1, <3>1, StartedOrNot
    <3>3. CASE k \in S
      <4>1. ~finishedOn[k] /\ ~HasFailed(k) /\ retryTimers[k] = 0 /\ HandlersOf(k) = {}
        BY <1>a, <2>1, <3>3 DEF JobOK, TellsTruth
      <4> QED BY <2>1, <3>2, <3>3, <4>1 DEF Started, Fresh
    <3>4. CASE k \notin S
      BY <1>0, <2>1, <3>2, <3>4 DEF Untouched
    <3> QED BY <3>3, <3>4
  <2> QED BY <2>2, <2>3
<1>2. ASSUME NEW j \in Jobs, DelayPasses(j) PROVE k \notin retried /\ added \subseteq added' /\ Treated(k)
  <2>1. /\ j \in delayTimers
        /\ UNCHANGED <<added, retried, finishedOn, failedReason, attemptsMade, retryTimers, orphans>>
    BY <1>2 DEF DelayPasses
  <2>a. PICK S \in SUBSET {j} : S \subseteq Here /\ Start(S, processedOn)
    BY <1>0, <1>2, Processing DEF DelayPasses
  <2>2. S \subseteq Jobs /\ S \subseteq Here /\ Start(S, processedOn)
    BY <2>a
  <2>3. /\ processedOn'[k] <=> k \in S \/ processedOn[k]
        /\ processedOn'[k] \in BOOLEAN
        /\ k \notin S => HandlersOf(k)' = HandlersOf(k)
        /\ k \in S /\ HandlersOf(k) = {} => \E h : HandlersOf(k)' = {h}
    BY <1>0, <2>1, <2>2, StartedOrNot
  <2>4. CASE k \in S
    <3>1. ~finishedOn[k] /\ ~HasFailed(k) /\ retryTimers[k] = 0 /\ HandlersOf(k) = {}
      BY <1>a, <2>1, <2>4 DEF JobOK, TellsTruth
    <3>2. k \in added
      BY <2>2, <2>4, AddedHere DEF IInv
    <3> QED BY <2>1, <2>3, <2>4, <3>1, <3>2 DEF Started, Fresh
  <2>5. CASE k \notin S
    BY <1>0, <2>1, <2>3, <2>5 DEF Untouched
  <2> QED BY <2>4, <2>5
<1>3. CASE Tick
  <2>1. PICK S \in SUBSET Waiting : Start(S, processedOn)
    BY <1>3 DEF Tick
  <2>2. UNCHANGED <<added, retried, finishedOn, failedReason, attemptsMade, retryTimers, orphans>>
    BY <1>3 DEF Tick, timerVars
  <2>3. Waiting \subseteq added /\ Waiting \subseteq Jobs
    BY AddedHere DEF Waiting, IInv
  <2>4. /\ processedOn'[k] <=> k \in S \/ processedOn[k]
        /\ processedOn'[k] \in BOOLEAN
        /\ k \notin S => HandlersOf(k)' = HandlersOf(k)
        /\ k \in S /\ HandlersOf(k) = {} => \E h : HandlersOf(k)' = {h}
    BY <1>0, <2>1, <2>2, <2>3, StartedOrNot
  <2>5. CASE k \in S
    <3>0. k \notin retried
      BY <2>2
    <3>1. ~finishedOn[k] /\ ~HasFailed(k) /\ ~processedOn[k] /\ k \in added
      <4>1. StatusOf(k) = "waiting" /\ k \in added
        BY <2>1, <2>3, <2>5 DEF Waiting
      <4>2. ~finishedOn[k] /\ ~processedOn[k]
        BY <1>0, <4>1, StatusBy
      <4> QED BY <1>a, <3>0, <4>1, <4>2 DEF TellsTruth
    <3>2. retryTimers[k] = 0 /\ HandlersOf(k) = {}
      BY <1>a, <2>2, <3>1 DEF JobOK
    <3> QED BY <2>2, <2>4, <2>5, <3>1, <3>2 DEF Started, Fresh
  <2>6. CASE k \notin S
    BY <1>0, <2>2, <2>4, <2>6 DEF Untouched
  <2> QED BY <2>2, <2>5, <2>6
<1>4. ASSUME NEW j \in Jobs, RetryFires(j) \/ RetryJob(j)
      PROVE  k \notin retried /\ added \subseteq added' /\ Treated(k)
  <2> DEFINE new == [processedOn EXCEPT ![j] = FALSE]
  <2>1. /\ retried \subseteq retried' /\ (k = j => RetryFires(j))
        /\ RetryFires(j) => retryTimers[j] > 0 /\ retryTimers' = [retryTimers EXCEPT ![j] = @ - 1]
        /\ RetryJob(j) => retryTimers' = retryTimers
        /\ Again(j)
    BY <1>4 DEF RetryFires, RetryJob
  <2>2. /\ finishedOn' = [finishedOn EXCEPT ![j] = FALSE]
        /\ failedReason' = [failedReason EXCEPT ![j] = "none"]
        /\ ProcessJob(j, new) /\ UNCHANGED <<added, attemptsMade, orphans>>
    BY <2>1 DEF Again
  <2>3. new \in [Jobs -> BOOLEAN] /\ ~new[j] /\ (k # j => new[k] = processedOn[k])
    BY <1>0
  <2> HIDE DEF new
  <2>4. PICK S \in SUBSET {j} : S \subseteq Here /\ Start(S, new)
    BY <2>2, <2>3, Processing
  <2>5. /\ processedOn'[k] <=> k \in S \/ new[k]
        /\ processedOn'[k] \in BOOLEAN
        /\ k \notin S => HandlersOf(k)' = HandlersOf(k)
        /\ k \in S /\ HandlersOf(k) = {} => \E h : HandlersOf(k)' = {h}
    BY <2>2, <2>3, <2>4, StartedOrNot
  <2>6. CASE k = j
    <3>1. finishedOn[k] /\ HasFailed(k) /\ retryTimers[k] = 1 /\ HandlersOf(k) = {}
      BY <1>0, <1>a, <2>1, <2>6 DEF JobOK, TellsTruth
    <3>2. Fresh(k)
      BY <1>0, <2>1, <2>2, <2>6, <3>1 DEF Fresh
    <3>3. k \in S => k \in added'
      BY <2>2, <2>4, AddedHere DEF IInv
    <3> QED BY <2>1, <2>2, <2>3, <2>5, <2>6, <3>1, <3>2, <3>3 DEF Started, SetBack
  <2>7. CASE k # j
    <3>1. finishedOn'[k] = finishedOn[k] /\ failedReason'[k] = failedReason[k]
      BY <1>0, <2>2, <2>7
    <3>2. retryTimers'[k] = retryTimers[k]
      BY <1>0, <1>4, <2>1, <2>7
    <3> QED BY <1>0, <2>1, <2>2, <2>3, <2>4, <2>5, <2>7, <3>1, <3>2 DEF Untouched
  <2> QED BY <2>6, <2>7
<1>5. ASSUME NEW h \in running \cup orphans, Returns(h) \/ Throws(h)
      PROVE  k \notin retried /\ added \subseteq added' /\ Treated(k)
  <2>1. /\ UNCHANGED <<added, retried, processedOn>>
        /\ running' = running \ {h} /\ orphans' = orphans \ {h}
        /\ finishedOn' = [finishedOn EXCEPT ![h[1]] = TRUE]
    BY <1>5 DEF Returns, Throws, Leave
  <2>2. HandlersOf(k)' = HandlersOf(k) \ {h} /\ h \in HandlersOf(h[1])
    BY <2>1 DEF HandlersOf
  <2>3. \/ UNCHANGED <<failedReason, attemptsMade, retryTimers>>
        \/ /\ \E m \in Reasons \ {"none"} : failedReason' = [failedReason EXCEPT ![h[1]] = m]
           /\ attemptsMade' = [attemptsMade EXCEPT ![h[1]] = @ + 1]
           /\ \A j \in Jobs : j # h[1] => retryTimers'[j] = retryTimers[j]
    <3>1. MessagesOf(h[1]) \subseteq Reasons \ {"none"}
      BY DEF MessagesOf, Reasons
    <3> QED BY <1>0, <1>5, <3>1 DEF Returns, Throws, timerVars
  <2>4. CASE k = h[1]
    <3>1. HandlersOf(k) = {h} /\ HandlersOf(k)' = {}
      BY <1>a, <2>1, <2>2, <2>4 DEF JobOK
    <3> QED BY <1>0, <2>1, <2>3, <2>4, <3>1 DEF Ended
  <2>5. CASE k # h[1]
    <3>1. HandlersOf(k)' = HandlersOf(k)
      BY <2>1, <2>5 DEF HandlersOf
    <3> QED BY <1>0, <2>1, <2>3, <2>5, <3>1 DEF Untouched
  <2> QED BY <2>4, <2>5
<1>6. ASSUME NEW j \in Jobs, RemoveJob(j) PROVE k \notin retried /\ added \subseteq added' /\ Treated(k)
  BY <1>6 DEF RemoveJob, jobVars, runVars, Untouched, HandlersOf
<1>7. ASSUME NEW n \in Limits, Process(n) PROVE k \notin retried /\ added \subseteq added' /\ Treated(k)
  BY <1>7 DEF Process, jobVars, timerVars, runVars, Untouched, HandlersOf
<1>8. CASE PauseQueue \/ ResumeQueue
  BY <1>8 DEF PauseQueue, ResumeQueue, jobVars, timerVars, runVars, Untouched, HandlersOf
<1>9. CASE Obliterate \/ Close
  BY <1>9 DEF Obliterate, Close, Drop, jobVars, Untouched, HandlersOf
<1> QED BY <1>1, <1>2, <1>3, <1>4, <1>5, <1>6, <1>7, <1>8, <1>9 DEF Next

LEMMA LifeNext ==
  ASSUME IInv, IInv', StatusIsTrue, [Next]_vars
  PROVE  StatusIsTrue' /\ [Lifecycle!Next]_(Lifecycle!lifecycle)
<1>1. CASE Next
  <2>1. ASSUME NEW k \in Jobs, k \notin retried' PROVE TellsTruth(k)' /\ AbstractStep(k)
    BY <1>1, <2>1, EachTreated, OneJob
  <2>2. ASSUME NEW k \in Jobs, k \in retried' PROVE AbstractStep(k)
    BY <2>2, AbstractSteps DEF AbstractStep, Reported
  <2>3. Lifecycle!Next
    BY <2>1, <2>2 DEF Lifecycle!Next, AbstractStep
  <2> QED BY <2>1, <2>3 DEF StatusIsTrue
<1>2. CASE UNCHANGED vars
  <2>1. StatusIsTrue'
    BY <1>2 DEF vars, jobVars, timerVars, runVars, StatusIsTrue, TellsTruth, HasFailed, HandlersOf
  <2>2. UNCHANGED Lifecycle!lifecycle
    BY <1>2 DEF vars, jobVars, runVars, Lifecycle!lifecycle, StatusMeant, StatusOf, HandlersOf
  <2> QED BY <2>1, <2>2
<1> QED BY <1>1, <1>2

\* The status the queue reports is the truth about a job, for every set of jobs,
\* limits and attempts: each step starts, sets back, ends or leaves alone every
\* job nobody has retried, as the abstract life of a job allows.
THEOREM LifecycleHolds == Spec => FollowsLifecycle
<1>1. Init => StatusIsTrue /\ Lifecycle!Init
  <2> SUFFICES ASSUME Init PROVE StatusIsTrue /\ Lifecycle!Init
    OBVIOUS
  <2>1. \A j \in Jobs : HandlersOf(j) = {} /\ Cardinality(HandlersOf(j)) = 0
    BY FS_EmptySet DEF Init, HandlersOf
  <2> QED BY <2>1 DEF Init, StatusIsTrue, TellsTruth, HasFailed, Lifecycle!Init
<1>2. IInv /\ IInv' /\ StatusIsTrue /\ [Next]_vars =>
        StatusIsTrue' /\ [Lifecycle!Next]_(Lifecycle!lifecycle)
  BY LifeNext
<1> QED BY <1>1, <1>2, Invariance, PTL DEF Spec, FollowsLifecycle, Lifecycle!Spec
=============================================================================
