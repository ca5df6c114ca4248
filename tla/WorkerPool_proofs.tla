------------------------- MODULE WorkerPool_proofs -------------------------
(***************************************************************************)
(* Proofs about the thread pool for every set of tasks, number of threads  *)
(* and limits: its types, that crashes keep its capacity, that a pool that *)
(* is closed leaves no promise unsettled, that no task with an entry is    *)
(* forgotten, and that a crash rejects no other worker's task.             *)
(***************************************************************************)
EXTENDS WorkerPool, FiniteSetTheorems, SequenceTheorems, TLAPS

\* The table lists every live thread until shutdown() has returned, and no free
\* one; whatever is still live during shutdown() is awaited.
TableOK ==
    \A w \in Threads :
      /\ thread[w] = "live" => InTable(w) /\ (phase # "up" => w \in awaiting)
      /\ thread[w] = "free" => ~InTable(w)

\* Unsettled promises and entries are the same thing until shutdown(); a failed
\* pool has neither entries nor a queue.
EntriesOK ==
    /\ phase = "up" => pending = activeTasks
    /\ phase # "up" => pending = {}
    /\ poolFailed => activeTasks = {} /\ taskQueue = << >>
    /\ ~poolFailed => restartAttempts <= MaxRestarts

IInv == TypeOK /\ TableOK /\ EntriesOK /\ CapacityKept

Working == {w \in Threads : thread[w] \in {"live", "quit"}}
ThreadStates == {"free", "live", "failed", "ended", "quit"}

-----------------------------------------------------------------------------
\* What the community module's operators on sequences do.
LEMMA Insertion ==
  ASSUME NEW S, NEW s \in Seq(S), NEW i \in 1..Len(s) + 1, NEW x \in S
  PROVE  InsertAt(s, i, x) \in Seq(S)
<1>1. SubSeq(s, 1, i - 1) \in Seq(S) /\ SubSeq(s, i, Len(s)) \in Seq(S)
  BY SubSeqProperties, ElementOfSeq
<1>2. SubSeq(s, 1, i - 1) \o <<x>> \in Seq(S)
  BY <1>1, ConcatProperties
<1> QED BY <1>1, <1>2, ConcatProperties DEF InsertAt

LEMMA Removal ==
  ASSUME NEW S, NEW s \in Seq(S), NEW i \in DOMAIN s,
         \A j, k \in DOMAIN s : s[j] = s[k] => j = k
  PROVE  LET r == RemoveAt(s, i)
         IN  /\ r \in Seq(S)
             /\ \A j, k \in DOMAIN r : r[j] = r[k] => j = k
             /\ \A x : (\E j \in DOMAIN r : r[j] = x)
                         <=> x # s[i] /\ \E j \in DOMAIN s : s[j] = x
<1> DEFINE r == RemoveAt(s, i)  u == SubSeq(s, 1, i - 1)  v == SubSeq(s, i + 1, Len(s))
<1>0. i \in 1..Len(s) /\ Len(s) \in Nat
  OBVIOUS
<1>1. /\ u \in Seq(S) /\ Len(u) = i - 1
      /\ \A j \in 1..i - 1 : u[j] = s[j]
  BY <1>0, SubSeqProperties, ElementOfSeq
<1>2. /\ v \in Seq(S) /\ Len(v) = Len(s) - i
      /\ \A j \in 1..Len(s) - i : v[j] = s[i + j]
  BY <1>0, SubSeqProperties, ElementOfSeq
<1> HIDE DEF u, v
<1>3. /\ u \o v \in Seq(S) /\ Len(u \o v) = Len(s) - 1
      /\ \A j \in 1..Len(s) - 1 : (u \o v)[j] = IF j < i THEN s[j] ELSE s[j + 1]
  BY <1>0, <1>1, <1>2, ConcatProperties
<1>4. r = u \o v
  BY DEF RemoveAt, u, v
<1> HIDE DEF r
<1>5. r \in Seq(S) /\ DOMAIN r = 1..Len(s) - 1
  BY <1>3, <1>4
<1>6. \A j \in 1..Len(s) - 1 : r[j] = IF j < i THEN s[j] ELSE s[j + 1]
  BY <1>3, <1>4
<1>7. \A j, k \in DOMAIN r : r[j] = r[k] => j = k
  BY <1>0, <1>5, <1>6
<1>8. ASSUME NEW j \in DOMAIN r PROVE r[j] # s[i] /\ \E k \in DOMAIN s : s[k] = r[j]
  BY <1>0, <1>5, <1>6
<1>9. ASSUME NEW k \in DOMAIN s, k # i PROVE \E j \in DOMAIN r : r[j] = s[k]
  <2>1. CASE k < i
    BY <1>0, <1>5, <1>6, <2>1
  <2>2. CASE k > i
    <3>1. k - 1 \in 1..Len(s) - 1 /\ ~(k - 1 < i) /\ (k - 1) + 1 = k
      BY <1>0, <2>2
    <3> QED BY <1>5, <1>6, <3>1
  <2> QED BY <1>9, <2>1, <2>2
<1>10. \A x : (\E j \in DOMAIN r : r[j] = x) <=> x # s[i] /\ \E j \in DOMAIN s : s[j] = x
  BY <1>8, <1>9
<1> QED BY <1>5, <1>7, <1>10 DEF r

LEMMA EnqueuePlace ==
  ASSUME TypeOK, NEW t \in Tasks
  PROVE  \E i \in 1..Len(taskQueue) + 1 : Enqueue(t) = InsertAt(taskQueue, i, t)
<1> DEFINE ahead == {i \in DOMAIN taskQueue : Rank(taskQueue[i]) >= Rank(t)}
<1>1. Len(taskQueue) \in Nat /\ DOMAIN taskQueue = 1..Len(taskQueue)
  BY DEF TypeOK
<1>2. IsFiniteSet(1..Len(taskQueue)) /\ Cardinality(1..Len(taskQueue)) = Len(taskQueue)
  <2>1. 1 \in Int /\ Len(taskQueue) \in Int
    BY <1>1
  <2>2. Cardinality(1..Len(taskQueue)) = IF 1 > Len(taskQueue) THEN 0 ELSE Len(taskQueue) - 1 + 1
    BY <2>1, FS_Interval
  <2> QED BY <1>1, <2>1, <2>2, FS_Interval
<1>3. ahead \in SUBSET (1..Len(taskQueue))
  BY <1>1
<1> HIDE DEF ahead
<1>4. IsFiniteSet(ahead) /\ Cardinality(ahead) <= Len(taskQueue)
  BY <1>2, <1>3, FS_Subset
<1>5. Cardinality(ahead) + 1 \in 1..Len(taskQueue) + 1
  BY <1>1, <1>4, FS_CardinalityType
<1> QED BY <1>5 DEF Enqueue, ahead

LEMMA EnqueueType ==
  ASSUME TypeOK, NEW t \in Tasks
  PROVE  Enqueue(t) \in Seq(Tasks)
<1>1. PICK i \in 1..Len(taskQueue) + 1 : Enqueue(t) = InsertAt(taskQueue, i, t)
  BY EnqueuePlace
<1>2. taskQueue \in Seq(Tasks)
  BY DEF TypeOK
<1> QED BY <1>1, <1>2, Insertion

LEMMA ProcessQueueType ==
  ASSUME TypeOK, NEW q \in Seq(Tasks), NEW as, NEW box \in [Threads -> SUBSET Tasks],
         ProcessQueue(q, as, box)
  PROVE  /\ taskQueue' \in Seq(Tasks)
         /\ assigned' \in [Tasks -> Threads \cup {NoThread}]
         /\ inbox' \in [Threads -> SUBSET Tasks]
<1>1. taskQueue' \in Seq(Tasks)
  <2>1. Len(workers) + 1 \in Int /\ Len(q) \in Int
    BY DEF TypeOK
  <2>2. \A i \in Len(workers) + 1..Len(q) : q[i] \in Tasks
    BY ElementOfSeq DEF TypeOK
  <2> QED BY <2>1, <2>2, SubSeqProperties DEF ProcessQueue
<1>2. \A w : Posted(q, w) \subseteq Tasks
  BY DEF Posted
<1>3. inbox' \in [Threads -> SUBSET Tasks]
  BY <1>2 DEF ProcessQueue
<1>4. assigned' \in [Tasks -> Threads \cup {NoThread}]
  BY DEF ProcessQueue, TypeOK
<1> QED BY <1>1, <1>3, <1>4

LEMMA ScheduleRestartType ==
  ASSUME TypeOK, NEW n \in Nat, NEW S, ScheduleRestart(n, S)
  PROVE  /\ taskQueue' \in Seq(Tasks) /\ activeTasks' \subseteq Tasks
         /\ pending' \subseteq Tasks /\ assigned' \in [Tasks -> Threads \cup {NoThread}]
         /\ restartTimers' \in Nat /\ poolFailed' \in BOOLEAN
         /\ poolFailed => restartAttempts' = restartAttempts
         /\ ~poolFailed => restartAttempts' = restartAttempts + 1
BY PoolAssumption, EmptySeq DEF TypeOK, ScheduleRestart, Settle

LEMMA RestartBudget ==
  ASSUME TypeOK, EntriesOK, NEW n \in Nat, NEW S, ScheduleRestart(n, S)
  PROVE  restartAttempts' \in 0..MaxRestarts + 1
BY ScheduleRestartType, PoolAssumption DEF TypeOK, EntriesOK

LEMMA FailureType ==
  ASSUME TypeOK, TableOK, EntriesOK, NEW w \in Threads, thread[w] = "live",
         NEW hasId \in BOOLEAN, HandleWorkerFailure(w, hasId)
  PROVE  /\ workers' \in Seq(Threads)
         /\ \A i, j \in DOMAIN workers' : workers'[i] = workers'[j] => i = j
         /\ \A x : (\E i \in DOMAIN workers' : workers'[i] = x)
                     <=> InTable(x) /\ ~(hasId /\ x = w)
         /\ taskQueue' \in Seq(Tasks) /\ activeTasks' \subseteq Tasks
         /\ pending' \subseteq Tasks /\ assigned' \in [Tasks -> Threads \cup {NoThread}]
         /\ restartTimers' \in Nat /\ poolFailed' \in BOOLEAN
         /\ restartAttempts' \in 0..MaxRestarts + 1
<1>1. PlaceOf(w) \in DOMAIN workers /\ workers[PlaceOf(w)] = w
  BY DEF TableOK, InTable, PlaceOf
<1>2. /\ workers' \in Seq(Threads)
      /\ \A i, j \in DOMAIN workers' : workers'[i] = workers'[j] => i = j
      /\ \A x : (\E i \in DOMAIN workers' : workers'[i] = x)
                  <=> InTable(x) /\ ~(hasId /\ x = w)
  <2>1. CASE hasId
    <3>1. workers' = RemoveAt(workers, PlaceOf(w))
      BY <2>1 DEF HandleWorkerFailure
    <3>2. /\ workers \in Seq(Threads)
          /\ \A i, j \in DOMAIN workers : workers[i] = workers[j] => i = j
      BY DEF TypeOK
    <3>3. LET r == RemoveAt(workers, PlaceOf(w))
          IN  /\ r \in Seq(Threads)
              /\ \A j, k \in DOMAIN r : r[j] = r[k] => j = k
              /\ \A x : (\E j \in DOMAIN r : r[j] = x)
                          <=> x # workers[PlaceOf(w)] /\ \E j \in DOMAIN workers : workers[j] = x
      BY ONLY <1>1, <3>2, Removal, Zenon
    <3> QED BY <1>1, <2>1, <3>1, <3>3 DEF InTable
  <2>2. CASE ~hasId
    BY <2>2 DEF HandleWorkerFailure, TypeOK, InTable
  <2> QED BY <2>1, <2>2
<1>3. CASE phase = "up"
  <2>1. restartTimers \in Nat
    BY DEF TypeOK
  <2> QED BY <1>2, <1>3, <2>1, ScheduleRestartType, RestartBudget
             DEF HandleWorkerFailure
<1>4. CASE phase # "up"
  BY <1>2, <1>4 DEF HandleWorkerFailure, TypeOK, restartVars
<1> QED BY <1>3, <1>4

-----------------------------------------------------------------------------
LEMMA InitOK == Init => IInv
<1> SUFFICES ASSUME Init PROVE IInv
  OBVIOUS
<1>1. TypeOK
  <2>1. << >> \in Seq(Tasks)
    BY EmptySeq
  <2>2. thread \in [Threads -> {"free", "live", "failed", "ended", "quit"}]
    BY DEF Init
  <2>3. assigned \in [Tasks -> Threads \cup {NoThread}] /\ inbox \in [Threads -> SUBSET Tasks]
    BY DEF Init
  <2>4. restartAttempts \in 0..MaxRestarts + 1
    BY PoolAssumption DEF Init
  <2>5. /\ workers \in Seq(Threads)
        /\ \A i, j \in DOMAIN workers : workers[i] = workers[j] => i = j
    BY PoolAssumption DEF Init
  <2> QED BY <2>1, <2>2, <2>3, <2>4, <2>5 DEF Init, TypeOK
<1>2. TableOK
  BY PoolAssumption DEF Init, TableOK, InTable
<1>3. EntriesOK
  BY PoolAssumption DEF Init, EntriesOK
<1>4. CapacityKept
  <2> DEFINE R == {First[i] : i \in 1..Len(First)}
             f == [i \in 1..Len(First) |-> First[i]]
  <2>1. Len(First) \in Nat /\ DOMAIN First = 1..Len(First)
    BY PoolAssumption
  <2>2. f \in Bijection(1..Len(First), R)
    BY <2>1, PoolAssumption DEF Bijection, Injection, Surjection, IsInjective
  <2>3. Cardinality(R) = Cardinality(1..Len(First))
    BY <2>1, <2>2, FS_Interval, FS_Bijection DEF ExistsBijection
  <2>4. Cardinality(1..Len(First)) = IF 1 > Len(First) THEN 0 ELSE Len(First) - 1 + 1
    BY <2>1, FS_Interval
  <2>5. {w \in Threads : thread[w] \in {"live", "quit"}} = R
    BY <2>1, PoolAssumption DEF Init
  <2> HIDE DEF R
  <2>6. Cardinality(R) + 0 = Len(First)
    BY <2>1, <2>3, <2>4
  <2> QED BY <2>5, <2>6 DEF CapacityKept, Init
<1> QED BY <1>1, <1>2, <1>3, <1>4 DEF IInv

LEMMA NextType == TypeOK /\ TableOK /\ EntriesOK /\ [Next]_vars => TypeOK'
<1> SUFFICES ASSUME TypeOK, TableOK, EntriesOK, [Next]_vars PROVE TypeOK'
  OBVIOUS
<1> USE DEF taskVars, restartVars, stopVars
<1>1. ASSUME NEW t \in Tasks, ExecuteTask(t) PROVE TypeOK'
  <2>1. Enqueue(t) \in Seq(Tasks) /\ inbox \in [Threads -> SUBSET Tasks]
    BY EnqueueType DEF TypeOK
  <2>2. ProcessQueue(Enqueue(t), activeTasks', inbox)
    BY <1>1 DEF ExecuteTask
  <2>3. /\ taskQueue' \in Seq(Tasks) /\ inbox' \in [Threads -> SUBSET Tasks]
        /\ assigned' \in [Tasks -> Threads \cup {NoThread}]
    BY <2>1, <2>2, ProcessQueueType
  <2> QED BY <1>1, <2>3 DEF ExecuteTask, TypeOK
<1>2. ASSUME NEW t \in Tasks, TaskTimesOut(t) PROVE TypeOK'
  BY <1>2 DEF TaskTimesOut, TypeOK
<1>3. ASSUME NEW w \in Threads, NEW t \in Tasks, HandleWorkerResult(w, t) PROVE TypeOK'
  <2> DEFINE box == [inbox EXCEPT ![w] = @ \ {t}]
  <2>1. box \in [Threads -> SUBSET Tasks]
    BY DEF TypeOK
  <2>2. CASE t \notin activeTasks
    BY <1>3, <2>1, <2>2, PoolAssumption DEF HandleWorkerResult, TypeOK
  <2>3. CASE t \in activeTasks
    <3>1. ProcessQueue(taskQueue, activeTasks', box)
      BY <1>3, <2>3 DEF HandleWorkerResult
    <3>2. taskQueue \in Seq(Tasks)
      BY DEF TypeOK
    <3> HIDE DEF box
    <3>3. /\ taskQueue' \in Seq(Tasks) /\ inbox' \in [Threads -> SUBSET Tasks]
          /\ assigned' \in [Tasks -> Threads \cup {NoThread}]
      BY <2>1, <3>1, <3>2, ProcessQueueType
    <3> QED BY <1>3, <2>3, <3>3, PoolAssumption DEF HandleWorkerResult, TypeOK
  <2> QED BY <2>2, <2>3
<1>4. ASSUME NEW w \in Threads, WorkerError(w) PROVE TypeOK'
  <2>1. PICK hasId \in BOOLEAN : HandleWorkerFailure(w, hasId)
    BY <1>4 DEF WorkerError
  <2> QED BY <1>4, <2>1, FailureType DEF WorkerError, TypeOK
<1>5. ASSUME NEW w \in Threads, WorkerExit(w) PROVE TypeOK'
  BY <1>5 DEF WorkerExit, TypeOK
<1>6. ASSUME NEW w \in Threads, WorkerDies(w) PROVE TypeOK'
  BY <1>6, FailureType DEF WorkerDies, TypeOK
<1>7. ASSUME NEW w \in Threads, WorkerQuits(w) PROVE TypeOK'
  BY <1>7 DEF WorkerQuits, TypeOK
<1>8. CASE RestartFires
  <2>1. CASE poolFailed \/ phase # "up"
    BY <1>8, <2>1 DEF RestartFires, TypeOK
  <2>2. ASSUME NEW w \in Threads, thread[w] = "free",
               thread' = [thread EXCEPT ![w] = "live"], workers' = Append(workers, w),
               restartTimers' = restartTimers - 1,
               UNCHANGED <<taskVars, restartAttempts, poolFailed, stopVars>>
        PROVE  TypeOK'
    <3>1. workers' \in Seq(Threads) /\ Len(workers') = Len(workers) + 1
      BY <2>2 DEF TypeOK
    <3>2. \A i \in DOMAIN workers : workers[i] # w
      BY <2>2 DEF TableOK, InTable
    <3>3. \A i, j \in DOMAIN workers' : workers'[i] = workers'[j] => i = j
      BY <2>2, <3>1, <3>2 DEF TypeOK
    <3> QED BY <1>8, <2>2, <3>1, <3>3 DEF RestartFires, TypeOK
  <2>3. CASE ScheduleRestart(restartTimers - 1, {}) /\ UNCHANGED <<workers, thread, inbox, stopVars>>
    <3>1. restartTimers - 1 \in Nat
      BY <1>8 DEF RestartFires, TypeOK
    <3> QED BY <2>3, <3>1, ScheduleRestartType, RestartBudget DEF TypeOK
  <2> QED BY <1>8, <2>1, <2>2, <2>3 DEF RestartFires
<1>9. CASE Shutdown
  BY <1>9 DEF Shutdown, TypeOK
<1>10. CASE ShutdownReturns
  BY <1>10, EmptySeq DEF ShutdownReturns, TypeOK
<1>11. CASE UNCHANGED vars
  BY <1>11 DEF vars, TypeOK
<1> QED BY <1>1, <1>2, <1>3, <1>4, <1>5, <1>6, <1>7, <1>8, <1>9, <1>10, <1>11 DEF Next

-----------------------------------------------------------------------------
\* The actions that leave the table and the threads alone.
LEMMA NextTable == TypeOK /\ TableOK /\ EntriesOK /\ [Next]_vars => TableOK'
<1> SUFFICES ASSUME TypeOK, TableOK, EntriesOK, [Next]_vars PROVE TableOK'
  OBVIOUS
<1> USE DEF taskVars, restartVars, stopVars
<1>1. CASE UNCHANGED <<workers, thread, stopVars>>
  BY <1>1 DEF TableOK, InTable
<1>2. ASSUME NEW w \in Threads, WorkerError(w) PROVE TableOK'
  <2>1. PICK hasId \in BOOLEAN : HandleWorkerFailure(w, hasId)
    BY <1>2 DEF WorkerError
  <2>a. thread[w] = "live"
    BY <1>2 DEF WorkerError
  <2>b. \A x : (\E i \in DOMAIN workers' : workers'[i] = x) <=> InTable(x) /\ ~(hasId /\ x = w)
    BY <2>1, <2>a, FailureType
  <2>2. \A x : InTable(x)' <=> InTable(x) /\ ~(hasId /\ x = w)
    BY <2>b DEF InTable
  <2> QED BY <1>2, <2>2 DEF WorkerError, TableOK, TypeOK
<1>3. ASSUME NEW w \in Threads, WorkerExit(w) PROVE TableOK'
  BY <1>3 DEF WorkerExit, TableOK, TypeOK, InTable
<1>4. ASSUME NEW w \in Threads, WorkerDies(w) PROVE TableOK'
  <2>1. \A x : InTable(x)' <=> InTable(x)
    BY <1>4, FailureType DEF WorkerDies, InTable
  <2> QED BY <1>4, <2>1 DEF WorkerDies, TableOK, TypeOK
<1>5. ASSUME NEW w \in Threads, WorkerQuits(w) PROVE TableOK'
  BY <1>5 DEF WorkerQuits, TableOK, TypeOK, InTable
<1>6. CASE RestartFires
  <2>1. CASE UNCHANGED <<workers, thread>>
    BY <1>1, <1>6, <2>1 DEF RestartFires
  <2>2. ASSUME NEW w \in Threads, thread[w] = "free", phase = "up",
               thread' = [thread EXCEPT ![w] = "live"], workers' = Append(workers, w),
               UNCHANGED stopVars
        PROVE  TableOK'
    <3>1. \A x : InTable(x)' <=> InTable(x) \/ x = w
      <4>1. workers \in Seq(Threads)
        BY DEF TypeOK
      <4>2. /\ Len(workers') = Len(workers) + 1 /\ Len(workers) \in Nat
            /\ \A i \in 1..Len(workers) : workers'[i] = workers[i]
            /\ workers'[Len(workers) + 1] = w
        BY <2>2, <4>1
      <4>3. DOMAIN workers = 1..Len(workers) /\ DOMAIN workers' = 1..Len(workers')
        BY <2>2, <4>1
      <4> QED BY <4>2, <4>3 DEF InTable
    <3> QED BY <2>2, <3>1 DEF TableOK, TypeOK
  <2> QED BY <1>6, <2>1, <2>2 DEF RestartFires
<1>7. CASE Shutdown
  BY <1>7 DEF Shutdown, TableOK, InTable
<1>8. CASE ShutdownReturns
  BY <1>8 DEF ShutdownReturns, TableOK, InTable, TypeOK
<1>9. ASSUME NEW t \in Tasks, ExecuteTask(t) \/ TaskTimesOut(t) PROVE TableOK'
  BY <1>1, <1>9 DEF ExecuteTask, TaskTimesOut
<1>10. ASSUME NEW w \in Threads, NEW t \in Tasks, HandleWorkerResult(w, t) PROVE TableOK'
  BY <1>1, <1>10 DEF HandleWorkerResult
<1> QED BY <1>1, <1>2, <1>3, <1>4, <1>5, <1>6, <1>7, <1>8, <1>9, <1>10 DEF Next, vars

LEMMA NextEntries == TypeOK /\ TableOK /\ EntriesOK /\ [Next]_vars => EntriesOK'
<1> SUFFICES ASSUME TypeOK, TableOK, EntriesOK, [Next]_vars PROVE EntriesOK'
  OBVIOUS
<1> USE DEF taskVars, restartVars, stopVars
<1>1. CASE UNCHANGED <<taskQueue, activeTasks, pending, restartAttempts, poolFailed, phase>>
  BY <1>1 DEF EntriesOK
<1>2. ASSUME NEW n \in Nat, NEW S, ScheduleRestart(n, S), phase = "up", UNCHANGED stopVars
      PROVE  EntriesOK'
  <2> DEFINE over == restartAttempts >= MaxRestarts
  <2>1. ~over => restartAttempts + 1 <= MaxRestarts
    BY PoolAssumption DEF TypeOK
  <2>2. CASE poolFailed
    BY <1>2, <2>2 DEF ScheduleRestart, Settle, EntriesOK
  <2>3. CASE ~poolFailed /\ over
    BY <1>2, <2>3 DEF ScheduleRestart, Settle, EntriesOK, TypeOK
  <2>4. CASE ~poolFailed /\ ~over
    <3>1. ~poolFailed' /\ restartAttempts' = restartAttempts + 1
      BY <1>2, <2>4 DEF ScheduleRestart
    <3>2. activeTasks' = activeTasks \ S /\ pending' = pending \ S /\ phase' = "up"
      BY <1>2, <2>4 DEF ScheduleRestart, Settle
    <3> QED BY <1>2, <2>1, <2>4, <3>1, <3>2 DEF EntriesOK
  <2> QED BY <2>2, <2>3, <2>4
<1>3. ASSUME NEW w \in Threads, NEW hasId \in BOOLEAN, HandleWorkerFailure(w, hasId),
             UNCHANGED stopVars
      PROVE  EntriesOK'
  BY <1>1, <1>2, <1>3 DEF HandleWorkerFailure, TypeOK
<1>4. ASSUME NEW t \in Tasks, ExecuteTask(t) PROVE EntriesOK'
  BY <1>4 DEF ExecuteTask, EntriesOK
<1>5. ASSUME NEW t \in Tasks, TaskTimesOut(t) PROVE EntriesOK'
  BY <1>5 DEF TaskTimesOut, EntriesOK
<1>6. ASSUME NEW w \in Threads, NEW t \in Tasks, HandleWorkerResult(w, t) PROVE EntriesOK'
  <2>1. restartAttempts' <= MaxRestarts
    BY <1>6, PoolAssumption DEF HandleWorkerResult
  <2>2. CASE t \notin activeTasks
    BY <1>6, <2>1, <2>2 DEF HandleWorkerResult, EntriesOK
  <2>3. CASE t \in activeTasks
    <3>1. /\ activeTasks' = activeTasks \ {t} /\ pending' = pending \ {t}
          /\ poolFailed' = poolFailed /\ phase' = phase
      BY <1>6, <2>3 DEF HandleWorkerResult
    <3> QED BY <2>1, <2>3, <3>1 DEF EntriesOK
  <2> QED BY <2>2, <2>3
<1>7. ASSUME NEW w \in Threads, WorkerError(w) \/ WorkerDies(w) PROVE EntriesOK'
  BY <1>3, <1>7 DEF WorkerError, WorkerDies
<1>8. ASSUME NEW w \in Threads, WorkerExit(w) \/ WorkerQuits(w) PROVE EntriesOK'
  BY <1>1, <1>8 DEF WorkerExit, WorkerQuits
<1>9. CASE RestartFires
  <2>1. CASE ScheduleRestart(restartTimers - 1, {}) /\ ~(poolFailed \/ phase # "up")
    <3>1. restartTimers - 1 \in Nat
      BY <1>9 DEF RestartFires, TypeOK
    <3> QED BY <1>2, <1>9, <2>1, <3>1 DEF RestartFires
  <2> QED BY <1>1, <1>9, <2>1 DEF RestartFires
<1>10. CASE Shutdown \/ ShutdownReturns
  BY <1>10 DEF Shutdown, ShutdownReturns, EntriesOK, TypeOK
<1> QED BY <1>1, <1>4, <1>5, <1>6, <1>7, <1>8, <1>9, <1>10 DEF Next, vars

-----------------------------------------------------------------------------
\* A thread that starts or fails changes the number of those at work by one.
LEMMA Counting ==
  ASSUME TypeOK, NEW w \in Threads
  PROVE  /\ Cardinality(Working) \in Nat
         /\ w \in Working => Cardinality(Working \ {w}) = Cardinality(Working) - 1
         /\ w \notin Working => Cardinality(Working \cup {w}) = Cardinality(Working) + 1
<1>1. IsFiniteSet(Working)
  BY PoolAssumption, FS_Subset DEF Working
<1> QED BY <1>1, FS_CardinalityType, FS_AddElement, FS_RemoveElement

LEMMA NextCapacity == IInv /\ [Next]_vars => CapacityKept'
<1> SUFFICES ASSUME IInv, [Next]_vars, (phase = "up" /\ ~poolFailed)'
             PROVE  Cardinality(Working') + restartTimers' = Len(First)
  BY DEF CapacityKept, Working
<1> USE DEF taskVars, restartVars, stopVars
<1>0. phase = "up" /\ ~poolFailed
  BY DEF IInv, TypeOK, Next, vars, ExecuteTask, TaskTimesOut, HandleWorkerResult, WorkerError,
         WorkerExit, WorkerDies, WorkerQuits, RestartFires, Shutdown, ShutdownReturns,
         HandleWorkerFailure, ScheduleRestart
<1>1. Cardinality(Working) + restartTimers = Len(First) /\ restartTimers \in Nat
  BY <1>0 DEF IInv, CapacityKept, Working, TypeOK
<1>2. CASE Working' = Working /\ UNCHANGED restartTimers
  BY <1>1, <1>2
<1>3. ASSUME NEW w \in Threads, NEW hasId \in BOOLEAN, thread[w] = "live",
             HandleWorkerFailure(w, hasId),
             NEW to \in {"failed", "ended"}, thread' = [thread EXCEPT ![w] = to]
      PROVE  Cardinality(Working') + restartTimers' = Len(First)
  <2>1. Working' = Working \ {w} /\ w \in Working
    BY <1>3 DEF Working, IInv, TypeOK
  <2>2. restartTimers' = restartTimers + 1
    BY <1>0, <1>3 DEF HandleWorkerFailure, ScheduleRestart
  <2>3. Cardinality(Working') = Cardinality(Working) - 1 /\ Cardinality(Working) \in Nat
    BY <2>1, Counting DEF IInv
  <2> QED BY <1>1, <2>2, <2>3
<1>4. ASSUME NEW w \in Threads, WorkerError(w)
      PROVE  Cardinality(Working') + restartTimers' = Len(First)
  BY <1>3, <1>4 DEF WorkerError
<1>5. ASSUME NEW w \in Threads, WorkerDies(w)
      PROVE  Cardinality(Working') + restartTimers' = Len(First)
  BY <1>3, <1>5 DEF WorkerDies
<1>6. ASSUME NEW w \in Threads, WorkerExit(w)
      PROVE  Cardinality(Working') + restartTimers' = Len(First)
  <2>1. Working' = Working
    BY <1>6 DEF WorkerExit, Working, IInv, TypeOK
  <2> QED BY <1>2, <1>6, <2>1 DEF WorkerExit
<1>7. ASSUME NEW w \in Threads, WorkerQuits(w)
      PROVE  Cardinality(Working') + restartTimers' = Len(First)
  <2>1. Working' = Working
    BY <1>0, <1>7 DEF WorkerQuits, Working, IInv, TypeOK
  <2> QED BY <1>2, <1>7, <2>1 DEF WorkerQuits
<1>8. CASE RestartFires
  <2>1. ASSUME NEW w \in Threads, thread[w] = "free",
               thread' = [thread EXCEPT ![w] = "live"], restartTimers' = restartTimers - 1
        PROVE  Cardinality(Working') + restartTimers' = Len(First)
    <3>1. Working' = Working \cup {w} /\ w \notin Working
      BY <2>1 DEF Working, IInv, TypeOK
    <3>2. Cardinality(Working') = Cardinality(Working) + 1 /\ Cardinality(Working) \in Nat
      BY <3>1, Counting DEF IInv
    <3> QED BY <1>1, <2>1, <3>2
  <2>2. CASE ScheduleRestart(restartTimers - 1, {}) /\ UNCHANGED thread
    <3>1. restartTimers' = restartTimers
      BY <1>1, <2>2 DEF ScheduleRestart
    <3> QED BY <1>2, <2>2, <3>1 DEF Working
  <2> QED BY <1>0, <1>8, <2>1, <2>2 DEF RestartFires
<1>9. CASE UNCHANGED <<thread, restartTimers>>
  BY <1>2, <1>9 DEF Working
<1>10. ASSUME NEW t \in Tasks, ExecuteTask(t) \/ TaskTimesOut(t)
       PROVE  Cardinality(Working') + restartTimers' = Len(First)
  BY <1>9, <1>10 DEF ExecuteTask, TaskTimesOut
<1>11. ASSUME NEW w \in Threads, NEW t \in Tasks, HandleWorkerResult(w, t)
       PROVE  Cardinality(Working') + restartTimers' = Len(First)
  BY <1>9, <1>11 DEF HandleWorkerResult
<1>12. ~Shutdown /\ ~ShutdownReturns
  BY <1>0 DEF Shutdown, ShutdownReturns
<1> QED BY <1>4, <1>5, <1>6, <1>7, <1>8, <1>9, <1>10, <1>11, <1>12 DEF Next, vars

-----------------------------------------------------------------------------
LEMMA Invariance == Spec => []IInv
<1>1. IInv /\ [Next]_vars => IInv'
  BY NextType, NextTable, NextEntries, NextCapacity DEF IInv
<1> QED BY InitOK, <1>1, PTL DEF Spec

\* For every set of tasks, number of threads and budget of restarts, the
\* variables keep their ranges, the table lists no thread twice and the count of
\* restarts never passes its budget by more than the attempt that ends the pool.
THEOREM TypeCorrect == Spec => []TypeOK
<1>1. IInv => TypeOK
  BY DEF IInv
<1> QED BY Invariance, <1>1, PTL

\* However threads crash, once or twice announced, or fail to start, running
\* threads and restart timers add up to the threads the constructor started.
THEOREM CapacityHolds == Spec => []CapacityKept
<1>1. IInv => CapacityKept
  BY DEF IInv
<1> QED BY Invariance, <1>1, PTL

\* A pool that has failed or is stopping has settled every promise.
THEOREM ClosedPoolSettled == Spec => []ClosedMeansSettled
<1>1. IInv => ClosedMeansSettled
  BY DEF IInv, EntriesOK, ClosedMeansSettled
<1> QED BY Invariance, <1>1, PTL

-----------------------------------------------------------------------------
Distinct(q) == \A i, j \in DOMAIN q : q[i] = q[j] => i = j
Holds(q, t) == \E i \in DOMAIN q : q[i] = t

\* A task is in one place at most: once in the queue q or in one of the inboxes
\* box, which is that of the thread its entry names, if it is one of entries.
Apart(q, box, entries, names) ==
    /\ Distinct(q)
    /\ \A w \in Threads : \A t \in box[w] : ~Holds(q, t)
    /\ \A v, w \in Threads : \A t \in box[v] : t \in box[w] => v = w
    /\ \A w \in Threads : \A t \in box[w] \cap entries : names[t] = w

PlacesOK == Apart(taskQueue, inbox, activeTasks, assigned)

PInv == IInv /\ PlacesOK /\ NoTaskForgotten

\* Inserting a new element keeps the elements distinct and adds only that one.
LEMMA InsertionElements ==
  ASSUME NEW S, NEW s \in Seq(S), NEW i \in 1..Len(s) + 1, NEW x \in S,
         Distinct(s), ~Holds(s, x)
  PROVE  LET r == InsertAt(s, i, x)
         IN  Distinct(r) /\ \A y : Holds(r, y) <=> Holds(s, y) \/ y = x
<1> DEFINE r == InsertAt(s, i, x)  u == SubSeq(s, 1, i - 1)  v == SubSeq(s, i, Len(s))
<1>0. Len(s) \in Nat /\ i \in Nat /\ DOMAIN s = 1..Len(s)
  OBVIOUS
<1>1. /\ u \in Seq(S) /\ Len(u) = i - 1
      /\ \A j \in 1..i - 1 : u[j] = s[j]
  BY <1>0, SubSeqProperties, ElementOfSeq
<1>2. /\ v \in Seq(S) /\ Len(v) = Len(s) - i + 1
      /\ \A j \in 1..Len(s) - i + 1 : v[j] = s[i + j - 1]
  BY <1>0, SubSeqProperties, ElementOfSeq
<1> HIDE DEF u, v
<1>3. /\ u \o <<x>> \in Seq(S) /\ Len(u \o <<x>>) = i
      /\ \A j \in 1..i : (u \o <<x>>)[j] = IF j < i THEN s[j] ELSE x
  BY <1>0, <1>1
<1>4. /\ (u \o <<x>>) \o v \in Seq(S) /\ Len((u \o <<x>>) \o v) = Len(s) + 1
      /\ \A j \in 1..Len(s) + 1 :
           ((u \o <<x>>) \o v)[j] = IF j < i THEN s[j] ELSE IF j = i THEN x ELSE s[j - 1]
  <2> DEFINE a == u \o <<x>>
  <2> HIDE DEF a
  <2>1. /\ a \in Seq(S) /\ Len(a) = i
        /\ \A j \in 1..i : a[j] = IF j < i THEN s[j] ELSE x
    BY <1>3 DEF a
  <2>2. /\ a \o v \in Seq(S) /\ Len(a \o v) = Len(s) + 1
        /\ \A j \in 1..Len(a) + Len(v) : (a \o v)[j] = IF j <= Len(a) THEN a[j] ELSE v[j - Len(a)]
    <3>1. /\ a \o v \in Seq(S) /\ Len(a \o v) = Len(a) + Len(v)
          /\ \A j \in 1..Len(a) + Len(v) : (a \o v)[j] = IF j <= Len(a) THEN a[j] ELSE v[j - Len(a)]
      BY <1>2, <2>1, ConcatProperties
    <3>2. Len(a) + Len(v) = Len(s) + 1
      BY <1>0, <1>2, <2>1
    <3> QED BY <3>1, <3>2
  <2>3. ASSUME NEW j \in 1..Len(s) + 1
        PROVE  (a \o v)[j] = IF j < i THEN s[j] ELSE IF j = i THEN x ELSE s[j - 1]
    <3>1. CASE j <= i
      <4>1. j \in 1..i /\ j \in 1..Len(a) + Len(v)
        BY <1>0, <1>2, <2>1, <3>1
      <4>2. (a \o v)[j] = a[j]
        BY <2>1, <2>2, <3>1, <4>1
      <4> QED BY <1>0, <2>1, <3>1, <4>1, <4>2
    <3>2. CASE j > i
      <4>1. j - i \in 1..Len(s) - i + 1 /\ i + (j - i) - 1 = j - 1 /\ j \in 1..Len(a) + Len(v)
        BY <1>0, <1>2, <2>1, <3>2
      <4>2. (a \o v)[j] = v[j - i]
        BY <1>0, <2>1, <2>2, <3>2, <4>1
      <4>3. v[j - i] = s[j - 1]
        BY <1>2, <4>1
      <4>4. ~(j < i) /\ j # i
        BY <1>0, <3>2
      <4> QED BY <4>2, <4>3, <4>4
    <3>3. j <= i \/ j > i
      BY <1>0
    <3> QED BY <3>1, <3>2, <3>3
  <2> QED BY <2>2, <2>3 DEF a
<1>5. r = (u \o <<x>>) \o v
  BY DEF InsertAt, u, v
<1> HIDE DEF r
<1>6. DOMAIN r = 1..Len(s) + 1
  BY <1>4, <1>5
<1>7. \A j \in 1..Len(s) + 1 : r[j] = IF j < i THEN s[j] ELSE IF j = i THEN x ELSE s[j - 1]
  BY <1>4, <1>5
<1>8. Distinct(r)
  <2>1. ASSUME NEW j \in 1..Len(s) + 1, j # i
        PROVE  \E k \in 1..Len(s) : r[j] = s[k] /\ k = IF j < i THEN j ELSE j - 1
    BY <1>0, <1>7, <2>1
  <2>2. \A j \in 1..Len(s) + 1 : j # i => r[j] # x
    BY <1>0, <2>1 DEF Holds
  <2>3. \A j \in 1..Len(s) + 1 : r[j] = x <=> j = i
    BY <1>0, <1>7, <2>2
  <2>4. ASSUME NEW j \in 1..Len(s) + 1, NEW k \in 1..Len(s) + 1, r[j] = r[k], j # i, k # i
        PROVE  j = k
    <3>1. (IF j < i THEN j ELSE j - 1) = IF k < i THEN k ELSE k - 1
      BY <1>0, <2>1, <2>4 DEF Distinct
    <3> QED BY <1>0, <2>4, <3>1
  <2> QED BY <1>6, <2>3, <2>4 DEF Distinct
<1>9. ASSUME NEW y, Holds(r, y) PROVE Holds(s, y) \/ y = x
  BY <1>0, <1>6, <1>7, <1>9 DEF Holds
<1>10. Holds(r, x)
  BY <1>0, <1>6, <1>7 DEF Holds
<1>11. ASSUME NEW y, Holds(s, y) PROVE Holds(r, y)
  <2>1. PICK k \in DOMAIN s : s[k] = y
    BY <1>11 DEF Holds
  <2>2. CASE k < i
    BY <1>0, <1>6, <1>7, <2>1, <2>2 DEF Holds
  <2>3. CASE k >= i
    <3>1. k + 1 \in 1..Len(s) + 1 /\ ~(k + 1 < i) /\ k + 1 # i /\ (k + 1) - 1 = k
      BY <1>0, <2>3
    <3> QED BY <1>6, <1>7, <2>1, <3>1 DEF Holds
  <2> QED BY <1>0, <2>2, <2>3
<1> QED BY <1>8, <1>9, <1>10, <1>11 DEF r

LEMMA Enqueued ==
  ASSUME TypeOK, NEW t \in Tasks, Distinct(taskQueue), ~Holds(taskQueue, t)
  PROVE  /\ Enqueue(t) \in Seq(Tasks) /\ Distinct(Enqueue(t))
         /\ \A y : Holds(Enqueue(t), y) <=> Holds(taskQueue, y) \/ y = t
<1>1. PICK i \in 1..Len(taskQueue) + 1 : Enqueue(t) = InsertAt(taskQueue, i, t)
  BY EnqueuePlace
<1>2. taskQueue \in Seq(Tasks)
  BY DEF TypeOK
<1>3. LET r == InsertAt(taskQueue, i, t)
      IN  Distinct(r) /\ \A y : Holds(r, y) <=> Holds(taskQueue, y) \/ y = t
  BY <1>2, InsertionElements
<1> QED BY <1>1, <1>3, EnqueueType

\* What is handed out of the queue q: the task at place i goes to the i-th worker.
LEMMA HandedOut ==
  ASSUME TypeOK, NEW q \in Seq(Tasks), Distinct(q), NEW as, NEW box, ProcessQueue(q, as, box)
  PROVE  /\ Distinct(taskQueue') /\ \A y : Holds(taskQueue', y) => Holds(q, y)
         /\ \A y, w : Holds(taskQueue', y) => y \notin Posted(q, w)
         /\ \A y, v, w : y \in Posted(q, v) /\ y \in Posted(q, w) => v = w
         /\ \A y, w : y \in Posted(q, w) => Holds(q, y) /\ InTable(w)
         /\ \A y : Holds(q, y) => Holds(taskQueue', y) \/ \E w \in Threads : y \in Posted(q, w)
<1> DEFINE n == Len(workers)
<1>1. /\ workers \in Seq(Threads) /\ n \in Nat /\ DOMAIN workers = 1..n
      /\ Len(q) \in Nat /\ DOMAIN q = 1..Len(q)
  BY DEF TypeOK
<1> HIDE DEF n
<1>2. taskQueue' = SubSeq(q, n + 1, Len(q))
  BY DEF ProcessQueue, n
<1>3. /\ taskQueue' \in Seq(Tasks)
      /\ Len(taskQueue') = IF n + 1 <= Len(q) THEN Len(q) - n ELSE 0
      /\ \A i \in 1..Len(q) - n : taskQueue'[i] = q[n + i]
  <2>1. \A i \in n + 1..Len(q) : q[i] \in Tasks
    BY <1>1, ElementOfSeq
  <2>2. n + 1 \in Int /\ Len(q) \in Int
    BY <1>1
  <2>3. /\ SubSeq(q, n + 1, Len(q)) \in Seq(Tasks)
        /\ Len(SubSeq(q, n + 1, Len(q))) = IF n + 1 <= Len(q) THEN Len(q) - (n + 1) + 1 ELSE 0
        /\ \A i \in 1..Len(q) - (n + 1) + 1 : SubSeq(q, n + 1, Len(q))[i] = q[n + 1 + i - 1]
    BY <2>1, <2>2, SubSeqProperties
  <2>4. Len(q) - (n + 1) + 1 = Len(q) - n /\ \A i \in Int : n + 1 + i - 1 = n + i
    BY <1>1
  <2> QED BY <1>1, <1>2, <2>3, <2>4
<1>4. DOMAIN taskQueue' = 1..Len(q) - n
  <2>1. DOMAIN taskQueue' = 1..Len(taskQueue')
    BY <1>3
  <2>2. CASE n + 1 <= Len(q)
    BY <1>3, <2>1, <2>2
  <2>3. CASE ~(n + 1 <= Len(q))
    <3>1. 1..0 = {} /\ 1..Len(q) - n = {}
      BY <1>1, <2>3
    <3> QED BY <1>3, <2>1, <2>3, <3>1
  <2> QED BY <2>2, <2>3
<1>5. \A i \in DOMAIN taskQueue' : n + i \in DOMAIN q /\ taskQueue'[i] = q[n + i]
  BY <1>1, <1>3, <1>4
<1>6. \A y, w : y \in Posted(q, w) <=> \E j \in DOMAIN q : j \in DOMAIN workers /\ workers[j] = w /\ q[j] = y
  BY DEF Posted
<1>7. Distinct(taskQueue')
  <2> SUFFICES ASSUME NEW i \in DOMAIN taskQueue', NEW j \in DOMAIN taskQueue',
                      taskQueue'[i] = taskQueue'[j]
               PROVE  i = j
    BY DEF Distinct
  <2>1. n + i = n + j
    BY <1>5 DEF Distinct
  <2> QED BY <1>1, <1>4, <2>1
<1>8. \A y : Holds(taskQueue', y) => Holds(q, y)
  BY <1>5 DEF Holds
<1>9. ASSUME NEW y, NEW w, Holds(taskQueue', y), y \in Posted(q, w) PROVE FALSE
  <2>1. PICK i \in DOMAIN taskQueue' : taskQueue'[i] = y
    BY <1>9 DEF Holds
  <2>2. PICK j \in DOMAIN q : j \in DOMAIN workers /\ q[j] = y
    BY <1>6, <1>9
  <2>3. j = n + i
    BY <1>5, <2>1, <2>2 DEF Distinct
  <2> QED BY <1>1, <1>4, <2>2, <2>3
<1>10. \A y, v, w : y \in Posted(q, v) /\ y \in Posted(q, w) => v = w
  BY <1>6 DEF Distinct
<1>11. \A y, w : y \in Posted(q, w) => Holds(q, y) /\ InTable(w)
  BY <1>6 DEF Holds, InTable
<1>12. ASSUME NEW y, Holds(q, y)
       PROVE  Holds(taskQueue', y) \/ \E w \in Threads : y \in Posted(q, w)
  <2>1. PICK i \in DOMAIN q : q[i] = y
    BY <1>12 DEF Holds
  <2>2. CASE i <= n
    <3>1. i \in DOMAIN workers /\ workers[i] \in Threads
      BY <1>1, <2>1, <2>2, ElementOfSeq
    <3> QED BY <1>6, <2>1, <3>1
  <2>3. CASE i > n
    <3>1. i - n \in DOMAIN taskQueue' /\ n + (i - n) = i
      BY <1>1, <1>4, <2>1, <2>3
    <3> QED BY <1>5, <2>1, <3>1 DEF Holds
  <2> QED BY <1>1, <2>1, <2>2, <2>3
<1> QED BY <1>7, <1>8, <1>9, <1>10, <1>11, <1>12

\* What processQueue() does to the places of the tasks, those of the entries as
\* in particular: whatever was somewhere still is.
Somewhere(q, box, as, y) ==
    \/ Holds(q, y)
    \/ \E w \in Threads : thread[w] = "live" /\ y \in box[w] /\ as[y] = w
    \/ \E w \in Threads : InTable(w) /\ thread[w] # "live" /\ as[y] = w

LEMMA ProcessPlaces ==
  ASSUME TypeOK, NEW q \in Seq(Tasks), NEW as \in SUBSET Tasks,
         NEW box \in [Threads -> SUBSET Tasks], ProcessQueue(q, as, box),
         Apart(q, box, as, assigned)
  PROVE  /\ Apart(taskQueue', inbox', as, assigned')
         /\ \A y \in as : Somewhere(q, box, assigned, y)
                            => Somewhere(taskQueue', inbox', assigned', y)
<1>0. /\ Distinct(q)
      /\ \A w \in Threads : \A y \in box[w] : ~Holds(q, y)
      /\ \A v, w \in Threads : \A y \in box[v] : y \in box[w] => v = w
      /\ \A w \in Threads : \A y \in box[w] \cap as : assigned[y] = w
  BY DEF Apart
<1>1. \A w \in Threads : \A y :
        y \in inbox'[w] <=> y \in box[w] \/ (thread[w] = "live" /\ y \in Posted(q, w))
  BY DEF ProcessQueue
<1>2. /\ Distinct(taskQueue') /\ \A y : Holds(taskQueue', y) => Holds(q, y)
      /\ \A y, w : Holds(taskQueue', y) => y \notin Posted(q, w)
      /\ \A y, v, w : y \in Posted(q, v) /\ y \in Posted(q, w) => v = w
      /\ \A y, w : y \in Posted(q, w) => Holds(q, y) /\ InTable(w)
      /\ \A y : Holds(q, y) => Holds(taskQueue', y) \/ \E w \in Threads : y \in Posted(q, w)
  BY <1>0, HandedOut
<1>3. ASSUME NEW w \in Threads, NEW y \in as, y \in Posted(q, w) PROVE assigned'[y] = w
  <2>1. assigned'[y] = CHOOSE v \in Threads : y \in Posted(q, v)
    BY <1>3 DEF ProcessQueue
  <2>2. \A v \in Threads : y \in Posted(q, v) => v = w
    BY <1>2, <1>3
  <2> QED BY <1>3, <2>1, <2>2
<1>4. \A y \in as : (\A w \in Threads : y \notin Posted(q, w)) => assigned'[y] = assigned[y]
  BY DEF ProcessQueue
<1>5. \A w \in Threads : \A y \in inbox'[w] : ~Holds(taskQueue', y)
  BY <1>0, <1>1, <1>2
<1>6. \A v, w \in Threads : \A y \in inbox'[v] : y \in inbox'[w] => v = w
  BY <1>0, <1>1, <1>2
<1>7. ASSUME NEW w \in Threads, NEW y \in inbox'[w] \cap as PROVE assigned'[y] = w
  <2>1. CASE y \in Posted(q, w)
    BY <1>3, <2>1
  <2>2. CASE y \notin Posted(q, w)
    <3>1. y \in box[w]
      BY <1>1, <1>7, <2>2
    <3>2. \A v \in Threads : y \notin Posted(q, v)
      BY <1>0, <1>2, <3>1
    <3> QED BY <1>0, <1>4, <1>7, <3>1, <3>2
  <2> QED BY <2>1, <2>2
<1>8. ASSUME NEW y \in as, Somewhere(q, box, assigned, y)
      PROVE  Somewhere(taskQueue', inbox', assigned', y)
  <2>1. ASSUME NEW w \in Threads, y \in Posted(q, w)
        PROVE  Somewhere(taskQueue', inbox', assigned', y)
    <3>1. assigned'[y] = w /\ InTable(w)
      BY <1>2, <1>3, <2>1
    <3> QED BY <1>1, <2>1, <3>1 DEF Somewhere
  <2>2. CASE Holds(taskQueue', y)
    BY <2>2 DEF Somewhere
  <2>3. CASE ~Holds(taskQueue', y) /\ \A w \in Threads : y \notin Posted(q, w)
    <3>1. assigned'[y] = assigned[y] /\ ~Holds(q, y)
      BY <1>2, <1>4, <2>3
    <3> QED BY <1>1, <1>8, <3>1 DEF Somewhere
  <2> QED BY <2>1, <2>2, <2>3
<1> QED BY <1>2, <1>5, <1>6, <1>7, <1>8 DEF Apart

LEMMA ExecutePlaces == ASSUME PInv, NEW t \in Tasks, ExecuteTask(t)
                       PROVE  PlacesOK' /\ NoTaskForgotten'
<1>1. /\ phase = "up" /\ Unused(t) /\ activeTasks' = activeTasks \cup {t}
      /\ ProcessQueue(Enqueue(t), activeTasks', inbox)
      /\ UNCHANGED <<workers, thread>>
  BY DEF ExecuteTask
<1>2. ~Holds(taskQueue, t) /\ \A w \in Threads : t \notin inbox[w]
  BY <1>1 DEF Unused, Holds
<1>3. TypeOK /\ PlacesOK /\ activeTasks' \in SUBSET Tasks /\ inbox \in [Threads -> SUBSET Tasks]
  BY <1>1 DEF PInv, IInv, TypeOK
<1>4. /\ Enqueue(t) \in Seq(Tasks) /\ Distinct(Enqueue(t))
      /\ \A y : Holds(Enqueue(t), y) <=> Holds(taskQueue, y) \/ y = t
  BY <1>2, <1>3, Enqueued DEF PlacesOK, Apart
<1>5. Apart(Enqueue(t), inbox, activeTasks', assigned)
  BY <1>1, <1>2, <1>3, <1>4 DEF PlacesOK, Apart
<1>6. /\ Apart(taskQueue', inbox', activeTasks', assigned')
      /\ \A y \in activeTasks' : Somewhere(Enqueue(t), inbox, assigned, y)
                                   => Somewhere(taskQueue', inbox', assigned', y)
  BY <1>1, <1>3, <1>4, <1>5, ProcessPlaces
<1>7. \A y \in activeTasks' : Somewhere(Enqueue(t), inbox, assigned, y)
  BY <1>1, <1>4 DEF Somewhere, PInv, NoTaskForgotten, Holds
<1>8. \A y \in activeTasks' : Somewhere(taskQueue', inbox', assigned', y)
  BY <1>6, <1>7
<1>9. NoTaskForgotten'
  BY <1>1, <1>8 DEF NoTaskForgotten, Somewhere, Holds, InTable
<1> QED BY <1>6, <1>9 DEF PlacesOK

LEMMA ResultPlaces == ASSUME PInv, NEW w \in Threads, NEW t \in Tasks, HandleWorkerResult(w, t)
                      PROVE  PlacesOK' /\ NoTaskForgotten'
<1> DEFINE box == [inbox EXCEPT ![w] = @ \ {t}]
<1>1. /\ TypeOK /\ PlacesOK /\ t \in inbox[w]
      /\ UNCHANGED <<workers, thread, phase>>
  BY DEF PInv, IInv, HandleWorkerResult, stopVars
<1>2. /\ box \in [Threads -> SUBSET Tasks]
      /\ \A v \in Threads : \A y : y \in box[v] <=> y \in inbox[v] /\ ~(v = w /\ y = t)
  BY <1>1 DEF TypeOK
<1>3. CASE t \notin activeTasks
  <2>1. inbox' = box /\ UNCHANGED <<taskQueue, activeTasks, assigned>>
    BY <1>3 DEF HandleWorkerResult
  <2> HIDE DEF box
  <2>2. PlacesOK'
    BY <1>1, <1>2, <2>1 DEF PlacesOK, Apart, Holds, Distinct
  <2>3. NoTaskForgotten'
    BY <1>1, <1>2, <1>3, <2>1 DEF PInv, NoTaskForgotten, InTable
  <2> QED BY <2>2, <2>3
<1>4. CASE t \in activeTasks
  <2>1. activeTasks' = activeTasks \ {t} /\ ProcessQueue(taskQueue, activeTasks', box)
    BY <1>4 DEF HandleWorkerResult
  <2> HIDE DEF box
  <2>2. /\ taskQueue \in Seq(Tasks) /\ activeTasks' \in SUBSET Tasks
        /\ Apart(taskQueue, box, activeTasks', assigned)
    BY <1>1, <1>2, <2>1 DEF TypeOK, PlacesOK, Apart
  <2>3. /\ Apart(taskQueue', inbox', activeTasks', assigned')
        /\ \A y \in activeTasks' : Somewhere(taskQueue, box, assigned, y)
                                     => Somewhere(taskQueue', inbox', assigned', y)
    BY <1>1, <1>2, <2>1, <2>2, ProcessPlaces
  <2>4. phase = "up" => \A y \in activeTasks' : Somewhere(taskQueue, box, assigned, y)
    BY <1>2, <2>1 DEF Somewhere, PInv, NoTaskForgotten, Holds
  <2>5. phase = "up" => \A y \in activeTasks' : Somewhere(taskQueue', inbox', assigned', y)
    BY <2>3, <2>4
  <2>6. NoTaskForgotten'
    BY <1>1, <2>5 DEF NoTaskForgotten, Somewhere, Holds, InTable
  <2> QED BY <2>3, <2>6 DEF PlacesOK
<1> QED BY <1>3, <1>4

\* Entries that go take no place with them.
LEMMA SettlePlaces ==
  ASSUME PInv, NEW S, Settle(S),
         \A v \in Threads : inbox'[v] \subseteq inbox[v],
         taskQueue' = taskQueue \/ taskQueue' = << >>
  PROVE  PlacesOK'
<1>1. \A y : Holds(taskQueue', y) => Holds(taskQueue, y)
  BY DEF Holds
<1>2. Distinct(taskQueue')
  BY DEF Distinct, PInv, PlacesOK, Apart
<1>3. /\ activeTasks' = activeTasks \ S
      /\ \A y \in activeTasks' : y \in Tasks /\ assigned'[y] = assigned[y]
  BY DEF Settle, PInv, IInv, TypeOK
<1> QED BY <1>1, <1>2, <1>3 DEF PInv, PlacesOK, Apart

LEMMA SchedulePlaces ==
  ASSUME PInv, NEW n, NEW S, ScheduleRestart(n, S),
         \A v \in Threads : inbox'[v] \subseteq inbox[v]
  PROVE  /\ PlacesOK'
         /\ \A y \in activeTasks' : /\ y \in activeTasks \ S /\ assigned'[y] = assigned[y]
                                    /\ taskQueue' = taskQueue
<1> DEFINE gone == ~poolFailed /\ restartAttempts >= MaxRestarts
<1>1. /\ Settle(IF gone THEN Tasks ELSE S)
      /\ taskQueue' = IF gone THEN << >> ELSE taskQueue
  BY DEF ScheduleRestart
<1> HIDE DEF gone
<1>2. PlacesOK'
  BY <1>1, SettlePlaces
<1>3. activeTasks \subseteq Tasks
  BY DEF PInv, IInv, TypeOK
<1> QED BY <1>1, <1>2, <1>3 DEF Settle

\* A crash: the tasks of the worker lose their entries, all others stay where they are.
LEMMA FailurePlaces ==
  ASSUME PInv, NEW w \in Threads, thread[w] = "live", NEW hasId \in BOOLEAN,
         HandleWorkerFailure(w, hasId), UNCHANGED stopVars,
         \A v \in Threads : inbox'[v] \subseteq inbox[v] /\ (v # w => inbox'[v] = inbox[v]),
         NEW to \in {"failed", "ended"}, thread' = [thread EXCEPT ![w] = to]
  PROVE  PlacesOK' /\ NoTaskForgotten'
<1>1. \A v \in Threads : /\ inbox'[v] \subseteq inbox[v]
                         /\ v # w => inbox'[v] = inbox[v] /\ thread'[v] = thread[v]
  BY DEF PInv, IInv, TypeOK
<1>2. CASE phase = "up"
  <2> DEFINE S == {t \in activeTasks : assigned[t] = w}
  <2>1. ScheduleRestart(restartTimers, S)
    BY <1>2 DEF HandleWorkerFailure
  <2> HIDE DEF S
  <2>2. /\ PlacesOK'
        /\ \A y \in activeTasks' : /\ y \in activeTasks \ S /\ assigned'[y] = assigned[y]
                                   /\ taskQueue' = taskQueue
    BY <1>1, <2>1, SchedulePlaces
  <2>3. \A v \in Threads \ {w} : InTable(v) => InTable(v)'
    <3>1. /\ TypeOK /\ TableOK /\ EntriesOK
          /\ w \in Threads /\ thread[w] = "live" /\ hasId \in BOOLEAN
          /\ HandleWorkerFailure(w, hasId)
      BY DEF PInv, IInv
    <3>2. \A x : (\E i \in DOMAIN workers' : workers'[i] = x) <=> InTable(x) /\ ~(hasId /\ x = w)
      BY ONLY <3>1, FailureType
    <3> QED BY <3>2 DEF InTable
  <2>4. ASSUME NEW y \in activeTasks'
        PROVE  Somewhere(taskQueue, inbox', assigned, y) /\ assigned[y] # w
    <3>1. y \in activeTasks /\ assigned[y] # w
      BY <2>2 DEF S
    <3>2. Somewhere(taskQueue, inbox, assigned, y)
      BY <1>2, <3>1 DEF PInv, NoTaskForgotten, Somewhere, Holds
    <3> QED BY <1>1, <3>1, <3>2 DEF Somewhere
  <2>5. ASSUME NEW y \in activeTasks'
        PROVE  \/ \E i \in DOMAIN taskQueue' : taskQueue'[i] = y
               \/ \E v \in Threads : thread'[v] = "live" /\ y \in inbox'[v] /\ assigned'[y] = v
               \/ \E v \in Threads : InTable(v)' /\ thread'[v] # "live" /\ assigned'[y] = v
    <3>1. taskQueue' = taskQueue /\ assigned'[y] = assigned[y]
      BY <2>2
    <3> QED BY <1>1, <2>3, <2>4, <3>1 DEF Somewhere, Holds
  <2> QED BY <2>2, <2>5 DEF NoTaskForgotten
<1>3. CASE phase # "up"
  <2>1. UNCHANGED <<taskQueue, activeTasks, assigned, phase>>
    BY <1>3 DEF HandleWorkerFailure, stopVars
  <2>2. PlacesOK'
    BY <1>1, <2>1 DEF PInv, PlacesOK, Apart, Holds, Distinct
  <2> QED BY <1>3, <2>1, <2>2 DEF NoTaskForgotten
<1> QED BY <1>2, <1>3

LEMMA NextPlaces == PInv /\ [Next]_vars => PlacesOK' /\ NoTaskForgotten'
<1> SUFFICES ASSUME PInv, [Next]_vars PROVE PlacesOK' /\ NoTaskForgotten'
  OBVIOUS
<1> USE DEF taskVars, restartVars, stopVars
<1>1. CASE UNCHANGED <<workers, thread, taskQueue, inbox, activeTasks, assigned, phase>>
  BY <1>1 DEF PInv, PlacesOK, Apart, NoTaskForgotten, InTable, Holds, Distinct
<1>2. ASSUME NEW t \in Tasks, ExecuteTask(t) PROVE PlacesOK' /\ NoTaskForgotten'
  BY <1>2, ExecutePlaces
<1>3. ASSUME NEW t \in Tasks, TaskTimesOut(t) PROVE PlacesOK' /\ NoTaskForgotten'
  <2>1. /\ UNCHANGED <<workers, thread, taskQueue, inbox, phase>>
        /\ activeTasks' = activeTasks \ {t}
        /\ \A y \in activeTasks' : assigned'[y] = assigned[y]
    BY <1>3 DEF TaskTimesOut, PInv, IInv, TypeOK
  <2> QED BY <2>1 DEF PInv, PlacesOK, Apart, NoTaskForgotten, InTable, Holds, Distinct
<1>4. ASSUME NEW w \in Threads, NEW t \in Tasks, HandleWorkerResult(w, t)
      PROVE  PlacesOK' /\ NoTaskForgotten'
  BY <1>4, ResultPlaces
<1>5. ASSUME NEW w \in Threads, WorkerError(w) PROVE PlacesOK' /\ NoTaskForgotten'
  BY <1>5, FailurePlaces DEF WorkerError, PInv, IInv, TypeOK
<1>6. ASSUME NEW w \in Threads, WorkerDies(w) PROVE PlacesOK' /\ NoTaskForgotten'
  BY <1>6, FailurePlaces DEF WorkerDies, PInv, IInv, TypeOK
<1>7. ASSUME NEW w \in Threads, WorkerExit(w) PROVE PlacesOK' /\ NoTaskForgotten'
  <2>1. /\ UNCHANGED <<workers, taskQueue, activeTasks, assigned, phase>>
        /\ \A v \in Threads : inbox'[v] = IF v = w THEN {} ELSE inbox[v]
        /\ \A v \in Threads : v # w => thread'[v] = thread[v]
        /\ thread[w] # "live" /\ thread'[w] # "live"
    BY <1>7 DEF WorkerExit, PInv, IInv, TypeOK
  <2>2. PlacesOK'
    BY <2>1 DEF PInv, PlacesOK, Apart, Holds, Distinct
  <2>3. NoTaskForgotten'
    BY <2>1 DEF PInv, NoTaskForgotten, InTable
  <2> QED BY <2>2, <2>3
<1>8. ASSUME NEW w \in Threads, WorkerQuits(w) PROVE PlacesOK' /\ NoTaskForgotten'
  <2>1. /\ UNCHANGED <<workers, taskQueue, activeTasks, assigned, phase>>
        /\ \A v \in Threads : inbox'[v] = IF v = w THEN {} ELSE inbox[v]
        /\ \A v \in Threads : v # w => thread'[v] = thread[v]
        /\ thread'[w] # "live" /\ InTable(w)
    BY <1>8 DEF WorkerQuits, PInv, IInv, TypeOK, TableOK
  <2>2. PlacesOK'
    BY <2>1 DEF PInv, PlacesOK, Apart, Holds, Distinct
  <2>3. NoTaskForgotten'
    BY <2>1 DEF PInv, NoTaskForgotten, InTable
  <2> QED BY <2>2, <2>3
<1>9. CASE RestartFires
  <2>1. CASE poolFailed \/ phase # "up"
    BY <1>1, <1>9, <2>1 DEF RestartFires
  <2>2. ASSUME NEW w \in Threads, thread[w] = "free",
               thread' = [thread EXCEPT ![w] = "live"], workers' = Append(workers, w),
               UNCHANGED <<taskVars, stopVars>>
        PROVE  PlacesOK' /\ NoTaskForgotten'
    <3>1. ~InTable(w)
      BY <2>2 DEF PInv, IInv, TableOK
    <3>2. \A v \in Threads \ {w} : thread'[v] = thread[v] /\ (InTable(v) => InTable(v)')
      <4>1. workers \in Seq(Threads)
        BY DEF PInv, IInv, TypeOK
      <4>2. \A i \in DOMAIN workers : i \in DOMAIN workers' /\ workers'[i] = workers[i]
        BY <2>2, <4>1
      <4> QED BY <2>2, <4>2 DEF InTable, PInv, IInv, TypeOK
    <3>3. PlacesOK'
      BY <2>2 DEF PInv, PlacesOK, Apart, Holds, Distinct
    <3>4. NoTaskForgotten'
      BY <2>2, <3>1, <3>2 DEF PInv, NoTaskForgotten
    <3> QED BY <3>3, <3>4
  <2>3. CASE ScheduleRestart(restartTimers - 1, {}) /\ UNCHANGED <<workers, thread, inbox, stopVars>>
    <3>1. /\ PlacesOK'
          /\ \A y \in activeTasks' : /\ y \in activeTasks /\ assigned'[y] = assigned[y]
                                     /\ taskQueue' = taskQueue
      BY <2>3, SchedulePlaces
    <3>2. NoTaskForgotten'
      BY <2>3, <3>1 DEF PInv, NoTaskForgotten, InTable
    <3> QED BY <3>1, <3>2
  <2> QED BY <1>9, <2>1, <2>2, <2>3 DEF RestartFires
<1>10. CASE Shutdown
  <2>1. phase' # "up" /\ UNCHANGED <<taskQueue, inbox, activeTasks, assigned>>
    BY <1>10 DEF Shutdown
  <2> QED BY <2>1 DEF PInv, PlacesOK, Apart, NoTaskForgotten, Holds, Distinct
<1>11. CASE ShutdownReturns
  <2>1. phase' # "up" /\ taskQueue' = << >> /\ activeTasks' = {} /\ UNCHANGED inbox
    BY <1>11 DEF ShutdownReturns
  <2> QED BY <2>1 DEF PInv, PlacesOK, Apart, NoTaskForgotten, Holds, Distinct
<1> QED BY <1>1, <1>2, <1>3, <1>4, <1>5, <1>6, <1>7, <1>8, <1>9, <1>10, <1>11 DEF Next, vars

LEMMA PlacesInvariance == Spec => []PInv
<1>1. Init => PInv
  BY InitOK DEF Init, PInv, PlacesOK, Apart, NoTaskForgotten, Holds, Distinct
<1>2. IInv /\ [Next]_vars => IInv'
  BY NextType, NextTable, NextEntries, NextCapacity DEF IInv
<1>3. PInv /\ [Next]_vars => PInv'
  BY <1>2, NextPlaces DEF PInv
<1> QED BY <1>1, <1>3, PTL DEF Spec

\* A task that has an entry is queued, at work where its entry says, or was posted
\* to a thread that ended and is still listed.
THEOREM NothingForgotten == Spec => []NoTaskForgotten
<1>1. PInv => NoTaskForgotten
  BY DEF PInv
<1> QED BY PlacesInvariance, <1>1, PTL

\* A crash rejects the tasks of the worker that crashed and no others, as long as
\* the pool does not give up.
THEOREM CrashesIsolated == Spec => CrashIsIsolated
<1> DEFINE A == \A w \in Threads : thread[w] = "live" /\ thread'[w] \in {"failed", "ended"}
                  => \/ poolFailed'
                     \/ \A v \in Threads \ {w} : (inbox[v] \cap pending) \subseteq pending'
<1>1. ASSUME PInv, Next PROVE A
  <2> SUFFICES ASSUME NEW w \in Threads, thread[w] = "live", thread'[w] \in {"failed", "ended"},
                      ~poolFailed', NEW v \in Threads \ {w}, NEW y \in inbox[v] \cap pending
               PROVE  y \in pending'
    OBVIOUS
  <2> USE DEF taskVars, restartVars, stopVars
  <2>1. ASSUME NEW u \in Threads, thread[u] = "live", NEW hasId \in BOOLEAN,
               HandleWorkerFailure(u, hasId), NEW to, thread' = [thread EXCEPT ![u] = to]
        PROVE  y \in pending'
    <3>1. u = w
      BY <1>1, <2>1 DEF PInv, IInv, TypeOK
    <3>2. CASE phase = "up"
      <4>1. y \in activeTasks /\ assigned[y] = v
        BY <1>1, <3>2 DEF PInv, IInv, EntriesOK, PlacesOK, Apart
      <4>2. pending' = pending \ {t \in activeTasks : assigned[t] = w}
        BY <2>1, <3>1, <3>2 DEF HandleWorkerFailure, ScheduleRestart, Settle
      <4> QED BY <4>1, <4>2
    <3>3. CASE phase # "up"
      BY <2>1, <3>3 DEF HandleWorkerFailure
    <3> QED BY <3>2, <3>3
  <2>2. ASSUME NEW u \in Threads, WorkerError(u) \/ WorkerDies(u) PROVE y \in pending'
    BY <2>1, <2>2 DEF WorkerError, WorkerDies
  <2>3. ASSUME NEW u \in Threads, WorkerExit(u) \/ WorkerQuits(u) PROVE y \in pending'
    BY <2>3 DEF WorkerExit, WorkerQuits
  <2>4. CASE UNCHANGED thread
    BY <2>4
  <2>5. CASE RestartFires
    <3>1. thread'[w] \in {thread[w], "live"}
      <4>1. \/ UNCHANGED thread
            \/ \E u \in Threads : thread' = [thread EXCEPT ![u] = "live"]
        BY <2>5 DEF RestartFires
      <4>2. thread \in [Threads -> ThreadStates]
        BY <1>1 DEF PInv, IInv, TypeOK, ThreadStates
      <4> QED BY <4>1, <4>2
    <3> QED BY <3>1
  <2>6. ASSUME NEW t \in Tasks, ExecuteTask(t) \/ TaskTimesOut(t) PROVE y \in pending'
    BY <2>4, <2>6 DEF ExecuteTask, TaskTimesOut
  <2>7. ASSUME NEW u \in Threads, NEW t \in Tasks, HandleWorkerResult(u, t) PROVE y \in pending'
    BY <2>4, <2>7 DEF HandleWorkerResult
  <2>8. CASE Shutdown \/ ShutdownReturns
    BY <2>4, <2>8 DEF Shutdown, ShutdownReturns
  <2> QED BY <1>1, <2>2, <2>3, <2>5, <2>6, <2>7, <2>8 DEF Next
<1>2. PInv /\ [Next]_vars => [A]_vars
  BY <1>1
<1> HIDE DEF A
<1>3. Spec => [][A]_vars
  BY <1>2, PlacesInvariance, PTL DEF Spec
<1> QED BY <1>3 DEF A, CrashIsIsolated
=============================================================================
