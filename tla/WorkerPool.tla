----------------------------- MODULE WorkerPool -----------------------------
(***************************************************************************)
(* The thread pool of src/core/workers/worker-manager.ts: executeTask and  *)
(* its queue, results, task timeouts, crashed workers and their backed-off *)
(* replacement, the pool that gives up, and shutdown().                    *)
(*                                                                         *)
(* Workers run every task they are sent at once and answer in any order.   *)
(* What a thread does is external: it answers, throws, exits, or hangs.    *)
(***************************************************************************)
EXTENDS Integers, Sequences, FiniteSets, SequencesExt

CONSTANTS
    Tasks,        \* task slots; a slot is used again once nothing holds it
    Timed,        \* the tasks given a timeout
    Priority,     \* task -> "high", "normal" or "low"
    Threads,      \* thread ids; the bound on dead threads the table collects
    First,        \* the threads the constructor starts, in order
    MaxQueue,     \* maxQueueSize
    MaxRestarts   \* maxRestartAttempts

ASSUME PoolAssumption ==
    /\ IsFiniteSet(Threads) /\ First \in Seq(Threads) /\ First # << >>
    /\ \A i, j \in DOMAIN First : First[i] = First[j] => i = j
    /\ Timed \subseteq Tasks
    /\ MaxQueue \in Nat \ {0} /\ MaxRestarts \in Nat

NoThread == "no thread"
ASSUME NoThreadAssumption == NoThread \notin Threads

VARIABLES
    workers,     \* the table, in the order of insertion
    thread,      \* "free", "live", "failed" (its exit is still to come),
                 \* "ended" or "quit" (code 0: nobody replaces it)
    inbox,       \* the tasks posted to each thread and not answered, until it exits
    taskQueue,   \* tasks waiting to be posted
    activeTasks, \* tasks with an entry
    assigned,    \* the assignedWorker of each entry
    pending,     \* tasks whose promise is not settled
    restartTimers, restartAttempts, poolFailed,
    phase,       \* "up", "stopping" (isShuttingDown) or "down"
    awaiting     \* threads whose exit shutdown() awaits

taskVars    == <<inbox, taskQueue, activeTasks, assigned, pending>>
restartVars == <<restartTimers, restartAttempts, poolFailed>>
stopVars    == <<phase, awaiting>>
vars == <<workers, thread, taskVars, restartVars, stopVars>>

InTable(w) == \E i \in DOMAIN workers : workers[i] = w
PlaceOf(w) == CHOOSE i \in DOMAIN workers : workers[i] = w

-----------------------------------------------------------------------------
\* A thread that could not be spawned by the constructor leaves the state of
\* one that crashed before its first task.
Init ==
    /\ workers = First
    /\ thread = [w \in Threads |->
                   IF \E i \in DOMAIN First : First[i] = w THEN "live" ELSE "free"]
    /\ inbox = [w \in Threads |-> {}]
    /\ taskQueue = << >> /\ activeTasks = {} /\ pending = {}
    /\ assigned = [t \in Tasks |-> NoThread]
    /\ restartTimers = 0 /\ restartAttempts = 0 /\ poolFailed = FALSE
    /\ phase = "up" /\ awaiting = {}

Rank(t) == CASE Priority[t] = "high" -> 3 [] Priority[t] = "normal" -> 2 [] OTHER -> 1

\* The stable sort of processQueue(): every push is followed by it, so that it
\* moves the pushed task behind those of its priority and above.
Enqueue(t) ==
    LET ahead == {i \in DOMAIN taskQueue : Rank(taskQueue[i]) >= Rank(t)}
    IN  InsertAt(taskQueue, Cardinality(ahead) + 1, t)

\* processQueue() with the queue q, the entries as and the inboxes box: one task
\* for every worker of the table, busy or not.  A dead thread drops its task.
Posted(q, w) == {q[i] : i \in {j \in DOMAIN q \cap DOMAIN workers : workers[j] = w}}
ProcessQueueUnrecorded(q, as, box) ==  \* mutant
    /\ taskQueue' = SubSeq(q, Len(workers) + 1, Len(q))
    /\ assigned' = [t \in Tasks |-> IF t \in as THEN assigned[t] ELSE NoThread]
    /\ inbox' = [w \in Threads |->
                   IF thread[w] = "live" THEN box[w] \cup Posted(q, w) ELSE box[w]]
ProcessQueue(q, as, box) ==
    /\ taskQueue' = SubSeq(q, Len(workers) + 1, Len(q))
    /\ assigned' = [t \in Tasks |->
         IF t \notin as THEN NoThread
         ELSE IF \A w \in Threads : t \notin Posted(q, w) THEN assigned[t]
         ELSE CHOOSE w \in Threads : t \in Posted(q, w)]
    /\ inbox' = [w \in Threads |->
                   IF thread[w] = "live" THEN box[w] \cup Posted(q, w) ELSE box[w]]

\* executeTask(): refused by a pool that is stopping or has failed.
Unused(t) ==
    /\ t \notin activeTasks /\ \A i \in DOMAIN taskQueue : taskQueue[i] # t
    /\ \A w \in Threads : t \notin inbox[w]

ExecuteTaskAnyway(t) ==  \* mutant
    /\ phase = "up"
    /\ Unused(t) /\ t \notin pending
    /\ Len(taskQueue) < MaxQueue
    /\ activeTasks' = activeTasks \cup {t}
    /\ pending' = pending \cup {t}
    /\ ProcessQueue(Enqueue(t), activeTasks', inbox)
    /\ UNCHANGED <<workers, thread, restartVars, stopVars>>
ExecuteTask(t) ==
    /\ phase = "up" /\ ~poolFailed
    /\ Unused(t) /\ t \notin pending
    /\ Len(taskQueue) < MaxQueue      \* else the promise is rejected at once
    /\ activeTasks' = activeTasks \cup {t}
    /\ pending' = pending \cup {t}
    /\ ProcessQueue(Enqueue(t), activeTasks', inbox)
    /\ UNCHANGED <<workers, thread, restartVars, stopVars>>

\* The timeout of a task: its entry goes, its place in the queue stays.
TaskTimesOutAtWork(t) ==  \* mutant
    /\ t \in Timed \cap activeTasks
    /\ phase = "up" /\ assigned[t] # NoThread
    /\ activeTasks' = activeTasks \ {t}
    /\ assigned' = [assigned EXCEPT ![t] = NoThread]
    /\ pending' = pending \ {t}
    /\ UNCHANGED <<workers, thread, inbox, taskQueue, restartVars, stopVars>>
TaskTimesOut(t) ==
    /\ t \in Timed \cap activeTasks
    /\ phase = "up"                   \* shutdown() clears the timeouts
    /\ activeTasks' = activeTasks \ {t}
    /\ assigned' = [assigned EXCEPT ![t] = NoThread]
    /\ pending' = pending \ {t}
    /\ UNCHANGED <<workers, thread, inbox, taskQueue, restartVars, stopVars>>

\* A worker's answer, which may still be delivered after its 'error': whatever it
\* says, the restart budget is whole again.  The answer to a task without an entry
\* is dropped and hands out nothing.
HandleWorkerResult(w, t) ==
    /\ thread[w] \in {"live", "failed"} /\ t \in inbox[w]
    /\ restartAttempts' = 0
    /\ LET box == [inbox EXCEPT ![w] = @ \ {t}]
       IN  IF t \notin activeTasks
           THEN /\ inbox' = box
                /\ UNCHANGED <<taskQueue, activeTasks, assigned, pending>>
           ELSE /\ activeTasks' = activeTasks \ {t}
                /\ pending' = pending \ {t}
                /\ ProcessQueue(taskQueue, activeTasks', box)
    /\ UNCHANGED <<workers, thread, restartTimers, poolFailed, stopVars>>

-----------------------------------------------------------------------------
\* The promises of S are settled and their entries deleted.
Settle(S) ==
    /\ activeTasks' = activeTasks \ S
    /\ pending' = pending \ S
    /\ assigned' = [t \in Tasks |-> IF t \in S THEN NoThread ELSE assigned[t]]

\* scheduleRestart(), with S rejected before it and n timers set: beyond the
\* budget, failPool() rejects every task and clears the queue.
ScheduleRestart(n, S) ==
    LET givesUp == ~poolFailed /\ restartAttempts >= MaxRestarts
    IN  /\ restartAttempts' = IF poolFailed THEN restartAttempts ELSE restartAttempts + 1
        /\ poolFailed' = (poolFailed \/ givesUp)
        /\ restartTimers' = IF poolFailed' THEN n ELSE n + 1
        /\ Settle(IF givesUp THEN Tasks ELSE S)
        /\ taskQueue' = IF givesUp THEN << >> ELSE taskQueue

\* handleWorkerFailure(), for the first event of a worker only.  The id of a
\* thread that has ended is -1: its entry then stays in the table.
HandleWorkerFailureForAll(w, hasId) ==  \* mutant
    /\ workers' = IF hasId THEN RemoveAt(workers, PlaceOf(w)) ELSE workers
    /\ IF phase = "up" THEN ScheduleRestart(restartTimers, activeTasks)
       ELSE UNCHANGED <<restartVars, taskQueue, activeTasks, assigned, pending>>
HandleWorkerFailure(w, hasId) ==
    /\ workers' = IF hasId THEN RemoveAt(workers, PlaceOf(w)) ELSE workers
    /\ IF phase = "up"
       THEN ScheduleRestart(restartTimers, {t \in activeTasks : assigned[t] = w})
       ELSE UNCHANGED <<restartVars, taskQueue, activeTasks, assigned, pending>>

\* 'error': the thread threw (it still has its id) or ran out of memory.
WorkerError(w) ==
    /\ thread[w] = "live"
    /\ \E hasId \in BOOLEAN : HandleWorkerFailure(w, hasId)
    /\ thread' = [thread EXCEPT ![w] = "failed"]
    /\ UNCHANGED <<inbox, stopVars>>

\* 'exit' after 'error': the failure has been handled.
WorkerExitTwice(w) ==  \* mutant
    /\ thread[w] = "failed"
    /\ thread' = [thread EXCEPT ![w] = IF InTable(w) THEN "ended" ELSE "free"]
    /\ awaiting' = awaiting \ {w}
    /\ inbox' = [inbox EXCEPT ![w] = {}]
    /\ HandleWorkerFailure(w, FALSE)
    /\ UNCHANGED phase
WorkerExitUnheard(w) ==  \* mutant
    /\ thread[w] = "failed"
    /\ thread' = [thread EXCEPT ![w] = IF InTable(w) THEN "ended" ELSE "free"]
    /\ inbox' = [inbox EXCEPT ![w] = {}]
    /\ UNCHANGED <<workers, taskQueue, activeTasks, assigned, pending, restartVars, stopVars>>
WorkerExit(w) ==
    /\ thread[w] = "failed"
    /\ thread' = [thread EXCEPT ![w] = IF InTable(w) THEN "ended" ELSE "free"]
    /\ inbox' = [inbox EXCEPT ![w] = {}]
    /\ awaiting' = awaiting \ {w}
    /\ UNCHANGED <<workers, taskQueue, activeTasks, assigned, pending, restartVars, phase>>

\* 'exit' with a code other than 0 and no 'error' before it.
WorkerDies(w) ==
    /\ thread[w] = "live" /\ phase = "up"
    /\ HandleWorkerFailure(w, FALSE)
    /\ thread' = [thread EXCEPT ![w] = "ended"]
    /\ inbox' = [inbox EXCEPT ![w] = {}]
    /\ UNCHANGED stopVars

\* 'exit' with code 0, or of a worker shutdown() terminates: nothing is done.
WorkerQuits(w) ==
    /\ thread[w] = "live"
    /\ thread' = [thread EXCEPT ![w] = IF phase = "up" THEN "quit" ELSE "ended"]
    /\ inbox' = [inbox EXCEPT ![w] = {}]
    /\ awaiting' = awaiting \ {w}
    /\ UNCHANGED <<workers, taskQueue, activeTasks, assigned, pending, restartVars, phase>>

\* A restart timer fires: createWorker(), which starts a thread or fails to.
RestartFires ==
    /\ restartTimers > 0
    /\ IF poolFailed \/ phase # "up"
       THEN /\ restartTimers' = restartTimers - 1
            /\ UNCHANGED <<workers, thread, taskVars, restartAttempts, poolFailed>>
       ELSE \/ \E w \in Threads :
                 /\ thread[w] = "free"
                 /\ thread' = [thread EXCEPT ![w] = "live"]
                 /\ workers' = Append(workers, w)
                 /\ restartTimers' = restartTimers - 1
                 /\ UNCHANGED <<taskVars, restartAttempts, poolFailed>>
            \/ /\ ScheduleRestart(restartTimers - 1, {})
               /\ UNCHANGED <<workers, thread, inbox>>
    /\ UNCHANGED stopVars

\* shutdown() up to its await, and what follows it.
Shutdown ==
    /\ phase = "up" /\ phase' = "stopping"
    /\ restartTimers' = 0
    /\ pending' = pending \ activeTasks
    /\ awaiting' = {w \in Threads : InTable(w)}
    /\ UNCHANGED <<workers, thread, inbox, taskQueue, activeTasks, assigned,
                   restartAttempts, poolFailed>>

ShutdownReturns ==
    /\ phase = "stopping" /\ awaiting = {}
    /\ phase' = "down"
    /\ workers' = << >> /\ taskQueue' = << >> /\ activeTasks' = {}
    /\ assigned' = [t \in Tasks |-> NoThread]
    /\ UNCHANGED <<thread, inbox, pending, restartVars, awaiting>>

-----------------------------------------------------------------------------
Next ==
    \/ \E t \in Tasks : ExecuteTask(t) \/ TaskTimesOut(t)
    \/ \E w \in Threads, t \in Tasks : HandleWorkerResult(w, t)
    \/ \E w \in Threads : \/ WorkerError(w) \/ WorkerExit(w)
                          \/ WorkerDies(w) \/ WorkerQuits(w)
    \/ RestartFires \/ Shutdown \/ ShutdownReturns

Spec == Init /\ [][Next]_vars

\* Timers fire; a thread that has thrown or is terminated exits; nothing says
\* that a task is ever answered.
Fairness ==
    /\ \A t \in Tasks : WF_vars(TaskTimesOut(t))
    /\ \A w \in Threads : WF_vars(WorkerExit(w)) /\ WF_vars(phase # "up" /\ WorkerQuits(w))
    /\ WF_vars(RestartFires) /\ WF_vars(ShutdownReturns)
FairSpec == Spec /\ Fairness

-----------------------------------------------------------------------------
\* The range of every variable; the table holds no thread twice and the budget
\* of restarts is respected.
TypeOK ==
    /\ workers \in Seq(Threads)
    /\ \A i, j \in DOMAIN workers : workers[i] = workers[j] => i = j
    /\ thread \in [Threads -> {"free", "live", "failed", "ended", "quit"}]
    /\ inbox \in [Threads -> SUBSET Tasks]
    /\ taskQueue \in Seq(Tasks)
    /\ activeTasks \subseteq Tasks /\ pending \subseteq Tasks
    /\ assigned \in [Tasks -> Threads \cup {NoThread}]
    /\ restartTimers \in Nat
    /\ restartAttempts \in 0..MaxRestarts + 1
    /\ poolFailed \in BOOLEAN
    /\ phase \in {"up", "stopping", "down"}
    /\ awaiting \subseteq Threads

\* However workers crash, and although a crash is announced by two events, the
\* running threads, those about to be restarted and those that left with code 0
\* are as many as the constructor started, until the pool fails or is stopped.
CapacityKept ==
    phase = "up" /\ ~poolFailed =>
        Cardinality({w \in Threads : thread[w] \in {"live", "quit"}}) + restartTimers
            = Len(First)

\* A task is never forgotten: while it has an entry it is queued, or at work in
\* a live thread, or was posted to a dead one that is still in the table.
NoTaskForgotten ==
    phase = "up" => \A t \in activeTasks :
        \/ \E i \in DOMAIN taskQueue : taskQueue[i] = t
        \/ \E w \in Threads : thread[w] = "live" /\ t \in inbox[w] /\ assigned[t] = w
        \/ \E w \in Threads : InTable(w) /\ thread[w] # "live" /\ assigned[t] = w

\* A pool that has failed, or that is stopping, leaves no promise unsettled.
ClosedMeansSettled == poolFailed \/ phase # "up" => pending = {}

\* A crash rejects no task that another worker is working on.
CrashIsIsolated ==
    [][\A w \in Threads : thread[w] = "live" /\ thread'[w] \in {"failed", "ended"}
         => \/ poolFailed'
            \/ \A v \in Threads \ {w} : (inbox[v] \cap pending) \subseteq pending']_vars

\* A task with a timeout is settled, whatever its worker does.
TimedTasksSettle == \A t \in Timed : t \in pending ~> t \notin pending

\* shutdown() returns, unless the table held a thread that had already ended.
StopEnds ==
    (phase = "stopping" /\ \A w \in awaiting : thread[w] \in {"live", "failed"})
        ~> (phase = "down")
=============================================================================
