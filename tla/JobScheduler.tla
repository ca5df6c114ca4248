---------------------------- MODULE JobScheduler ----------------------------
(***************************************************************************)
(* The job scheduler of src/core/jobs/job-scheduler.ts: timers, the        *)
(* concurrency limits, the pending queue, executions in flight, leadership *)
(* events and the graceful shutdown.                                       *)
(*                                                                         *)
(* JavaScript runs a handler up to its first await in one piece, so an     *)
(* action is such a piece: the synchronous start of executeJob, what       *)
(* follows an awaited hook or the executor, and the finally block together *)
(* with the drain of the pending queue it ends with.                       *)
(*                                                                         *)
(* Job j stands for one Job object: an id registerJob returns is never     *)
(* returned again, and closures keep the object after its removal.         *)
(* Executions are slots of Execs.  Times are ticks left: nextRun = 0 is    *)
(* overdue, and a timer at 0 is due to fire.                               *)
(***************************************************************************)
EXTENDS Integers, Sequences, FiniteSets

CONSTANTS
    Jobs,               \* job objects
    Execs,              \* slots for executions in flight
    None,               \* the job of a free slot
    OneTime,            \* the jobs whose schedule.type is "oneTime"
    Period,             \* ticks from now to the run calculateNextRun returns
    Priority,           \* job.priority
    MaxConcurrent,      \* options.maxConcurrent of each job
    MaxConcurrentJobs,  \* the scheduler's global limit
    MaxTimeout,         \* MAX_TIMEOUT, in ticks
    UseElection,        \* enableLeaderElection
    Requests,           \* the API calls and failures this instance allows
    MaxPending          \* bound: longest pending queue explored

ASSUME SchedulerAssumption ==
    /\ IsFiniteSet(Jobs) /\ IsFiniteSet(Execs)
    /\ None \notin Jobs
    /\ OneTime \subseteq Jobs
    /\ Period \in [Jobs -> Nat \ {0}]
    /\ Priority \in [Jobs -> Nat]
    /\ MaxConcurrent \in [Jobs -> Nat \ {0}]
    /\ MaxConcurrentJobs \in Nat \ {0}
    /\ MaxTimeout \in Nat \ {0}
    /\ UseElection \in BOOLEAN
    /\ MaxPending \in Nat

VARIABLES
    jobs,        \* this.jobs: the ids registered now
    created,     \* the ids registerJob has ever returned
    states,      \* the ids the state manager knows
    enabled,     \* job.enabled
    nextRun,     \* job.nextRun, as ticks left
    timer,       \* job.timer, as ticks left; Off when there is none
    pending,     \* pendingQueue (its execution ids are fresh and left out)
    current,     \* currentConcurrentJobs
    conc,        \* job.concurrentExecutions
    exec,        \* each slot's execution: its job, stage and origin
    started,     \* this.started
    phase,       \* how far shutdown() is; isShuttingDown is phase # "up"
    leader,      \* isLeader()
    stepping     \* a stepDown() is under way; "leader:stepdown" follows

jobVars    == <<jobs, created, states>>
runVars    == <<pending, current, conc, exec>>
statusVars == <<started, phase, leader, stepping>>
vars == <<jobVars, enabled, nextRun, timer, runVars, statusVars>>

Off  == -1
Idle == [job |-> None, stage |-> "idle", by |-> "timer"]

Live(ex)      == {e \in Execs : ex[e] # Idle}
Free(ex)      == Execs \ Live(ex)
LiveOf(ex, j) == {e \in Execs : ex[e].job = j}
\* The executions the scheduler itself started.
Scheduled(ex) == {e \in Live(ex) : ex[e].by = "timer"}

-----------------------------------------------------------------------------
\* setTimeout of scheduleJob: the delay capped at MAX_TIMEOUT.
Delay(n) == IF n < MaxTimeout THEN n ELSE MaxTimeout

\* The two limits, given the number running and the number of j running.
RoomForOneMore(j, cur, n) ==  \* mutant
    cur <= MaxConcurrentJobs /\ n <= MaxConcurrent[j]
Room(j, cur, n) == cur < MaxConcurrentJobs /\ n < MaxConcurrent[j]

\* The finally block's rescheduling of the jobs in F, from timers tm and
\* enabled flags en.
Rearm(F, tm, en) ==
    /\ nextRun' = [j \in Jobs |->
         IF j \in F \ OneTime THEN Period[j] ELSE nextRun[j]]
    /\ timer' = [j \in Jobs |->
         IF j \in F \ OneTime /\ en[j] /\ leader
         THEN Delay(Period[j]) ELSE tm[j]]
    /\ enabled' = [j \in Jobs |-> en[j] /\ j \notin F \cap OneTime]

\* new assigns jobs to free slots: the slots of job j, and their executions
\* beginning.
SlotsOf(new, j) == {e \in DOMAIN new : new[e] = j}
Begin(ex, new, by) ==
    [e \in Execs |-> IF e \in DOMAIN new
                     THEN [job |-> new[e], stage |-> "starting", by |-> by]
                     ELSE ex[e]]

\* The state after the slots of new, a function to jobs, begin executing.
Start(cur, cnc, ex, new) ==
    /\ current' = cur + Cardinality(DOMAIN new)
    /\ conc' = [j \in Jobs |-> cnc[j] + Cardinality(SlotsOf(new, j))]
    /\ exec' = Begin(ex, new, "timer")

-----------------------------------------------------------------------------
\* processPendingQueue, entered with cur running in all and cnc[j] of job j.
\* Array.prototype.sort by falling priority, which is stable: item i of s was
\* item pi[i] of q.
IsRisingSortOf(s, q) ==  \* mutant
    \E pi \in [DOMAIN q -> DOMAIN q] :
      /\ {pi[i] : i \in DOMAIN q} = DOMAIN q
      /\ \A i \in DOMAIN q : s[i] = q[pi[i]]
      /\ \A i, k \in DOMAIN q : i < k =>
           \/ Priority[s[i]] < Priority[s[k]]
           \/ Priority[s[i]] = Priority[s[k]] /\ pi[i] < pi[k]
IsSortOf(s, q) ==
    \E pi \in [DOMAIN q -> DOMAIN q] :
      /\ {pi[i] : i \in DOMAIN q} = DOMAIN q
      /\ \A i \in DOMAIN q : s[i] = q[pi[i]]
      /\ \A i, k \in DOMAIN q : i < k =>
           \/ Priority[s[i]] > Priority[s[k]]
           \/ Priority[s[i]] = Priority[s[k]] /\ pi[i] < pi[k]

\* How many executions of j, or in all, the first n items start: an item whose
\* job the state manager no longer knows fails in startExecution at once.
StartsOf(s, n, j) == Cardinality({i \in 1..n : s[i] = j /\ j \in states})
StartsIn(s, n)    == Cardinality({i \in 1..n : s[i] \in states})

Taken(s, i, cur, cnc) ==
    Room(s[i], cur + StartsIn(s, i - 1), cnc[s[i]] + StartsOf(s, i - 1, s[i]))

\* The loop takes items from the front until one has no room.
TakesNone(s, n, cur, cnc) == n = 0  \* mutant
Takes(s, n, cur, cnc) ==
    /\ \A i \in 1..n : Taken(s, i, cur, cnc)
    /\ n < Len(s) => ~Taken(s, n + 1, cur, cnc)

\* The finally block of an execution of j, from the given counters, slots and
\* timers: reschedule, then drain.  Items that fail at once run their own
\* finally block inside the drain.
Settle(j, tm, en, cur, cnc, ex) ==
    \E s \in [1..Len(pending) -> Jobs], n \in 0..Len(pending) :
      /\ IsSortOf(s, pending)
      /\ Takes(s, n, cur, cnc)
      /\ pending' = SubSeq(s, n + 1, Len(s))
      /\ Rearm({j} \cup ({s[i] : i \in 1..n} \ states), tm, en)
      /\ \E S \in SUBSET Free(ex) : \E new \in [S -> Jobs] :
           /\ \A k \in Jobs : Cardinality(SlotsOf(new, k)) = StartsOf(s, n, k)
           /\ Cardinality(S) = StartsIn(s, n)
           /\ Start(cur, cnc, ex, new)

-----------------------------------------------------------------------------
\* executeJob of j up to its first await, timers being tm and enabled flags en.
ExecuteJob(j, tm, en, by) ==
    IF j \in states
    THEN /\ \E e \in Free(exec) :
              exec' = [exec EXCEPT ![e] =
                         [job |-> j, stage |-> "starting", by |-> by]]
         /\ current' = current + 1
         /\ conc' = [conc EXCEPT ![j] = @ + 1]
         /\ timer' = tm
         /\ enabled' = en
         /\ UNCHANGED <<pending, nextRun>>
    ELSE Settle(j, tm, en, current, conc, exec)

QueueJobExecution(j, tm, en) ==
    IF Room(j, current, conc[j])
    THEN ExecuteJob(j, tm, en, "timer")
    ELSE /\ Len(pending) < MaxPending
         /\ pending' = Append(pending, j)
         /\ timer' = tm
         /\ enabled' = en
         /\ UNCHANGED <<current, conc, exec, nextRun>>

\* scheduleJob: an overdue job is queued for execution at once, running or not.
ScheduleJobUnchained(j, en) ==  \* mutant
    IF nextRun[j] = 0
    THEN QueueJobExecution(j, [timer EXCEPT ![j] = Off], en)
    ELSE /\ timer' = [timer EXCEPT ![j] = Off]
         /\ enabled' = en
         /\ UNCHANGED <<nextRun, runVars>>
ScheduleJobIfAhead(j, en) ==  \* mutant
    /\ timer' = [timer EXCEPT ![j] = IF nextRun[j] = 0 THEN Off ELSE Delay(nextRun[j])]
    /\ enabled' = en
    /\ UNCHANGED <<nextRun, runVars>>
ScheduleJob(j, en) ==
    IF nextRun[j] = 0
    THEN QueueJobExecution(j, [timer EXCEPT ![j] = Off], en)
    ELSE /\ timer' = [timer EXCEPT ![j] = Delay(nextRun[j])]
         /\ enabled' = en
         /\ UNCHANGED <<nextRun, runVars>>

\* scheduleJob for every enabled job.  The overdue ones are queued for
\* execution in registration order, which is left open: those with room start,
\* up to the global limit, and the others wait.
ScheduleAllJobs ==
    LET due  == {j \in jobs : enabled[j] /\ nextRun[j] = 0}
        able == {j \in due : conc[j] < MaxConcurrent[j]}
    IN  /\ timer' = [j \in Jobs |->
             IF j \in jobs /\ enabled[j]
             THEN IF nextRun[j] = 0 THEN Off ELSE Delay(nextRun[j])
             ELSE timer[j]]
        /\ \E S \in SUBSET Free(exec) : \E new \in [S -> able] :
             LET begun == {new[e] : e \in S}
             IN  /\ \A e, f \in S : new[e] = new[f] => e = f
                 /\ begun # able =>
                      current + Cardinality(S) >= MaxConcurrentJobs
                 /\ S # {} => current + Cardinality(S) <= MaxConcurrentJobs
                 /\ Start(current, conc, exec, new)
                 /\ \E q \in [1..Cardinality(due \ begun) -> due \ begun] :
                      /\ {q[i] : i \in DOMAIN q} = due \ begun
                      /\ Len(pending) + Len(q) <= MaxPending
                      /\ pending' = pending \o q
        /\ UNCHANGED <<nextRun, enabled>>

-----------------------------------------------------------------------------
Init ==
    /\ jobs = {} /\ created = {} /\ states = {}
    /\ enabled = [j \in Jobs |-> FALSE]
    /\ nextRun = Period
    /\ timer = [j \in Jobs |-> Off]
    /\ pending = << >>
    /\ current = 0
    /\ conc = [j \in Jobs |-> 0]
    /\ exec = [e \in Execs |-> Idle]
    /\ started = FALSE
    /\ phase = "up"
    /\ leader = ~UseElection
    /\ stepping = FALSE

\* Assumption: once it has called shutdown(), the application makes no call
\* that changes the scheduler but triggerJob.
InUse == phase = "up"

\* start(); with leader election it only begins the election.
StartScheduler ==
    /\ InUse /\ ~started
    /\ started' = TRUE
    /\ IF UseElection
       THEN UNCHANGED <<enabled, nextRun, timer, runVars>>
       ELSE ScheduleAllJobs
    /\ UNCHANGED <<jobVars, phase, leader, stepping>>

RegisterJob(j, on) ==
    /\ InUse /\ j \notin created
    /\ jobs' = jobs \cup {j}
    /\ created' = created \cup {j}
    /\ states' = states \cup {j}
    /\ enabled' = [enabled EXCEPT ![j] = on]
    /\ nextRun' = [nextRun EXCEPT ![j] = Period[j]]
    /\ timer' = IF started /\ leader /\ on
                THEN [timer EXCEPT ![j] = Delay(Period[j])] ELSE timer
    /\ UNCHANGED <<runVars, statusVars>>

UnregisterJob(j) ==
    /\ "unregister" \in Requests /\ InUse
    /\ j \in jobs
    /\ timer' = [timer EXCEPT ![j] = Off]
    /\ jobs' = jobs \ {j}
    /\ states' = states \ {j}
    /\ UNCHANGED <<created, enabled, nextRun, runVars, statusVars>>

SetJobEnabled(j, on) ==
    /\ "enable" \in Requests /\ InUse
    /\ j \in jobs
    /\ LET en == [enabled EXCEPT ![j] = on]
       IN  IF on /\ started /\ leader
           THEN ScheduleJob(j, en)
           ELSE /\ timer' = IF on THEN timer ELSE [timer EXCEPT ![j] = Off]
                /\ enabled' = en
                /\ UNCHANGED <<nextRun, runVars>>
    /\ UNCHANGED <<jobVars, statusVars>>

\* triggerJob runs the job whatever the limits say; while the scheduler closes,
\* the state manager may no longer know it.
TriggerJob(j) ==
    /\ "trigger" \in Requests
    /\ j \in jobs
    /\ ExecuteJob(j, timer, enabled, "trigger")
    /\ UNCHANGED <<jobVars, statusVars>>

\* The callback of the job's timer: the closure knows the Job object, removed
\* or not.  A timer capped at MAX_TIMEOUT finds the run still ahead and is set
\* again.
TimerFires(j) ==
    /\ timer[j] = 0
    /\ ScheduleJob(j, enabled)
    /\ UNCHANGED <<jobVars, statusVars>>

Tick ==
    /\ nextRun' = [j \in Jobs |-> IF nextRun[j] > 0 THEN nextRun[j] - 1 ELSE 0]
    /\ timer' = [j \in Jobs |-> IF timer[j] > 0 THEN timer[j] - 1 ELSE timer[j]]
    /\ UNCHANGED <<jobVars, enabled, runVars, statusVars>>

-----------------------------------------------------------------------------
\* The later pieces of executeJob, for the execution in slot e.

\* JobExecutor.execute throws once it is shutting down.
ExecutorDown == phase \in {"closing", "down"}

\* onStart settled: the executor accepts the execution.
Execute(e) ==
    /\ exec[e].stage = "starting" /\ ~ExecutorDown
    /\ exec' = [exec EXCEPT ![e].stage = "executing"]
    /\ UNCHANGED <<jobVars, enabled, nextRun, timer, pending, current, conc,
                   statusVars>>

\* The executor returned: the execution's record is ended and its onComplete or
\* onError hook awaited.
EndExecution(e) ==
    /\ exec[e].stage = "executing"
    /\ exec' = [exec EXCEPT ![e].stage = "ending"]
    /\ UNCHANGED <<jobVars, enabled, nextRun, timer, pending, current, conc,
                   statusVars>>

\* The finally block.
FinallyKeepingJobCount(e) ==  \* mutant
    Settle(exec[e].job, timer, enabled, current - 1, conc,
           [exec EXCEPT ![e] = Idle])
Finally(e) ==
    LET j == exec[e].job
    IN  Settle(j, timer, enabled, current - 1, [conc EXCEPT ![j] = @ - 1],
               [exec EXCEPT ![e] = Idle])

Finish(e) ==
    /\ exec[e].stage = "ending"
    /\ Finally(e)
    /\ UNCHANGED <<jobVars, statusVars>>

\* onStart or execute() throws: nobody ends the record of the execution.
Abandon(e) ==
    /\ exec[e].stage = "starting"
    /\ ExecutorDown \/ "throw" \in Requests
    /\ Finally(e)
    /\ UNCHANGED <<jobVars, statusVars>>

-----------------------------------------------------------------------------
\* Leadership, as the election reports it.

\* becomeLeader sets isLeader and emits "leader:elected".  Assumption: the two
\* file operations of a stepDown() settle before the instance's next successful
\* acquisition, which takes more of them.
Elected ==
    /\ UseElection /\ started
    /\ phase \in {"up", "draining"}
    /\ ~leader /\ ~stepping
    /\ leader' = TRUE
    /\ ScheduleAllJobs
    /\ UNCHANGED <<jobVars, started, phase, stepping>>

\* stepDown clears isLeader, then awaits the release of the lock.
StepDownBegins ==
    /\ UseElection /\ "stepdown" \in Requests
    /\ leader
    /\ leader' = FALSE
    /\ stepping' = TRUE
    /\ UNCHANGED <<jobVars, enabled, nextRun, timer, runVars, started, phase>>

\* The lock is released: "leader:stepdown" unschedules every job.
SteppedDown ==
    /\ stepping
    /\ stepping' = FALSE
    /\ timer' = [j \in Jobs |-> IF j \in jobs THEN Off ELSE timer[j]]
    /\ UNCHANGED <<jobVars, enabled, nextRun, runVars, started, phase,
                   leader>>

-----------------------------------------------------------------------------
\* shutdown().

BeginShutdown ==
    /\ "shutdown" \in Requests /\ phase = "up"
    /\ phase' = "draining"
    /\ timer' = [j \in Jobs |-> IF j \in jobs THEN Off ELSE timer[j]]
    /\ pending' = << >>
    /\ UNCHANGED <<jobVars, enabled, nextRun, current, conc, exec,
                   started, leader, stepping>>

\* The wait ends with nothing running, or with the graceful timeout, which may
\* come at any time; executor, state manager and election shut down together.
\* The election steps a leader down; one that is not leading drops its listeners
\* at once, with the event of a stepDown() still under way.
EndDrain ==
    /\ phase = "draining"
    /\ phase' = "closing"
    /\ leader' = (leader /\ ~UseElection)
    /\ stepping' = (leader /\ UseElection)
    /\ UNCHANGED <<jobVars, enabled, nextRun, timer, runVars, started>>

\* The state manager has persisted and clears its maps.
CloseStateManager ==
    /\ phase = "closing"
    /\ states # {}
    /\ states' = {}
    /\ UNCHANGED <<jobs, created, enabled, nextRun, timer, runVars, statusVars>>

EndShutdown ==
    /\ phase = "closing" /\ states = {} /\ ~stepping
    /\ phase' = "down"
    /\ started' = FALSE
    /\ jobs' = {}
    /\ pending' = << >>
    /\ UNCHANGED <<created, states, enabled, nextRun, timer, current, conc,
                   exec, leader, stepping>>

-----------------------------------------------------------------------------
Step(e) == Execute(e) \/ EndExecution(e) \/ Finish(e) \/ Abandon(e)

Next ==
    \/ StartScheduler
    \/ \E j \in Jobs, on \in BOOLEAN : RegisterJob(j, on) \/ SetJobEnabled(j, on)
    \/ \E j \in Jobs : UnregisterJob(j) \/ TriggerJob(j) \/ TimerFires(j)
    \/ Tick
    \/ \E e \in Execs : Step(e)
    \/ Elected \/ StepDownBegins \/ SteppedDown
    \/ BeginShutdown \/ EndDrain \/ CloseStateManager \/ EndShutdown

Spec == Init /\ [][Next]_vars

\* Timers fire, and hooks and the executor settle (it times every job out).
Fairness ==
    /\ WF_vars(Tick)
    /\ \A j \in Jobs : WF_vars(TimerFires(j))
    /\ \A e \in Execs : WF_vars(Step(e))

FairSpec == Spec /\ Fairness

-----------------------------------------------------------------------------
Execution == [job : Jobs, stage : {"starting", "executing", "ending"},
              by : {"timer", "trigger"}]

TypeOK ==
    /\ jobs \subseteq created /\ created \subseteq Jobs /\ states \subseteq Jobs
    /\ enabled \in [Jobs -> BOOLEAN]
    /\ nextRun \in [Jobs -> Nat]
    /\ timer \in [Jobs -> Nat \cup {Off}]
    /\ pending \in Seq(Jobs)
    /\ current \in Int
    /\ conc \in [Jobs -> Int]
    /\ exec \in [Execs -> Execution \cup {Idle}]
    /\ started \in BOOLEAN
    /\ phase \in {"up", "draining", "closing", "down"}
    /\ leader \in BOOLEAN /\ stepping \in BOOLEAN

\* Every path out of executeJob (a hook that throws, an executor that refuses,
\* a job unknown to the state manager, the end of the hooks) gives back what it
\* took: the counters always equal the executions in flight.  A leak would
\* lower the limits for ever, a double release would lift them.
CountersMatch ==
    /\ current = Cardinality(Live(exec))
    /\ \A j \in Jobs : conc[j] = Cardinality(LiveOf(exec, j))

\* The queue is only drained when an execution finishes.  So whatever is queued
\* has an execution in flight that will drain it: the loop of
\* processPendingQueue never stops with an item that could run and nothing
\* left to come back for it.
NoStrandedItem == pending # << >> => current > 0

\* Of the executions the scheduler starts itself, no more are in flight than
\* the global limit, nor of one job than its own, even though manual triggers
\* take part in the same counters without asking.
ScheduledWithinLimits ==
    /\ Cardinality(Scheduled(exec)) <= MaxConcurrentJobs
    /\ \A j \in Jobs :
         Cardinality(Scheduled(exec) \cap LiveOf(exec, j)) <= MaxConcurrent[j]

\* An enabled job of a started leader is never forgotten: its timer is set, or
\* it waits in the queue, or an execution in flight will reschedule it; whatever
\* the order of registration, enabling, triggers, failures and elections.
NoLostJob ==
    phase = "up" /\ started /\ leader =>
      \A j \in jobs :
        enabled[j] => \/ timer[j] # Off
                      \/ \E i \in DOMAIN pending : pending[i] = j
                      \/ conc[j] > 0

\* A drain starts the most urgent items: none that stays behind in the queue
\* ranks above one that was taken.
DrainByPriority ==
    [][Len(pending') < Len(pending) =>
         \A e \in Scheduled(exec') \ Scheduled(exec), i \in DOMAIN pending' :
           Priority[pending'[i]] <= Priority[exec'[e].job]]_vars

\* Sorting by priority at every drain starves: more urgent jobs than there are
\* slots are enough, since one of them is in the queue again whenever a slot comes
\* free, and a less urgent item behind them is never taken.  What the scheduler does
\* for the other jobs, as long as timers alone make jobs due:
Outranking(j) == {k \in Jobs : Priority[k] > Priority[j]}
Unrivalled == {j \in Jobs : Cardinality(Outranking(j)) <= MaxConcurrentJobs}

\* Every enabled job of a running scheduler that no more jobs outrank than there
\* are slots executes again and again, whatever those do, also when its run lies
\* several MAX_TIMEOUTs ahead and its timer has to be chained.
JobsKeepRunning ==
    \A j \in Unrivalled \ OneTime :
      started /\ j \in jobs /\ enabled[j] ~> conc[j] > 0

\* Whatever such a job has in the queue runs in the end, past more urgent jobs
\* that come back to it, others of its own priority, and an item at the front that
\* has to wait for its own job.
QueuedJobsRun ==
    \A j \in Unrivalled :
      (\E i \in DOMAIN pending : pending[i] = j) ~> conc[j] > 0
=============================================================================
