# Formal verification of MoroJS

MoroJS is a TypeScript web framework for Node.js. Around its HTTP servers and
routers it carries a number of subsystems that keep state, run timers and wait
for files, brokers, worker threads and user code: a job scheduler with leader
election, queues, a worker pool, a dependency container, sessions, rate limits,
a circuit breaker, service discovery. This directory holds TLA+ models of those
subsystems, the TLC configurations that check them, and proofs checked by TLAPS.

Everything runs in one JavaScript thread per process, so the hard behaviour is
not parallel memory access. It is what happens between two `await`s: a handler
reads state, waits, and acts on what it read; a timer closure outlives the object
it was set for; a promise nobody waits for any more settles late; two processes
share a file. The models cut each handler at its awaits, one action per piece.

Source paths are relative to `src/`, the repository.

## Contents

- [Where things are](#where-things-are)
- [Inventory](#inventory)
- [Circuit breaker](#circuit-breaker)
- [Job scheduler](#job-scheduler)
- [Leader election](#leader-election)
- [Job executor](#job-executor)
- [Job state manager](#job-state-manager)
- [Worker pool](#worker-pool)
- [In-memory queue](#in-memory-queue)
- [Request pipeline](#request-pipeline)
- [Sessions](#sessions)
- [Runs](#runs)
- [Where the code and its documentation disagree](#where-the-code-and-its-documentation-disagree)
- [Proofs](#proofs)
- [Not modelled](#not-modelled)
- [What could follow](#what-could-follow)

## Where things are

| Module | Models | Checked by | Proved in |
|---|---|---|---|
| `CircuitBreaker`, `CircuitBreakerTrips` | `src/core/utilities/circuit-breaker.ts` | `MCCircuitBreaker.cfg` | `CircuitBreaker_proofs` |
| `JobScheduler` | `src/core/jobs/job-scheduler.ts` | `MCJobScheduler*.cfg` | `JobScheduler_proofs` |
| `LeaderElection` | `src/core/jobs/leader-election.ts`, file strategy | `MCLeaderElection*.cfg` | `LeaderElection_proofs` |
| `JobStateManager` | `src/core/jobs/job-state-manager.ts` | `MCJobStateManager.cfg` | `JobStateManager_proofs` |
| `WorkerPool` | `src/core/workers/worker-manager.ts` | `MCWorkerPool.cfg` | `WorkerPool_proofs` |
| `MemoryQueue` (implements `JobLifecycle`) | `src/core/queue/adapters/memory-adapter.ts` | `MCMemoryQueue.cfg` | `MemoryQueue_proofs` |
| `Requests` | `src/core/http/http-server.ts`, `src/core/routing/unified-router.ts`, the way of a request | `MCRequests.cfg` | `Requests_proofs` |
| `Sessions` | `src/core/middleware/built-in/session/` | `MCSessions.cfg` | `Requests_proofs` |
| `JobExecutor` (instantiates `CircuitBreaker`) | `src/core/jobs/job-executor.ts` | `MCJobExecutor.cfg` | `JobExecutor_proofs` |

Each `MCx` module EXTENDS `x` and names the values its configurations give the
constants. `PROJECT.json` lists the runs, the source lines behind every
definition (`map`), the hazards of the code with the properties that watch them,
the mutants (a plausible mistake in one definition for each property, which the
property must catch: the definitions commented `\* mutant`), and the theorems.

To check a run or a proof:

    tlc -config MCJobScheduler.cfg MCJobScheduler
    tlapm JobScheduler_proofs.tla

## Inventory

The components that keep state, what can go wrong in them, and where they stand.

| Component | State | Operations | Hard behaviour | What makes it correct | Here |
|---|---|---|---|---|---|
| Circuit breaker (`utilities/circuit-breaker.ts`) | state, failure count, failure stamps, last failure | `execute`, `recordSuccess`/`recordFailure`, `reset` | results of calls admitted in an earlier state | no closed breaker with a tripped count; no call in the cool-down of a trip that nothing ended; OPEN is left | modelled |
| Job scheduler (`jobs/job-scheduler.ts`) | jobs, timers, pending queue, two concurrency counters, flags | `start`, `registerJob`, `unregisterJob`, `setJobEnabled`, `triggerJob`, timers, `shutdown` | stale closures, re-entry from `finally`, failures between start and end | counters never leak, limits hold, no job is forgotten, one that few enough outrank keeps running | modelled |
| Leader election (`jobs/leader-election.ts`) | lock file; per instance role, timers, operations under way | periodic check, heartbeat, step down, shutdown | read-then-write on a file shared by processes, crashes | leaders only split over an abandoned lock, a split heals, fail-over unless the lock is empty | file strategy modelled |
| Job executor (`jobs/job-executor.ts`) | executions, a breaker per job | `execute`, `cancelExecution`, `resetCircuitBreaker`, `shutdown` | timed-out attempts that keep running, retries, cancellation while asleep | every execution settles; outcomes are recorded as a breaker would; cancelled work does not start | modelled |
| Job state manager (`jobs/job-state-manager.ts`) | job states, running executions, dirty flag, file | `startExecution`, `endExecution`, `persistState`, `loadState`, `shutdown` | changes during a save, overlapping saves, a load racing both, crash | the file is whole; what is clean is on disk; recovery is exact | modelled |
| Worker pool (`workers/worker-manager.ts`) | workers, task queue, active tasks, restart budget | `executeTask`, results, failures, restarts, `shutdown` | crash, time-out, two events for one failure, back-off | capacity; every promise settles; a crash hits its own tasks | modelled |
| In-memory queue (`queue/adapters/memory-adapter.ts`) | jobs by status, active count, paused | `addJob`, `process`, `pauseQueue`, `retryJob`, `obliterate`, `close` | handlers that outlive their queue, timers nothing cancels | the active count is exact; the reported status is true and its order kept; a job stays within its attempts; waiting jobs run | modelled |
| Request pipeline (`http/http-server.ts`, `routing/unified-router.ts`) | the response, the place in the pipeline, the active error | body, hooks, middleware, routes, handlers, errors | code that answers late or twice, `next()` called early, compressed bodies | one response; errors are answered; a handler starts once and fresh | the Node server modelled |
| Sessions (`middleware/built-in/session/`) | stored and loaded sessions | attach, save, destroy, regenerate | two requests of one session, saves after the response | what is set is saved; destroyed sessions stay destroyed | the hook modelled |
| Queue manager and middleware (`queue/queue-manager.ts`, `queue/middleware/*`) | queues, token bucket | create, add, process, shut down | waiters that wake together | limits over time | not modelled |
| Broker adapters (`queue/adapters/{sqs,rabbitmq,bull,kafka}-adapter.ts`) | in-flight messages, pause flags | add, poll, ack, retry | at-least-once delivery | no message lost by the adapter | not modelled |
| Container (`utilities/container.ts`) | registrations, singletons, scopes | `resolve`, `dispose` | concurrent resolution of an async singleton | one instance per singleton | not modelled |
| Hooks and event bus (`utilities/hooks.ts`, `events/event-bus.ts`) | listener arrays, execution cache | register, remove, execute, emit | arrays changed during an asynchronous pass | every hook registered throughout runs once, in order | not modelled |
| Pools and caches (`pooling/*`) | free objects, LRU order | acquire, release, get, set | double release, limits | an object has one holder | not modelled |
| Rate limiter (`middleware/built-in/rate-limit/core.ts`) | count and reset time by key | `check`, `refund` | refund after rollover | admitted requests per window | not modelled |
| Response cache (`middleware/built-in/cache/`) | entries of an adapter | intercepted answers | store and read across awaits | a hit is what a handler answered | not modelled |
| Service discovery (`networking/service-discovery.ts`) | instances by service | register, discover, health check | removal of an entry read before an await | a healthy instance is not removed | not modelled |
| Application (`moro.ts`, `framework.ts`) | the subsystems, closing flag | start, signals, `close` | order of shutdown, requests in flight | nothing is used after it was closed | not modelled |
| Path matching, the other HTTP servers, request middleware, mail, WebSockets, configuration, logging, validation, documentation, database, GraphQL and gRPC adapters | | | string matching, I/O or thin layers over libraries | | not modelled |

How the modelled ones interact. The scheduler owns an executor, a state manager
and, optionally, an election. `executeJob` calls `startExecution` (which throws
for a job the state manager does not know), awaits the `onStart` hook, awaits the
executor, calls `endExecution`, awaits the last hook and, in `finally`, gives its
counters back, sets its job's timer again and drains the pending queue. The
election emits `leader:elected` and `leader:stepdown`, on which the scheduler
sets or clears all timers; the scheduler's `shutdown()` shuts the three down
together. The executor keeps one circuit breaker per job. The state manager is
called by the scheduler and reads and writes one file beside its own timers. The
worker pool and the queue are used by the application alone. A request runs
through hooks, global middleware, router and handler; the session hook attaches
its session among the first and saves it when the response is finished.

## Circuit breaker

`execute(fn)` awaits `fn` between admission and settlement. Any number of calls
admitted while CLOSED can therefore settle later, in any order, against a breaker
that is OPEN, HALF_OPEN or CLOSED again. `Admit` and `Reject` are the piece
before the await, `Succeed` and `Fail` the piece after it (`onSuccess`,
`onFailure`, with the sliding window when `monitoringPeriod` is set), `Reset` is
`reset()`.

State: `state`, `failures` (the count compared with the threshold), `stamps`
(`failureTimestamps`, as ages), `sinceFail` (the age of `lastFailTime`), `call`
(what each caller's `execute` is doing). Times are ages that saturate at
the value past which no test can tell them apart. `MaxFailures` caps the count in
the same way, and must be at least the threshold.

- `TrippedIsNotClosed`: late results never leave a count at the threshold behind
  a CLOSED breaker.
- `NoAdmissionWhileCooling`: after a failure that found the count at the
  threshold, no call starts for the reset timeout, whatever failures of stragglers
  come in between and however many failures the window drops from the count.
  `CircuitBreakerTrips` extends the module with a history variable, `sinceTrip`,
  that remembers the trip, because the breaker does not: pruning lowers the count
  of a breaker that is still OPEN. Two things end the cool-down early, and the
  property lets them: a success, the late one of a call admitted before the trip
  included, and `reset()`.
- `OpensOnRecentFailures`: with a window, a breaker opens only on as many failures
  within it as the threshold asks for. The count is stale between two failures,
  and the loop that shifts old stamps out looks at nothing behind the first
  recent one. `docs/CIRCUIT_BREAKER.md` says the opposite of a window; see
  [where the code and its documentation disagree](#where-the-code-and-its-documentation-disagree).
- `OpenIsLeft` (liveness): the breaker does not stay OPEN for ever while it is
  called, although each straggler's failure pushes `lastFailTime`.

What the model shows besides, without a property of its own: a late *success* of
a call admitted before the breaker opened closes an OPEN breaker at once,
skipping the cool-down and HALF_OPEN, and a HALF_OPEN breaker admits every call,
not one probe. With a window shorter than the reset timeout the old failures have
expired when the breaker probes, the probe's failure counts one, and the breaker
stays HALF_OPEN, where `docs/CIRCUIT_BREAKER.md:37` says that it returns to OPEN.

## Job scheduler

### Actions

An action is a stretch of code without an await.

| Action | Code |
|---|---|
| `StartScheduler` | `start()`; without election it schedules every job |
| `RegisterJob`, `UnregisterJob`, `SetJobEnabled`, `TriggerJob` | the API calls |
| `TimerFires` | the callback of a job's timer: `scheduleJob` again, which runs an overdue job and chains a capped timer |
| `Execute`, `EndExecution` | `executeJob` after `onStart`, and after the executor |
| `Finish` | the `finally` block with the drain of the pending queue |
| `Abandon` | the same after a throwing `onStart` or an executor that is shutting down, which leave the record of the execution open |
| `Elected`, `StepDownBegins`, `SteppedDown` | the election's two events; the step down clears `isLeader`, awaits the release of the lock, then emits |
| `BeginShutdown`, `EndDrain`, `CloseStateManager`, `EndShutdown` | `shutdown()` cut at its awaits |
| `Tick` | time |

The synchronous start of `executeJob` (`ExecuteJob`) is part of whatever calls
it. When the state manager does not know the job, `startExecution` throws before
the first await, and the `finally` block runs at once, *inside* the caller:
`Settle` models the drain together with the finally blocks nested in it.
`IsSortOf` is the stable sort by falling priority, `Takes` the loop that
stops at the first item without room.

### State

`jobs`, `timer`, `nextRun`, `enabled`, `pending`, `current`
(`currentConcurrentJobs`), `conc` (`job.concurrentExecutions`), `started`,
`phase` (how far shutdown is), `leader`; `states` is the set of ids the state
manager knows, which may differ from `jobs` while the state manager has closed;
`exec` gives each execution in flight a slot with its job, its stage and whether
the scheduler or `triggerJob` began it; `created` keeps an id from being
registered twice; `stepping` marks a step down that awaits the file system.
`nextRun` and `timer` are ticks left.

A job object outlives its registration: a timer or queue item of a removed or
disabled job still refers to it. `timer`, `conc` and `enabled` are
therefore kept for every job object rather than for the registered ones.

### Abstractions and assumptions

- `calculateNextRun` is the constant `Period[j]`: always ahead. One-time jobs get
  no new run when they finish and are disabled, as in the code.
- Execution ids, contexts, results, history and hooks' effects are left out; hooks
  matter as awaits and as a place where `onStart` throws.
- `InUse`: once the application has called `shutdown()` it makes no call that
  changes the scheduler but `triggerJob`. The code does not check this; a job
  registered in that window would never be unscheduled.
- `Elected` waits for `~stepping`: the release of the lock takes two file
  operations, the next acquisition more. As long as no lock expires the election
  guarantees it (`NotElectedWhileReleasing`); after a race for an expired lock it
  rests on the time these operations take.
- `ScheduleAllJobs` leaves the registration order of the overdue jobs open, which
  includes the code's.
- Bounds: `Execs` (executions in flight: a step that needs a free slot is
  disabled without one) and `MaxPending` (longest pending queue).

### Properties

- `TypeOK`.
- `CountersMatch`: the global and the per-job counter equal the executions in
  flight, on every path out of `executeJob`.
- `NoStrandedItem`: the pending queue is only drained by a `finally` block, so a
  non-empty queue must have an execution in flight.
- `ScheduledWithinLimits`: executions the scheduler began itself stay within both
  limits, although triggers share the counters without asking.
- `NoLostJob`: an enabled job of a started leader has a timer, a queue item or an
  execution that will reschedule it.
- `DrainByPriority` (action property): a drain leaves behind no item that ranks
  above one it took.
- `JobsKeepRunning`, `QueuedJobsRun` (liveness): a job that no more jobs outrank
  than there are slots (`Unrivalled`) runs again and again, across chained timers,
  and what it has in the queue is taken, past more urgent jobs that come back and
  others of its own priority. The others may starve: the queue is sorted by
  priority at every drain (`job-scheduler.ts:616`), and with one slot two more
  urgent recurring jobs that take turns leave a third in the queue for ever. The
  fourth job of the run's instance is in that position, and without `Unrivalled`
  TLC finds both properties violated there. Manual triggers and repeated enabling,
  which the instance leaves out, can come in ahead of any job as often as they
  are called.

Fairness (`scheduler_live`): time passes, a timer that is due fires, and an
execution in flight goes on. Node fires timers; hooks are the application's and
are assumed to settle; the executor times out every job.

Seen in the model without a property of its own: a job disabled while it waits in
the queue is still run by the drain; a one-time job that is executing is queued
again when the instance is elected again, or the job enabled again, because its
`nextRun` is overdue, and runs twice; a throwing `onStart` leaves the execution
in the state manager's running set. `triggerJob` does not look at
`maxConcurrent`: both of two triggers start, where a comment in
`tests/unit/core/jobs/job-scheduler.test.ts` says that one is queued. A job that finishes while
`shutdown()` waits for the executions in flight sets its timer again and is
started once more. Neither the timer's callback nor the drain of the queue asks
who leads: while a step down awaits the release of the lock, an instance that is
no longer the leader starts jobs (`leader-election.ts:33`: "Ensures only one job
scheduler runs across distributed instances").

## Leader election

All instances share one lock file. Every file operation is awaited, so an action
is one file operation with the code up to the next: `Acquire` opens with `wx`,
`Create` writes to the file just opened and `Close` closes it and leads,
`Inspect` reads an existing lock, `TakeOver` renames a new one over an expired one, `Heartbeat` reads and `Refresh`
renames, `VerifyLeadership` reads, `ReadBeforeRelease` and `Unlink` are the two
operations of a step down. A handler that found the lock in order acts on that
in a later action, when the lock may have changed.

State: `lock` (absent, blank between the open and the write, or its owner and the
age of its stamp), and per instance `status`, `leader`, `due` (timers whose
callback is to run), and the operation each of the three chains awaits:
`acquire`, `beat`, `release`. `acquire` and `beat` carry the age of the stamp they
took when they began. The stamp is as old as the chain when it is written.

`Faults` chooses among a crash between two operations (`crash`), that between
creating the file and writing to it included, `forceStepDown()` (`force`) and
`shutdown()`. A process that restarts takes a new `instanceId` and is a new
instance. `FileError` is the failure of any file operation (`ENOSPC`, `EIO`, ...)
with what its handler makes of it: an attempt ends, a heartbeat or a check of the
leadership steps down, a step down leaves the lock. `errors` counts them, up to
`MaxErrors`.

Abstractions and assumptions: one tick is a heartbeat interval, and each timer
fires once per tick (the check's interval is one and a half of it in the code).
An instance has one attempt, one heartbeat and one step down under way at a
time. With `Prompt`, handlers finish before the next tick: the time-out of the
lock is then a real one; the clock never runs ahead of an instance that is only
slow. All instances see one clock. The replacement of `leaderInfo` by the lock
of another instance is left out: the heartbeat that could write it first checks
who owns the lock.

- `TypeOK`.
- `SingleLeader`: what the class promises; it is not kept (`election_single`).
- `OnlyCreationWedges` (action property): an empty lock file that nobody is about
  to write to (`Wedged`) stops every election. It comes about in two ways, both of
  the instance that created the file: a crash before the write, and a write that
  fails and leaves the file empty or torn with its creator alive.
- `SplitNeedsAbandonedLock`: with `Prompt` and a time-out above one heartbeat, two
  instances lead at once only after a lock has expired whose owner did not lead:
  it crashed, or stepped down or shut down with a heartbeat or an attempt under
  way that wrote the lock again. The lock of a leader never expires, and without
  an expired lock the exclusive creation of the file keeps instances apart.
- `SplitHeals` (liveness): of two leaders one gives up.
- `FailoverUnlessWedged` (liveness): as long as an instance lives, one is elected,
  whatever crashed, failed, stepped down or was shut down before, except by
  either of those two ways to an empty lock. `Failover`, without the exception, is
  what the class promises; it is not kept (`election_wedge`).

Fairness: time passes and each instance's handlers go on, with finitely many
errors. `FailoverUnlessWedged` and `SplitHeals` need it for the same reason the code needs its timers.

Seen in the model without a property of its own: a heartbeat that has read its
own lock when a step down releases it renames the lock back into existence, so
that the instance's own stale lock keeps everyone out until it expires. Without
`Prompt` a step down that has read its own lock unlinks, in its second
operation, the lock of an instance that has taken the expired one over meanwhile,
against the comment at `leader-election.ts:383`.

## Job executor

The executions of one job: jobs share only the shutdown. An execution is cut at
its awaits: `Execute` registers it, `OutOfMemory` ends it in the memory check,
`Attempt` is one round of the retry loop up to the await of `executeWithTimeout`,
`Succeed`, `Throws`, `TimesOut` and `Rejected` are what follows that await,
`AttemptFails` being the shared catch block. `CancelExecution` and `EndShutdown` abort
signals, `ResetCircuitBreaker` is the API call, `BeginShutdown` and `EndShutdown` are `shutdown()` before and
after its wait, `Tick` the clock of the breaker.

State: per execution its `stage`, its `attempts`, whether its signal is
`aborted`, and `fns`, the attempts whose job function is running. A function that
timed out stays in `fns` until `ReturnsLate`, beside the attempts that follow.
`state`, `failures` and `sinceFail` are the job's breaker.

Composition: the module instantiates `CircuitBreaker` with no window, takes that
module's `OnSuccess`, `OnFailure`, `Reset` and `Tick` for its own steps, and
shows in `RecordsLikeABreaker` that the whole is a behaviour of that module:
an attempt maps to a call of `CircuitBreaker.execute`, admitted when its function is launched or its
aborted signal rejects it, settled when its outcome is recorded.

Abstractions: the breaker and the memory check are enabled, as they are by
default; back-off lengths, memory figures, `updateOptions` and events are left
out; `activeExecutions` is the operator `Active`. The signal is not aborted in
the microtask between its test and the start of the function. An execution slot is used
again when no function of its last execution is left running (a bound).

- `TypeOK`, in which `attempts` and `fns` bound the work of an execution and the breaker is never HALF_OPEN.
- `RecordsLikeABreaker` (refinement): every admitted attempt has one outcome
  recorded, one the open breaker turned away has none, until shutdown drops the
  breaker.
- `CancelledStartsNothing`, `NothingStartsAfterShutdown` (action properties): an
  aborted execution starts no further function, nor does any after `shutdown()`,
  although the sleep between attempts is not interrupted.
- `EveryExecutionSettles` (liveness): an execution settles though its functions
  never return.

Fairness: `Advance`, that is timers and settled promises; job functions need not
return.

Seen in the model without a property of its own: a job function that times out
overlaps its own retries, where `docs/JOBS_GUIDE.md` says that jobs that hang are
cancelled; and a cancelled execution goes through its remaining retries, each
recorded as a failure, so that cancelling can open the breaker. `TypeCorrect`
shows that the breaker of a job is never HALF_OPEN: the executor asks `isOpen()`,
which does not look at the time, and never calls the breaker's `execute`, the
only place where OPEN becomes HALF_OPEN. An opened breaker turns every later
execution away until it is reset by hand or an attempt admitted before succeeds,
where `docs/JOBS_GUIDE.md:356` says that jobs won't execute until the breaker
resets, after 60 s by default.

## Job state manager

One file holds the states of all jobs and the executions under way. `PersistState`
takes the snapshot; `OpenTemp`, `WriteTemp` and `Rename` are the steps of
`fs.promises.writeFile` and `rename`, and `SaveFails` either of them failing. The
interval (`AutoPersist`) and `Shutdown` begin saves, which may overlap: nothing
in the code keeps one from starting while another runs. `LoadAccess`,
`LoadRead` and `LoadDone` are `loadState()` cut at its awaits; the constructor
starts it and nobody waits for it, so registrations, executions and saves fall in
between. `Restart` kills the process between any two steps and starts a new one
with the files as they are.

State: `states` (per job the executions counted and ended), `running`, `isDirty`,
`load`/`loaded`, per save `stage`, `snap` and `fd` (the file it writes to, by the
name that file now has: a rename takes it away under a writer), `temp` and `file`
(a snapshot, `Torn`, or none). The history variables say when a promise is void:
`overlapped` (two saves at once), `raced` (something happened during the last
save), `mixed` (a job loaded or removed over its own executions), `last` (what
the last process knew when it ended with nothing left to save).

- `FileWhole`: the state file is never half a snapshot, whatever fails and
  whenever the process dies, unless saves overlapped.
- `CleanMeansSaved`: with nothing marked, nothing in progress and no race, the
  file is what memory is.
- `RecoveryExact`: a process that ended clean is restored exactly.
- `ExecutionsCounted`: what is counted has ended or is running.

The exceptions are real. Two overlapping saves (that of `shutdown()` and one of
the interval) share one temporary file, so one renames what the other is still
writing, although the comment at line 507 speaks of an atomic write. A change
made while the snapshot is written is marked as saved when the rename returns
(line 511); `shutdown()`, which then clears the states, loses it although line 624
says "Persist final state". A load that ends late replaces the state of jobs that
have run meanwhile.

Seen in the model besides: job ids are generated anew at every start of the
scheduler, so that what is restored belongs to no job of the new process, against
`docs/JOBS_GUIDE.md:66`; restored jobs have no history; the executions of a
crashed process are reported at every restart until the first save.

Abstractions: the other fields of a state are one change (`SetField`), history
and metrics are left out. `clear()` has no caller. Bounds: `MaxExecutions`,
`MaxFaults` (failed saves and restarts together) and the number of `Saves`.

## Worker pool

`ExecuteTask` is `executeTask()` with what it calls (`processQueue` or
`enqueueTask`), `TaskTimesOut` the timer of a task, `HandleWorkerResult` the
message of a thread (one that has thrown may still be heard before it exits, and
then restores the restart budget as any other), `WorkerError` and `WorkerExit` the
two events of a crash, `WorkerDies` an exit with another code without an error,
`WorkerQuits` one with code 0, `RestartFires` the backed-off replacement,
`Shutdown` and `ShutdownReturns` the two sides of its await. Threads are external:
they answer, throw, exit or hang.

State: `workers` (the table in the order of insertion, which decides who gets the
next task), `thread` (what each thread id is doing: an exit follows an error),
`inbox`, `taskQueue`, `activeTasks`, `assigned`, `pending` (promises not yet
settled), the restart budget, and `phase`/`awaiting` of the shutdown.

- `CapacityKept`: however crashes are announced, live threads and restart timers
  add up to what the constructor started.
- `NoTaskForgotten`: an entry is queued, at work in a live thread, or posted to a
  dead one that is still in the table.
- `ClosedMeansSettled`: a failed or stopping pool leaves no promise unsettled.
- `CrashIsIsolated` (action property): a crash rejects no task of another worker.
- `TimedTasksSettle`, `StopEnds` (liveness): a task with a time-out settles;
  `shutdown()` returns, unless the table held a thread that had already ended.

Fairness: timers fire, a thread that has thrown or is being terminated exits.
Nothing says that a task is answered: only those with a time-out must settle.

Seen in the model without a property: a restarted worker does not process the
queue, and the answer to a task that had timed out hands out nothing, so a queued
task without a time-out may wait for ever; a task that times out in the queue is
posted all the same; a thread that left with code 0 stays in the table and is
given tasks nobody will answer; `shutdown()` waits for ever for the exit of such a
thread; the queue grows only while the table is empty, so that `maxQueueSize`
rarely matters.

Bounds: `Threads` names the threads of a run (a restart needs a free name), a
task slot is used again when nothing holds it.

## In-memory queue

`AddJob`, `DelayPasses`, `Tick` (the interval), `RetryFires` and `RetryJob` are
the five places that start jobs, all through `processJob`, whose part before the
await is `Start` and whose two ends are `Returns` and `Throws`. `Process`,
`PauseQueue`, `ResumeQueue`, `RemoveJob`, `Obliterate` and `Close` are the API.
A handler keeps the queue object it was started for: those of a queue that was
obliterated or closed are `orphans`, which no longer count for the queue of the
same name.

- `ActiveCountExact`: `activeJobs` is the number of handlers at work for the
  queue.
- `FollowsLifecycle` (refinement): the queue implements `JobLifecycle`, which says
  what a job's status promises. The refinement mapping is `getJobStatus()`
  (`StatusOf`) with one correction, the count of failed attempts and the number of
  handlers at work: a job reported as active has exactly one, any other none, a
  completed job never starts again, a failed one does within its attempts. Removal
  and `obliterate()` change nothing in that; once its caller has called
  `retryJob()` anything goes. `OnceAtATime` is a corollary. The correction
  (`StatusMeant`): `getJobStatus()` tests whether `failedReason` is truthy, so that a
  job that failed with an empty message (`throw new Error()`) is reported as
  completed, and goes from "completed" to "active" when its retry timer fires. The
  mapping counts that job as failed and corrects nothing else; see
  [below](#where-the-code-and-its-documentation-disagree).
- `AttemptsKept`: for a job `retryJob()` was not called for, the attempts made, the
  one under way and the one a timer will begin are no more than its options say.
  The formula is an upper bound: a retry whose timer fires while the queue is paused
  or full leaves the job waiting, for the interval to start later.
- `StartsWithinLimit` (action property): handlers start only in a running queue
  and within its concurrency.
- `WaitingJobsRun` (liveness): while the queue is left open, waiting jobs are
  started or removed.

Fairness: the interval ticks, timers fire, handlers end.

Seen in the model without a property: a delayed job whose timer fires while the
queue is paused, full or without a processor stays "delayed" and is never
started; `retryJob()` of an active job runs it twice at once (hence the
exception); jobs added later are started by their own `addJob` and can keep
overtaking those that wait between two ticks.

Bounds: each job is added once (ids are random), `Retriable` jobs are retried by
their caller once, the handlers of `Terse` jobs throw with an empty message too,
`Calls` bounds the handlers of one job.

## Request pipeline

One request and everything that may act on its response. The pipeline is `stage`
and `at`; each of its actions is a stretch of `handleRequest` and what it calls up
to the next await, and `Yielded` says where it has given up the thread. There the
rest may happen: middleware that called `next()` and runs on (`stray`) answers,
a response that was being compressed is written (`Flush`), the 'finish' event
fires (`Finish`). `Answer` is `res.json()`: with compression (on by default from
1024 bytes) the headers are out only when the compression is over, and
`res.headersSent` is what all tests of the code look at.

Actions: `Arrive`, `ParseBody`, `BodyFails`; `HookAnswers`, `HooksReturn`,
`HooksThrow`; the chain of global middleware and of direct routes
(`SkipMiddleware`, `MiddlewareSettles`, `MiddlewareWaits`, `MiddlewareResumes`,
`ChainEnds`, `ChainStops`, `ChainThrows`); the router's fast and phased routes
(`FastRoute`, `PhasedRoute`, `CorePhase`, `PhaseMiddleware`, ...); the table of
direct routes and its 404; `CallHandler` and its ends; `RunErrorHandler`,
`ErrorHandlerWaits` and `ErrorHandlerSettles` of `onRequestError`.

- `OneResponse`: one response is written, and `headersSent` says so.
- `ErrorsAnswered`: a caught error is reported once and answered before the
  request ends.
- `HandlerStartsFresh` (action property): the handler is called once, with no
  error active, and after an answer only in the two cases below.
- `Answered` (liveness): every request is answered, unless its handler ends
  without answering or an error was lost.

Fairness: the code's own steps are taken, hooks, handlers and error handlers
end, middleware that has not answered goes on. Middleware that has answered
may keep its chain waiting for ever, as in the code.

The exceptions in these properties are behaviours of the code a reader should
know of:

- A handler runs although the cache, a limit or middleware has answered, when
  that answer is still being compressed: `executeRoute` asks `res.headersSent`
  (`unified-router.ts:697`), against its comment at line 711.
- The handler of a direct route runs although its middleware has answered, and
  an error that was active in the chain is dropped when the answer is out and
  more middleware follows.
- A direct route's handler that throws synchronously after asynchronous
  middleware (`http-server.ts:1460`) is caught by nobody: `lost`. The request
  stays open.
- An error handler that answers with a compressed body is overtaken by the
  default 500, and a 404 overtakes a compressed answer of a hook.
- The response hooks are registered after the request hooks return: a hook that
  answers and goes on lets 'finish' pass before, and they never run, against the
  comment at `http-server.ts:1375`.
- Route middleware that neither calls `next()` nor returns a promise is taken to
  have gone on, and `next(err)` of route middleware is ignored.
- The response cache intercepts `res.json` and stores error answers too
  (`middleware/built-in/cache/core.ts:79`), which later requests get as hits.

Bounds: chains and execution orders of at most two, `MaxStray` pieces of
application code that run on. Left out: path matching, the parsing of a body but
for its failure, static files, requests the client abandons.

## Sessions

One browser with overlapping requests and the session hook. `Send` gives a
request (a `visit`) the cookie of the `jar`; `Attach` is `attachSession()` with `loadSession`;
`Change`, `SaveNow`/`Saved`, `Destroy`/`Destroyed` and `Regenerate`/`Regenerated` are
what a handler does, cut at the await of the store: `destroy()` and `regenerate()`
hold it up, a `save()` or `touch()` it need not wait for (`saving`), so that `Saved`,
which clears `isModified` and `isNew`, may come at any time later; `Respond`
brings the answer, and its cookie, to the browser; then `Save`, `SaveSkipped` or
`SaveFails` is the hook after the response. In between the browser may send its
next request. `Expire` is the store forgetting an entry. The store copies what it
is given, as Redis does; with the memory adapter the requests of a session share
one data object after the first save. The data of a session is the set of
requests whose changes it contains; an entry without data counts as none, as it
does to `attachSession`.

- `ChangesSaved`: what a handler set, and did not destroy afterwards, was given to
  the store when the request is over, unless the store failed. Excepted are exactly
  the changes made while an earlier `save()` or `touch()` of the same request was
  waiting for the store (`missed`): the code after the await marks the session clean
  whatever has happened meanwhile (`core.ts:131-133`), and the hook skips it. Without
  the exception the run violates the property.
- `RevivedByOverlapOnly` (action property): the request whose step brings a destroyed
  or regenerated session back (`Acts`) was attached to it before it was destroyed,
  be it the one that destroyed it; one that presents its id later never does.

Seen in the model without a property: the whole data is written, so of two
overlapping requests the last save drops what the other changed; a save comes
after the response, so that even a client that waits for each answer may load
its session before it is saved, and a logout may be undone by the late save of an
earlier request; the id `regenerate()` chooses is sent in no cookie. With
`createSessionMiddleware()`, which is not modelled, `await next()` returns before
the handler runs (`http-server.ts:1971`), so that what a handler changes is never
saved, against its comment "Save session after response"
(`session/middleware.ts:37`).

Bounds: only the handlers of `Savers` call `save()`, one call at a time; three
requests and three ids (a request that needs a new one waits while
there is none), one store failure.

## Runs

| Run | Instance | Distinct states | Shows |
|---|---|---|---|
| `breaker` | 3 callers, threshold 2, reset timeout 3, window 1 | 770 | its safety properties and `OpenIsLeft` |
| `scheduler` | a one-time and a recurring job, 2 slots, global limit 1, queue up to 2, election, every request and failure | 211 677 | counters, limits, no lost job, drains by priority |
| `scheduler_live` | 4 jobs of priorities 3, 2, 2 and 1, one slot, the first job 3 ticks ahead with timers capped at 2 | 8 466 | jobs few enough outrank run again, and from the queue |
| `election` | 3 instances, lock time-out of 2 heartbeats, all faults, 1 failing file operation | 152 107 | when leaders split, a split heals, what wedges, fail-over |
| `executor` | 2 executions, 1 retry, threshold 3, reset timeout 1 | 14 989 | the refinement, both action properties, liveness |
| `job_state` | 1 job, 2 executions, 2 saves, 1 fault | 3 247 461 | the file, what is clean, recovery, counting |
| `workers` | 2 workers, a third thread for a restart, 3 tasks of different priority of which one has a time-out, queue of 2 | 256 994 | capacity, forgotten tasks, crashes, liveness |
| `queue` | 3 jobs, one of them delayed, 2 attempts, concurrency 2, one job retried by hand, another failing without a message too | 454 522 | counting, the life of a job, limits, liveness |
| `requests` | chains and execution orders of at most 2, every kind of route, compression on, 1 piece of middleware that runs on | 163 428 | one response, errors, handlers, liveness |
| `sessions` | 3 requests, one of which saves by itself, 3 ids, 1 store failure, rolling cookies | 2 235 933 | what is set is saved; what is destroyed stays so |
| `election_single`, `election_wedge` | the smallest instance that shows it | | the two disagreements below |

Why these bounds are enough to be interesting. The breaker needs one caller to
trip it, one straggler, and one more to probe, and a window shorter than the
reset timeout, so that failures leave it while the breaker cools down; without a
window it runs as the executor's. The scheduler's safety needs two jobs so
that one can hold the slot the other waits for, a second slot so that a trigger
passes the limit, and a queue of two so that a job waits twice; one drain starts
several items even here, because an execution of a job the state manager does not
know ends before the next item is looked at. Its liveness needs a job outranked by as many as there are
slots, one of its own rank beside it, and one that the three starve; the chained
timer takes a period beyond the cap. A race to take over the lock of an instance that is gone
takes three instances, and a lock time-out of more than one heartbeat lets a
live leader keep it. Two executions with a retry each let late functions, a
sleeping execution and a breaker opened by the other meet; a threshold of three
needs failures of both. Two saves overlap, and the one of a shutdown meets one of
the interval. Two workers let a crash of one meet the tasks of the other, and a
third thread is its replacement. A queue needs a job that runs, one that waits
and one whose delay ends. Of three sessions' requests the first sets, the second
destroys, the third comes back. For more of everything there are the proofs.

Interchangeable values are declared symmetric in safety runs only: slots in
`scheduler`, instances in `election_single`, saves in `job_state`, ids and the
other requests in `sessions`. Deadlock is checked where time always passes: in the breaker's,
scheduler's, executor's and election's runs. The other modules bound the calls, tasks or
requests there are, so that their systems end when all are done. `TypeOK` is
proved in every module and in no run.

## Where the code and its documentation disagree

Two are runs that TLC ends with a counterexample.

- `election_single` (`SingleLeader`). Two instances that have both found a lock
  expired take it over one after the other, and both lead until the first one's
  next check, where `leader-election.ts:33` says that only one scheduler runs.
  `SplitNeedsAbandonedLock` and `SplitHeals` are what remains of that promise: it
  takes a lock left behind, and ends.
- `election_wedge` (`Failover`). A crash between `open` and `writeFile` leaves an
  empty lock. Every later attempt fails in `JSON.parse` before it looks at the age,
  for ever, where `leader-election.ts:38` has "Automatic failover with health
  checks". A `writeFile` that fails leaves the same file. `OnlyCreationWedges` and
  `FailoverUnlessWedged` are what remains of that promise.

In two more the run passes: it shows what holds of the code instead.

- `breaker` (`OpensOnRecentFailures`). `docs/CIRCUIT_BREAKER.md:239` says that the
  breaker "does **not** use a sliding time window", that failures accumulate until
  a success or `reset()`, and that `monitoringPeriod` "is not read by the breaker
  yet, so setting it has no effect on behaviour" (also lines 116, 231 and 679).
  `circuit-breaker.ts:56-68` reads it and prunes a window, as `CHANGELOG.md:76`
  announces. The rule of the documentation is the definition `InWindowAlways`; in
  place of `InWindow` it violates the property in the same run.
- `queue` (`FollowsLifecycle`). `docs/QUEUE_GUIDE.md:1050` has "`failed` (number) -
  Failed jobs", but a job that failed with an empty message is counted as completed
  (`memory-adapter.ts:385`, with the message of line 457). The refinement holds with
  `StatusMeant`; with `StatusOf` in its place the same run violates it.

The others are described with their components, under "seen in the model" and
with the exceptions their properties make. They are built into the actions: a
property that forbids them fails in the same runs.

## Proofs

All theorems hold for every value of the constants allowed by the `ASSUME`s:
sets of any size, any limit, timeout, threshold and set of faults.

**Circuit breaker.** `TypeCorrect` (`TypeOK`), `TrippedNeverClosed`
(`TrippedIsNotClosed`), `CoolDownRespected` (`NoAdmissionWhileCooling`) and
`OpeningNeedsRecentFailures` (`OpensOnRecentFailures`). The invariant adds to the
types that a tripped breaker is open or has cooled down and probes
(`TrippedCooling`), and that `failureTimestamps` is ordered by age
(`OldestFirst`). `CoolDownRespected` is about the breaker with the trip remembered,
whose steps are the breaker's own (`OnlyWatched`); its invariant, `StillCooling`,
says that a breaker tripped less than the reset timeout ago is still OPEN and was
last failed no earlier. The order is what makes the window right: `Pruned` shows that
when the loop stops at the first recent stamp, every stamp behind it is recent.

**Job scheduler.** `TypeCorrect`, `CountersNeverLeak`, `QueueIsNeverStranded` and
`LimitsHold` follow from one inductive invariant `IInv`, the conjunction of

- `TimersOK`: types of timers, runs and flags;
- `RunsOK`: types of queue, counters and slots, the counters equal the executions
  (`CountersMatch`), those the scheduler began are within the limits, and a
  non-empty queue has an execution in flight;
- `StatusOK`: types of the registration and life-cycle variables.

The four are proved together because each needs the others. That the limits
survive a drain needs the counters to be exact. That a drain leaves no item
stranded needs that an item without room means an execution in flight: if none
were, both counters would be zero, and `Room` would hold. The lemmas follow
the code: `BeginCounts`, `BeginLimits`, `EndCounts`, `EndLimits` say what
starting and ending executions does to slots and counters; `DrainHasRoom` and
`DrainHasRoomFor` bound what a drain of `n` items starts (the last item started
had room, so all of them fit; `Greatest` picks that item); `SettleOK` is the whole finally
block; `NextOK` has one step per action. `MostUrgentFirst` (`DrainByPriority`)
needs of the same invariant only the types: what begins in a slot is the job of
an item of the prefix taken from the sorted queue, what stays is its rest.
`NobodyIsLost` (`NoLostJob`) adds two facts about leadership: a step down that has
begun was a leader's no longer (`SteppingFollows`: otherwise its event would clear
the timers of a leader), and only a started scheduler is elected
(`ElectedIsStarted`: otherwise `start()` would find a leader without timers). The
rest is one question asked of every piece of code that takes something from a
job, what it gives back (`Held`): `SettleHolds` answers it for the finally block,
where an item taken from the queue runs, or is rescheduled because its state is
gone, and one that is not taken is still in the sorted rest.

**Leader election.** `TypeCorrect` (`TypeOK`), inductive; and
`OnlyCreationLeavesABlankLock` (`OnlyCreationWedges`), which needs the types only:
of the steps that leave the file as it is, those that take its creator from the
write without writing are its crash and its failed write. `NoSplitWithoutExpiry`
needs no promptness: as long as no lock expires, `SingleLeader` holds. Its
invariant, `OneHolder`, counts among those that hold not the leaders alone but
also the instance that has created the file and not yet written to it or closed it, and the
one that has stepped down and not yet removed it; otherwise the file could go
while another instance leads. `NotElectedWhileReleasing` follows from the same invariant and
is what the scheduler's module assumes. `OnlyAbandonedLocksSplit`
(`SplitNeedsAbandonedLock`) reduces to it by `Punctual`: between two ticks the
lock of a leader is fresh, or one tick old with the heartbeat due or about to be
renamed, because `Prompt` lets no tick pass over a handler. Its hypothesis
`LockTimeout > 1` is that of the code's defaults, 30 s against 10 s, which
nothing in the code enforces.

**Job executor.** `TypeCorrect` (`TypeOK`), `CancellationHolds`
(`CancelledStartsNothing`), `ShutdownHolds` (`NothingStartsAfterShutdown`) and
`ImplementsBreaker` (`RecordsLikeABreaker`: the initial state maps to the
breaker's, every step to a step of the breaker, a stutter or the drop at
shutdown). The inductive invariant adds to `TypeOK` that an execution about to
attempt has an attempt left (`AttemptsLeft`), and that after shutdown whatever
has not settled is aborted (`DownIsAborted`).

**Job state manager.** `TypeCorrect` and `FileStaysWhole` (`FileWhole`). The file
is whole because what a rename moves there is: `SnapsKept` says that a temporary
file is torn only while the one save writing to it has not written yet, and
`OneByOne` that without an overlap there is one save at a time. `CleanHolds`
(`CleanMeansSaved`) needs `Current`: a save into which nothing fell is alone,
carries what memory is, and leaves the mark in place until its rename, so the
file is memory when the mark goes. `RecoveryHolds` (`RecoveryExact`) adds
`LastOnDisk`: what the process that ended had saved is in the file until the
next save. `CountingHolds` (`ExecutionsCounted`) adds `Counted`: a job without
state has nothing running that would be counted for it, and no snapshot, in
either file or on its way to one, counts more ended than started.

**Worker pool.** `TypeCorrect`, `CapacityHolds` (`CapacityKept`) and
`ClosedPoolSettled` (`ClosedMeansSettled`). That threads and restart timers add up
needs that each restart is of one thread that left the table: `TableOK` says that
no thread is listed twice and which of the listed ones have ended, `EntriesOK`
which tasks have a promise. `NothingForgotten` (`NoTaskForgotten`) and
`CrashesIsolated` (`CrashIsIsolated`) need `PlacesOK`: a task is in the queue at
most once or in the inbox of one thread, never both, and its entry names that
thread. Otherwise what a crash rejects by name could be another worker's, and
what leaves the queue could leave its only place.

**In-memory queue.** `TypeCorrect`, `ActiveCountHolds` (`ActiveCountExact`),
`LifecycleHolds` (`FollowsLifecycle`), `OnceHolds` (`OnceAtATime`), `AttemptsHold`
(`AttemptsKept`) and `LimitHolds` (`StartsWithinLimit`). `JobsOK` ties the status of a job to its handlers and
timers: a job that waits has neither, so that whatever starts it is the first.
For the interval, which starts as many jobs as there is room for, the last job
started bounds all of them. The refinement adds `StatusIsTrue`: what is reported
as active has a handler, and a retry timer is set for failed jobs only, whatever
their message. Each step
leaves a job untouched, starts it, sets it back or ends it (`EachTreated`), and
each of the four is a step of the abstract specification (`OneJob`).

**Request pipeline.** `TypeCorrect`, `OneResponseHolds` (`OneResponse`),
`ErrorsAnsweredHolds` (`ErrorsAnswered`) and `HandlerStartsFreshHolds`
(`HandlerStartsFresh`). The invariant has a part for each question one must ask
at a place of the pipeline: what is known of the response there (`OutHolds`),
where an error may be active (`ErrPlaces`), where the handler has not been
called (`HandlerPlaces`, `RouterFresh`), what may be waiting (`WaitPlaces`),
which routes get there (`DirectPlaces`), and where hooks are registered
(`HooksPlaces`).

**Sessions.** `SessionTypeCorrect` (`SessionTypeOK`), `ChangesAreSaved` (`ChangesSaved`)
and `DestroyedStaysGone` (`RevivedByOverlapOnly`), at the end of
`Requests_proofs`: a session is attached and saved by two hooks of the pipeline.
(The names of `Sessions` are distinct from those of `Requests`, so that one module
can extend both.) The invariant is `SessionInv`. Its part `Kept` carries a change
from the handler to the store: until it is written it is in the data the request
has loaded, and the session is marked modified, which is what makes the hook save
it; and no save of its own waits that would take the mark away. `FreshIds` and `OwnId` make a destroyed session stay gone: what a request is
attached to was in the store at that moment, or has an id nobody had before, so
it was not among the sessions destroyed until then.

Only model-checked: everything under fairness (`OpenIsLeft`, `JobsKeepRunning`,
`QueuedJobsRun`, `SplitHeals`, `FailoverUnlessWedged`, `EveryExecutionSettles`,
`TimedTasksSettle`, `StopEnds`, `WaitingJobsRun`, `Answered`), which is outside the
prover's reach. Every invariant and every action property the runs check is
proved, and so are the two refinements and the conditional `SplitNeedsAbandonedLock`.

## Not modelled

- The Redis strategy of the election: its two scripts are atomic on a server that
  is not part of the repository. The strategy `none` and the `leader:unhealthy`
  event, which nothing reacts to.
- Queries and statistics of the scheduler and its events to the application. To
  the scheduler an execution is one await: its module does not contain the
  executor's, only that it may succeed, fail or refuse to start. Of the state
  manager it knows the set of ids.
- Sessions: `createSessionMiddleware`, signed cookies, the file and Redis stores
  behind their adapter. Requests: path matching, which is deterministic and has
  unit tests, static files, parsing, abandoned requests, and the uWebSockets,
  HTTP/2 and engine servers, whose pipelines are written anew in each.
- The container. Read while surveying: two concurrent resolutions of a singleton
  with an asynchronous factory build two instances (`container.ts:217`), where
  `docs/DEPENDENCY_INJECTION.md:240` says "One instance shared across the entire
  application"; an instance is stored as initialized before its init hook ran
  (`container.ts:413`); a service created again during `dispose()` is cleared
  without being disposed.
- The rate limiter: a refund for a request of an earlier window is taken from the
  new one (`rate-limit/core.ts:188`). The token bucket of the queue: waiters wake
  together (`queue/middleware/`). Service discovery: a health check removes, by host
  and port, an entry that was registered again meanwhile.
- Mail, WebSockets and the protocol, broker and database adapters are I/O and thin
  layers over libraries; configuration, logging, validation and documentation
  have no state that changes concurrently. The reason for each component is in
  `PROJECT.json`.

## What could follow

- Scheduler, executor, election and state manager composed: `Elected` and
  `SteppedDown` driven by the lock instead of chosen freely, the end of an
  execution by the executor.
- Small modules for the container, the rate limiter and service discovery, for
  what is listed above; the order of `close()` in `moro.ts` over all of them.
