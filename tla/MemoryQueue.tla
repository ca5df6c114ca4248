---------------------------- MODULE MemoryQueue ----------------------------
(***************************************************************************)
(* One queue of the in-memory adapter, src/core/queue/adapters/            *)
(* memory-adapter.ts: jobs added at once or with a delay, the processor    *)
(* and its concurrency, the loop that starts waiting jobs, retries with    *)
(* their timers, pause, removal, obliterate and close.                     *)
(*                                                                         *)
(* Handlers are external: they return or throw, at any time.  A handler    *)
(* outlives the queue it was started for.                                  *)
(***************************************************************************)
EXTENDS Integers, Sequences, FiniteSets, SequencesExt

CONSTANTS
    Jobs,         \* job ids (random UUIDs: each is added once)
    Delayed,      \* the jobs added with opts.delay
    MaxAttempts,  \* opts.attempts
    Retriable,    \* bound: the jobs retryJob() is called for, once each
    Terse,        \* bound: the jobs whose handlers also throw with an empty message
    Limits,       \* the concurrencies process() is called with
    Calls         \* bound: the simultaneous handlers of one job

ASSUME QueueAssumption ==
    /\ Delayed \subseteq Jobs /\ Retriable \subseteq Jobs
    /\ MaxAttempts \in Nat \ {0} /\ Limits \subseteq Nat \ {0}
    /\ IsFiniteSet(Jobs) /\ IsFiniteSet(Calls)

VARIABLES
    added,        \* the jobs added so far
    retried,      \* the jobs retryJob() has been called for
    jobs,         \* the jobs of the queue, in order of insertion
    processedOn, finishedOn,   \* whether each job has the field
    failedReason,              \* "none", or the message of the error: see Reasons
    attemptsMade,
    delayTimers,  \* the jobs whose delay has not passed
    retryTimers,  \* the number of retry timers of each job
    running,      \* the handlers of this queue: job and number
    orphans,      \* handlers of a queue that has been obliterated or closed
    queue,        \* "none", "running", "paused" or, with the adapter, "closed"
    processor, concurrency, activeJobs,      \* of the queue object
    loop          \* whether the processing interval is set

jobVars   == <<processedOn, finishedOn, failedReason, attemptsMade>>
timerVars == <<delayTimers, retryTimers>>
runVars   == <<running, activeJobs>>
queueVars == <<queue, processor, concurrency, loop>>
vars == <<added, retried, jobs, jobVars, timerVars, runVars, orphans, queueVars>>

Here == {jobs[i] : i \in DOMAIN jobs}
HandlersOf(j) == {h \in running \cup orphans : h[1] = j}

\* What error.message or String(error) may be: "empty" stands for '' (new Error()).
MessagesOf(j) == IF j \in Terse THEN {"empty", "text"} ELSE {"text"}
Reasons == {"none", "empty", "text"}

\* getJobStatus(), which asks whether the reason is truthy: an empty message is not.
StatusOf(j) ==
    CASE failedReason[j] = "text" -> "failed"
      [] failedReason[j] # "text" /\ finishedOn[j] -> "completed"
      [] failedReason[j] # "text" /\ ~finishedOn[j] /\ processedOn[j] -> "active"
      [] failedReason[j] # "text" /\ ~finishedOn[j] /\ ~processedOn[j] ->
           IF j \in Delayed THEN "delayed" ELSE "waiting"

WaitingOrActive == {j \in Here \ Delayed : StatusOf(j) \in {"waiting", "active"}}  \* mutant
Waiting == {j \in Here \ Delayed : StatusOf(j) = "waiting"}

-----------------------------------------------------------------------------
Init ==
    /\ added = {} /\ retried = {} /\ jobs = << >>
    /\ processedOn = [j \in Jobs |-> FALSE] /\ finishedOn = [j \in Jobs |-> FALSE]
    /\ failedReason = [j \in Jobs |-> "none"] /\ attemptsMade = [j \in Jobs |-> 0]
    /\ delayTimers = {} /\ retryTimers = [j \in Jobs |-> 0]
    /\ running = {} /\ orphans = {}
    /\ queue = "none" /\ processor = FALSE /\ concurrency = 1 /\ activeJobs = 0
    /\ loop = FALSE

\* processJob() of the jobs in S, whose fields are otherwise as in new: those
\* started, which must be in the queue, get a handler each.
Start(S, new) ==
    /\ processedOn' = [j \in Jobs |-> j \in S \/ new[j]]
    /\ activeJobs' = activeJobs + Cardinality(S)
    /\ \E h \in [S -> Calls] :
         /\ \A j \in S : <<j, h[j]>> \notin running \cup orphans
         /\ running' = running \cup {<<j, h[j]>> : j \in S}

OpenOnceMore == queue = "running" /\ processor /\ activeJobs <= concurrency  \* mutant
Open == queue = "running" /\ processor /\ activeJobs < concurrency

ProcessJob(j, new) == Start(IF Open /\ j \in Here THEN {j} ELSE {}, new)

\* ensureQueue()
EnsureQueue ==
    /\ queue # "closed"
    /\ queue' = IF queue = "none" THEN "running" ELSE queue

AddJob(j) ==
    /\ j \notin added
    /\ EnsureQueue
    /\ added' = added \cup {j}
    /\ jobs' = Append(jobs, j)
    /\ IF j \in Delayed
       THEN delayTimers' = delayTimers \cup {j} /\ UNCHANGED <<processedOn, runVars>>
       ELSE /\ Start(IF Open THEN {j} ELSE {}, processedOn)
            /\ UNCHANGED delayTimers
    /\ UNCHANGED <<retried, finishedOn, failedReason, attemptsMade, retryTimers,
                   orphans, processor, concurrency, loop>>

\* The delay has passed: a job that cannot start now is not looked at again.
DelayPasses(j) ==
    /\ j \in delayTimers
    /\ delayTimers' = delayTimers \ {j}
    /\ ProcessJob(j, processedOn)
    /\ UNCHANGED <<added, retried, jobs, finishedOn, failedReason, attemptsMade,
                   retryTimers, orphans, queueVars>>

\* The interval: every waiting job, in order, while there is room.
Tick ==
    /\ loop /\ Open
    /\ LET Before(i, j) == \E m, n \in DOMAIN jobs : m < n /\ jobs[m] = i /\ jobs[n] = j
           ready == {j \in Waiting :
                       Cardinality({i \in Waiting : Before(i, j)}) < concurrency - activeJobs}
       IN  ready # {} /\ Start(ready, processedOn)
    /\ UNCHANGED <<added, retried, jobs, finishedOn, failedReason, attemptsMade,
                   timerVars, orphans, queueVars>>

-----------------------------------------------------------------------------
\* The finally block: a handler leaves the queue object it was started for.
Leave(h) ==
    /\ running' = running \ {h} /\ orphans' = orphans \ {h}
    /\ activeJobs' = IF h \in running THEN activeJobs - 1 ELSE activeJobs

Returns(h) ==
    /\ finishedOn' = [finishedOn EXCEPT ![h[1]] = TRUE]
    /\ Leave(h)
    /\ UNCHANGED <<added, retried, jobs, processedOn, failedReason, attemptsMade,
                   timerVars, queueVars>>

ThrowsOnceMore(h) ==  \* mutant
    LET j == h[1]
    IN  /\ finishedOn' = [finishedOn EXCEPT ![j] = TRUE]
        /\ \E m \in MessagesOf(j) : failedReason' = [failedReason EXCEPT ![j] = m]
        /\ attemptsMade' = [attemptsMade EXCEPT ![j] = @ + 1]
        /\ retryTimers' = [retryTimers EXCEPT ![j] =
                             IF attemptsMade'[j] <= MaxAttempts THEN @ + 1 ELSE @]
        /\ Leave(h)
        /\ UNCHANGED <<added, retried, jobs, processedOn, delayTimers, queueVars>>
Throws(h) ==
    LET j == h[1]
    IN  /\ finishedOn' = [finishedOn EXCEPT ![j] = TRUE]
        /\ \E m \in MessagesOf(j) : failedReason' = [failedReason EXCEPT ![j] = m]
        /\ attemptsMade' = [attemptsMade EXCEPT ![j] = @ + 1]
        /\ retryTimers' = [retryTimers EXCEPT ![j] =
                             IF attemptsMade'[j] < MaxAttempts THEN @ + 1 ELSE @]
        /\ Leave(h)
        /\ UNCHANGED <<added, retried, jobs, processedOn, delayTimers, queueVars>>

\* The state of the job is reset and the job processed again.
Again(j) ==
    /\ finishedOn' = [finishedOn EXCEPT ![j] = FALSE]
    /\ failedReason' = [failedReason EXCEPT ![j] = "none"]
    /\ ProcessJob(j, [processedOn EXCEPT ![j] = FALSE])
    /\ UNCHANGED <<added, jobs, attemptsMade, delayTimers, orphans, queueVars>>

\* A retry timer, which nothing cancels, fires.
RetryFires(j) ==
    /\ retryTimers[j] > 0
    /\ retryTimers' = [retryTimers EXCEPT ![j] = @ - 1]
    /\ Again(j)
    /\ UNCHANGED retried

\* The caller retries a job, in whatever state it is.
RetryJob(j) ==
    /\ j \in Here \cap Retriable /\ j \notin retried
    /\ retried' = retried \cup {j}
    /\ Again(j)
    /\ UNCHANGED retryTimers

-----------------------------------------------------------------------------
\* removeJob(), and clean() and the removal of settled jobs, which call it.
RemoveJob(j) ==
    /\ j \in Here
    /\ jobs' = RemoveAt(jobs, CHOOSE i \in DOMAIN jobs : jobs[i] = j)
    /\ delayTimers' = delayTimers \ {j}
    /\ UNCHANGED <<added, retried, jobVars, retryTimers, runVars, orphans, queueVars>>

Process(n) ==
    /\ EnsureQueue
    /\ processor' = TRUE /\ concurrency' = n /\ loop' = TRUE
    /\ UNCHANGED <<added, retried, jobs, jobVars, timerVars, runVars, orphans>>

PauseQueue ==
    /\ queue = "running"
    /\ queue' = "paused" /\ loop' = FALSE
    /\ UNCHANGED <<added, retried, jobs, jobVars, timerVars, runVars, orphans,
                   processor, concurrency>>

ResumeQueueOnly ==  \* mutant
    /\ queue = "paused"
    /\ queue' = "running"
    /\ UNCHANGED <<added, retried, jobs, jobVars, timerVars, runVars, orphans,
                   processor, concurrency, loop>>
ResumeQueue ==
    /\ queue = "paused"
    /\ queue' = "running" /\ loop' = TRUE
    /\ UNCHANGED <<added, retried, jobs, jobVars, timerVars, runVars, orphans,
                   processor, concurrency>>

\* The queue object is dropped: what was started for it runs on.
DropInPlace(to) ==  \* mutant
    /\ queue \in {"running", "paused"}
    /\ queue' = to /\ loop' = FALSE
    /\ jobs' = << >> /\ delayTimers' = delayTimers \ Here
    /\ processor' = FALSE /\ concurrency' = 1 /\ activeJobs' = 0
    /\ UNCHANGED <<added, retried, jobVars, retryTimers, running, orphans>>
Drop(to) ==
    /\ queue \in {"running", "paused"}
    /\ queue' = to /\ loop' = FALSE
    /\ jobs' = << >> /\ delayTimers' = delayTimers \ Here
    /\ orphans' = orphans \cup running /\ running' = {}
    /\ processor' = FALSE /\ concurrency' = 1 /\ activeJobs' = 0
    /\ UNCHANGED <<added, retried, jobVars, retryTimers>>

Obliterate == Drop("none")
Close == Drop("closed")

-----------------------------------------------------------------------------
Next ==
    \/ \E j \in Jobs : \/ AddJob(j) \/ DelayPasses(j) \/ RetryFires(j)
                       \/ RetryJob(j) \/ RemoveJob(j)
    \/ \E h \in running \cup orphans : Returns(h) \/ Throws(h)
    \/ \E n \in Limits : Process(n)
    \/ Tick \/ PauseQueue \/ ResumeQueue \/ Obliterate \/ Close

Spec == Init /\ [][Next]_vars

\* The interval ticks, timers fire, and handlers return or throw; as there are
\* finitely many of each, it is enough that some one does.
Fairness ==
    /\ WF_vars(Tick)
    /\ WF_vars(\E j \in Jobs : RetryFires(j) \/ DelayPasses(j))
    /\ WF_vars(\E h \in running \cup orphans : Returns(h) \/ Throws(h))
FairSpec == Spec /\ Fairness

-----------------------------------------------------------------------------
\* The range of every variable.
TypeOK ==
    /\ added \subseteq Jobs /\ retried \subseteq added
    /\ jobs \in Seq(added)
    /\ processedOn \in [Jobs -> BOOLEAN] /\ finishedOn \in [Jobs -> BOOLEAN]
    /\ failedReason \in [Jobs -> Reasons]
    /\ attemptsMade \in [Jobs -> Nat]
    /\ delayTimers \subseteq Delayed \cap Here
    /\ retryTimers \in [Jobs -> Nat]
    /\ running \subseteq added \X Calls /\ orphans \subseteq added \X Calls
    /\ queue \in {"none", "running", "paused", "closed"}
    /\ processor \in BOOLEAN /\ loop \in BOOLEAN
    /\ concurrency \in Nat \ {0} /\ activeJobs \in Nat

\* activeJobs is the number of handlers at work for this queue, whatever has
\* been removed, retried or dropped while they ran; it never goes below zero.
ActiveCountExact == activeJobs = Cardinality(running)

\* The timers, the delay and the interval never start a job that is running:
\* only a caller's retryJob() can.
OnceAtATime ==
    \A j \in Jobs \ retried : Cardinality(HandlersOf(j)) <= 1

\* The status of a job, as getJobStatus() reports it with one correction: a job
\* that failed with an empty message is reported as completed, though it has
\* failed and a retry timer may start it again.
StatusMeant(j) == IF failedReason[j] = "empty" THEN "failed" ELSE StatusOf(j)

\* Apart from that one wrong answer, the status the queue reports is the truth
\* about the job, and the job goes through its life in order: active with one
\* handler and only then, completed for good, failed and tried again within its
\* attempts.  This holds of jobs removed and of queues dropped under their
\* handlers, too; retryJob() ends it.
Lifecycle ==
    INSTANCE JobLifecycle
    WITH status <- [j \in Jobs |-> IF j \in retried THEN "retried"
                                   ELSE IF j \notin added THEN "new" ELSE StatusMeant(j)],
         attempts <- attemptsMade,
         handlers <- [j \in Jobs |-> Cardinality(HandlersOf(j))]
FollowsLifecycle == Lifecycle!Spec

\* A job that fails is tried no more often than its options say: the attempts
\* made, the one under way and the one a timer will start fit in them.
AttemptsKept ==
    \A j \in Jobs \ retried :
        attemptsMade[j] + Cardinality(HandlersOf(j)) + retryTimers[j] <= MaxAttempts

\* Handlers are started only by a running queue, and with one more there are no
\* more of them than its concurrency.
StartsWithinLimit ==
    [][running' \ running # {} =>
         queue' = "running" /\ Cardinality(running') <= concurrency']_vars

\* While the queue is left open, no job without a delay waits for ever: in the
\* end all of them have been started or removed.
WaitingJobsRun ==
    (Waiting # {} /\ queue = "running" /\ processor)
        ~> (Waiting = {} \/ queue # "running" \/ ~processor)
=============================================================================
