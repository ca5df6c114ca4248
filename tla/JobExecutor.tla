---------------------------- MODULE JobExecutor ----------------------------
(***************************************************************************)
(* The executions of one job in src/core/jobs/job-executor.ts: attempts,   *)
(* timeouts, retries, cancellation and shutdown, over the circuit breaker  *)
(* the executor keeps for the job (jobs share nothing but the shutdown).   *)
(*                                                                         *)
(* A job function that times out is abandoned, not stopped: it goes on     *)
(* running beside the attempts that follow.  Functions may never return.   *)
(***************************************************************************)
EXTENDS Integers

CONSTANTS
    Execs,             \* slots for executions; a slot is used again
    MaxRetries,        \* options.maxRetries
    FailureThreshold,  \* options.circuitBreakerThreshold
    ResetTimeout,      \* options.circuitBreakerResetTimeout
    MaxFailures        \* bound: the breaker's count saturates here

ASSUME ExecutorAssumption ==
    /\ MaxRetries \in Nat
    /\ FailureThreshold \in Nat \ {0}
    /\ ResetTimeout \in Nat \ {0}
    /\ MaxFailures \in Nat /\ MaxFailures >= FailureThreshold

VARIABLES
    stage,      \* where each execution is; "idle" when it has settled
    attempts,   \* its count of attempts
    aborted,    \* whether its AbortController has been aborted
    fns,        \* the attempts whose job function is still running
    phase,      \* how far shutdown() is; isShuttingDown is phase # "up"
    state, failures, sinceFail   \* the job's circuit breaker

execVars    == <<stage, attempts, aborted, fns>>
breakerVars == <<state, failures, sinceFail>>
vars == <<execVars, phase, breakerVars>>

\* An attempt is a call of the breaker from the test of isOpen() to the record
\* of its outcome.
Attempting(e) == stage[e] \in {"running", "rejected"}
Breaker == INSTANCE CircuitBreaker WITH
    Calls <- Execs, MonitoringPeriod <- 0, stamps <- << >>,
    call <- [e \in Execs |-> IF Attempting(e) THEN "running" ELSE "idle"]

\* activeExecutions, which shutdown() clears.
Unsettled == {e \in Execs : stage[e] # "idle"}
Active == IF phase = "down" THEN {} ELSE Unsettled

-----------------------------------------------------------------------------
Init ==
    /\ stage = [e \in Execs |-> "idle"]
    /\ attempts = [e \in Execs |-> 0]
    /\ aborted = [e \in Execs |-> FALSE]
    /\ fns = [e \in Execs |-> {}]
    /\ phase = "up"
    /\ state = "CLOSED" /\ failures = 0 /\ sinceFail = ResetTimeout

\* execute() up to the await of checkMemoryUsage.
Execute(e) ==
    /\ phase = "up"
    /\ stage[e] = "idle" /\ fns[e] = {}
    /\ stage' = [stage EXCEPT ![e] = "checking"]
    /\ attempts' = [attempts EXCEPT ![e] = 0]
    /\ aborted' = [aborted EXCEPT ![e] = FALSE]
    /\ UNCHANGED <<fns, phase, breakerVars>>

\* The heap is above its threshold: execute() throws.
OutOfMemory(e) ==
    /\ stage[e] = "checking"
    /\ stage' = [stage EXCEPT ![e] = "idle"]
    /\ UNCHANGED <<attempts, aborted, fns, phase, breakerVars>>

\* The next attempt: an open breaker ends the execution, an aborted signal
\* rejects the attempt at once, otherwise the job function starts.
Launch(e) ==
    /\ stage' = [stage EXCEPT ![e] = "running"]
    /\ fns' = [fns EXCEPT ![e] = @ \cup {attempts[e] + 1}]

AttemptUnasked(e) ==  \* mutant
    /\ stage[e] \in {"checking", "sleeping"}
    /\ attempts' = [attempts EXCEPT ![e] = @ + 1]
    /\ IF state = "OPEN"
       THEN stage' = [stage EXCEPT ![e] = "idle"] /\ UNCHANGED fns
       ELSE Launch(e)
    /\ UNCHANGED <<aborted, phase, breakerVars>>
Attempt(e) ==
    /\ stage[e] \in {"checking", "sleeping"}
    /\ attempts' = [attempts EXCEPT ![e] = @ + 1]
    /\ IF state # "OPEN" /\ ~aborted[e]
       THEN Launch(e)
       ELSE /\ stage' = [stage EXCEPT ![e] =
                           IF state = "OPEN" THEN "idle" ELSE "rejected"]
            /\ UNCHANGED fns
    /\ UNCHANGED <<aborted, phase, breakerVars>>

\* The job function of the current attempt returned in time.
Succeed(e) ==
    /\ stage[e] = "running" /\ attempts[e] \in fns[e]
    /\ stage' = [stage EXCEPT ![e] = "idle"]
    /\ fns' = [fns EXCEPT ![e] = @ \ {attempts[e]}]
    /\ Breaker!OnSuccess
    /\ UNCHANGED <<attempts, aborted, phase>>

\* The catch of an attempt: record the failure, then give up or back off.
AttemptFails(e) ==
    /\ Breaker!OnFailure
    /\ stage' = [stage EXCEPT ![e] =
         IF phase = "up" /\ attempts[e] <= MaxRetries THEN "sleeping" ELSE "idle"]
    /\ UNCHANGED <<attempts, aborted, phase>>

\* The job function threw.
Throws(e) ==
    /\ stage[e] = "running" /\ attempts[e] \in fns[e]
    /\ fns' = [fns EXCEPT ![e] = @ \ {attempts[e]}]
    /\ AttemptFails(e)

\* The timeout of the attempt fires; its function runs on.
TimesOutOnce(e) ==  \* mutant
    /\ stage[e] = "running" /\ attempts[e] = 1
    /\ AttemptFails(e)
    /\ UNCHANGED fns
TimesOut(e) ==
    /\ stage[e] = "running"
    /\ AttemptFails(e)
    /\ UNCHANGED fns

\* The rejection of an aborted attempt reaches the catch.
RejectedUnrecorded(e) ==  \* mutant
    /\ stage[e] = "rejected"
    /\ stage' = [stage EXCEPT ![e] =
         IF phase = "up" /\ attempts[e] <= MaxRetries THEN "sleeping" ELSE "idle"]
    /\ UNCHANGED <<attempts, aborted, fns, phase, breakerVars>>
Rejected(e) ==
    /\ stage[e] = "rejected"
    /\ AttemptFails(e)
    /\ UNCHANGED fns

\* A function nobody waits for any more returns or throws.
ReturnsLate(e) ==
    /\ \E n \in fns[e] :
         /\ ~(stage[e] = "running" /\ n = attempts[e])
         /\ fns' = [fns EXCEPT ![e] = @ \ {n}]
    /\ UNCHANGED <<stage, attempts, aborted, phase, breakerVars>>

-----------------------------------------------------------------------------
\* abort() of the controllers of S: an attempt under way is rejected.
AbortRunning(S) ==  \* mutant
    LET R == {e \in S : stage[e] = "running"}
    IN  /\ aborted' = [e \in Execs |-> aborted[e] \/ e \in R]
        /\ stage' = [e \in Execs |-> IF e \in R THEN "rejected" ELSE stage[e]]
Abort(S) ==
    /\ aborted' = [e \in Execs |-> aborted[e] \/ e \in S]
    /\ stage' = [e \in Execs |->
         IF e \in S /\ stage[e] = "running" THEN "rejected" ELSE stage[e]]

CancelExecution(e) ==
    /\ e \in Active
    /\ Abort({e})
    /\ UNCHANGED <<attempts, fns, phase, breakerVars>>

ResetCircuitBreaker ==
    /\ UNCHANGED <<execVars, phase>>
    /\ Breaker!Reset

BeginShutdown ==
    /\ phase = "up"
    /\ phase' = "draining"
    /\ UNCHANGED <<execVars, breakerVars>>

\* Nothing is active, or the grace period is over, which may be at any time:
\* cancel what is left, drop the breakers and the active executions.  A breaker
\* asked for later is a new one.
EndShutdown ==
    /\ phase = "draining"
    /\ phase' = "down"
    /\ Abort(Active)
    /\ state' = "CLOSED" /\ failures' = 0 /\ sinceFail' = ResetTimeout
    /\ UNCHANGED <<attempts, fns>>

\* Time, as far as the breaker looks at it.
Tick ==
    /\ UNCHANGED <<execVars, phase>>
    /\ Breaker!Tick

-----------------------------------------------------------------------------
Advance(e) == Attempt(e) \/ TimesOut(e) \/ Rejected(e)

Next ==
    \/ \E e \in Execs :
         \/ Execute(e) \/ OutOfMemory(e) \/ Advance(e)
         \/ Succeed(e) \/ Throws(e) \/ ReturnsLate(e) \/ CancelExecution(e)
    \/ ResetCircuitBreaker
    \/ BeginShutdown \/ EndShutdown
    \/ Tick

Spec == Init /\ [][Next]_vars

\* Timers fire and promises settle; job functions need not return.
Fairness == \A e \in Execs : WF_vars(Advance(e))

FairSpec == Spec /\ Fairness

-----------------------------------------------------------------------------
TypeOK ==
    /\ stage \in [Execs -> {"idle", "checking", "running", "rejected", "sleeping"}]
    /\ attempts \in [Execs -> 0..MaxRetries + 1]
    /\ aborted \in [Execs -> BOOLEAN]
    /\ fns \in [Execs -> SUBSET (1..MaxRetries + 1)]
    /\ \A e \in Execs : fns[e] \subseteq 1..attempts[e]
    /\ phase \in {"up", "draining", "down"}
    /\ state \in {"CLOSED", "OPEN"}
    /\ failures \in 0..MaxFailures
    /\ sinceFail \in 0..ResetTimeout

\* The executor records by hand what CircuitBreaker.execute would: seen through
\* its attempts, whatever retries, timeouts, late functions, cancellations and
\* shutdown do, each admitted attempt has one outcome recorded, an attempt the
\* open breaker turned away has none, and the breaker takes only its own steps
\* until shutdown() drops it.
Discarded == phase = "draining" /\ phase' = "down"
RecordsLikeABreaker ==
    Breaker!Init /\ [][Breaker!Next \/ Discarded]_(Breaker!vars)

\* Once cancelled, an execution starts no function any more, although every
\* remaining retry is still gone through.
CancelledStartsNothing ==
    [][\A e \in Execs : aborted[e] /\ aborted'[e] => fns'[e] \subseteq fns[e]]_vars

\* Nor does any execution after shutdown(), the ones that slept through the
\* cancellation included.
NothingStartsAfterShutdown ==
    [][phase = "down" => \A e \in Execs : fns'[e] \subseteq fns[e]]_vars

\* Every execution settles, though none of its functions ever returns.
EveryExecutionSettles ==
    \A e \in Execs : stage[e] # "idle" ~> stage[e] = "idle"

=============================================================================
