--------------------------- MODULE CircuitBreaker ---------------------------
(***************************************************************************)
(* The circuit breaker of src/core/utilities/circuit-breaker.ts: one       *)
(* breaker shared by concurrent callers of `execute`.  `execute` decides   *)
(* synchronously whether to admit the call, awaits the protected function, *)
(* and records the outcome when the promise settles, so any number of      *)
(* calls may be in flight across a change of state.                        *)
(*                                                                         *)
(* Time is kept as ages that saturate: `sinceFail` is                      *)
(* Date.now() - lastFailTime, up to ResetTimeout; `stamps` holds the age   *)
(* of every recorded failure, up to MonitoringPeriod + 1 (expired).        *)
(***************************************************************************)
EXTENDS Integers, Sequences, FiniteSets

CONSTANTS
    Calls,             \* concurrent callers of execute()
    FailureThreshold,  \* options.failureThreshold
    ResetTimeout,      \* options.resetTimeout, in ticks
    MonitoringPeriod,  \* options.monitoringPeriod in ticks; 0 when not set
    MaxFailures        \* bound: the failure count saturates here

ASSUME BreakerAssumption ==
    /\ FailureThreshold \in Nat \ {0}
    /\ ResetTimeout \in Nat \ {0}
    /\ MonitoringPeriod \in Nat
    /\ MaxFailures \in Nat /\ MaxFailures >= FailureThreshold

VARIABLES
    state,      \* "CLOSED", "OPEN" or "HALF_OPEN"
    failures,   \* the count compared with the threshold
    stamps,     \* failureTimestamps, as ages, oldest first
    sinceFail,  \* age of lastFailTime
    call        \* what each caller's execute() is doing

vars == <<state, failures, stamps, sinceFail, call>>

Windowed == MonitoringPeriod > 0
Running  == {c \in Calls : call[c] = "running"}

\* Up(n, max): n + 1, saturating at max.
Up(n, max) == IF n < max THEN n + 1 ELSE max

\* Only the comparison with the threshold matters: older stamps beyond
\* MaxFailures cannot change it and are dropped.
Latest(s) == IF Len(s) <= MaxFailures
             THEN s
             ELSE SubSeq(s, Len(s) - MaxFailures + 1, Len(s))

\* onFailure's comparison with the cutoff.
InWindowAlways(age) == TRUE  \* mutant
InWindow(age) == age <= MonitoringPeriod

\* onFailure's test for opening.
TripsLate(n) == n > FailureThreshold  \* mutant
Trips(n) == n >= FailureThreshold

\* execute()'s test of an OPEN breaker.
CooledDownEarly == sinceFail >= ResetTimeout - 1  \* mutant
CooledDownNever == sinceFail > ResetTimeout       \* mutant
CooledDown == sinceFail >= ResetTimeout

-----------------------------------------------------------------------------
Init ==
    /\ state = "CLOSED"
    /\ failures = 0
    /\ stamps = << >>
    /\ sinceFail = ResetTimeout
    /\ call = [c \in Calls |-> "idle"]

\* execute() of an OPEN breaker that is still cooling down throws.
Reject(c) ==
    /\ call[c] # "running"
    /\ state = "OPEN" /\ ~CooledDown
    /\ call' = [call EXCEPT ![c] = "rejected"]
    /\ UNCHANGED <<state, failures, stamps, sinceFail>>

\* execute() admits the call; an OPEN breaker past its reset timeout becomes
\* HALF_OPEN first.
Admit(c) ==
    /\ call[c] # "running"
    /\ state = "OPEN" => CooledDown
    /\ state' = IF state = "OPEN" THEN "HALF_OPEN" ELSE state
    /\ call' = [call EXCEPT ![c] = "running"]
    /\ UNCHANGED <<failures, stamps, sinceFail>>

\* onSuccess, also reached through recordSuccess.
OnSuccess ==
    /\ failures' = 0
    /\ stamps' = << >>
    /\ state' = "CLOSED"
    /\ UNCHANGED sinceFail

\* onFailure, also reached through recordFailure.  With a window, the loop
\* shifts the oldest stamps out, n of them, until one is recent enough; the one
\* just pushed is.
OnFailure ==
    /\ sinceFail' = 0
    /\ IF Windowed
       THEN \E n \in 0..Len(stamps) :
              /\ \A i \in 1..n : ~InWindow(stamps[i])
              /\ n < Len(stamps) => InWindow(stamps[n + 1])
              /\ stamps' = Latest(Append(SubSeq(stamps, n + 1, Len(stamps)), 0))
              /\ failures' = Len(stamps')
       ELSE /\ failures' = Up(failures, MaxFailures)
            /\ UNCHANGED stamps
    /\ state' = IF Trips(failures') THEN "OPEN" ELSE state

Succeed(c) ==
    /\ call[c] = "running"
    /\ call' = [call EXCEPT ![c] = "idle"]
    /\ OnSuccess

Fail(c) ==
    /\ call[c] = "running"
    /\ call' = [call EXCEPT ![c] = "idle"]
    /\ OnFailure

\* reset(), an operator's decision.
Reset ==
    /\ failures' = 0
    /\ stamps' = << >>
    /\ state' = "CLOSED"
    /\ UNCHANGED <<sinceFail, call>>

Tick ==
    /\ sinceFail' = Up(sinceFail, ResetTimeout)
    /\ stamps' = [i \in DOMAIN stamps |-> Up(stamps[i], MonitoringPeriod + 1)]
    /\ UNCHANGED <<state, failures, call>>

Next ==
    \/ \E c \in Calls : Reject(c) \/ Admit(c) \/ Succeed(c) \/ Fail(c)
    \/ Reset
    \/ Tick

Spec == Init /\ [][Next]_vars

\* Time passes, protected functions settle, and somebody keeps calling.
Fairness ==
    /\ WF_vars(Tick)
    /\ \A c \in Calls : WF_vars(Succeed(c) \/ Fail(c)) /\ WF_vars(Admit(c))

FairSpec == Spec /\ Fairness

-----------------------------------------------------------------------------
TypeOK ==
    /\ state \in {"CLOSED", "OPEN", "HALF_OPEN"}
    /\ failures \in 0..MaxFailures
    /\ stamps \in Seq(0..MonitoringPeriod + 1) /\ Len(stamps) <= MaxFailures
    /\ sinceFail \in 0..ResetTimeout
    /\ call \in [Calls -> {"idle", "running", "rejected"}]

\* A breaker whose failure count has reached the threshold is not CLOSED, and
\* one that is CLOSED has counted fewer: late results of calls admitted before
\* the breaker opened, in any order, never leave a tripped count behind a
\* closed breaker (onSuccess, onFailure and reset all touch both).
TrippedIsNotClosed == failures >= FailureThreshold => state # "CLOSED"

\* With a monitoring window, a breaker opens only on as many failures as the
\* threshold asks for, all of them recent: what an earlier outage left in
\* failureTimestamps, and the stale count between two failures, open nothing.
\* docs/CIRCUIT_BREAKER.md says otherwise ("does not use a sliding time window"):
\* InWindowAlways, whose count only a success lowers, is the rule it gives.
OpensOnRecentFailures ==
    [][Windowed /\ state # "OPEN" /\ state' = "OPEN" =>
         Cardinality({i \in DOMAIN stamps' : stamps'[i] <= MonitoringPeriod})
           >= FailureThreshold]_vars

\* While execute() is called again and again, a breaker does not stay OPEN for
\* ever: stragglers that fail push lastFailTime, but only finitely often.
OpenIsLeft == state = "OPEN" ~> state # "OPEN"
=============================================================================
