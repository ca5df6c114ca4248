------------------------- MODULE JobExecutor_proofs -------------------------
(***************************************************************************)
(* Proofs about the executor for every set of executions, number of        *)
(* retries and breaker options: its types, that its records make up a      *)
(* circuit breaker, and what cancelling and shutting down guarantee.       *)
(***************************************************************************)
EXTENDS JobExecutor, TLAPS

\* An execution that is to attempt once more has an attempt left, and after
\* shutdown() every execution that has not settled is aborted.
AttemptsLeft ==
    \A e \in Execs :
      stage[e] \in {"checking", "sleeping"} => attempts[e] <= MaxRetries
DownIsAborted == phase = "down" => \A e \in Unsettled : aborted[e]

IInv == TypeOK /\ AttemptsLeft /\ DownIsAborted

Stages == {"idle", "checking", "running", "rejected", "sleeping"}
BreakerOK ==
    state \in {"CLOSED", "OPEN"} /\ failures \in 0..MaxFailures /\ sinceFail \in 0..ResetTimeout
ExecsOK ==
    /\ stage \in [Execs -> Stages]
    /\ attempts \in [Execs -> 0..MaxRetries + 1]
    /\ aborted \in [Execs -> BOOLEAN]
    /\ fns \in [Execs -> SUBSET (1..MaxRetries + 1)]
    /\ \A e \in Execs : fns[e] \subseteq 1..attempts[e]

LEMMA TypeParts ==
  LET Parts == ExecsOK /\ BreakerOK /\ phase \in {"up", "draining", "down"}
  IN  (TypeOK <=> Parts) /\ (TypeOK' <=> Parts')
BY DEF TypeOK, ExecsOK, BreakerOK, Stages

-----------------------------------------------------------------------------
\* What the breaker's operations do to its state, without a window.
LEMMA BreakerSteps ==
  ASSUME BreakerOK
  PROVE  /\ Breaker!OnSuccess => BreakerOK'
         /\ Breaker!OnFailure => BreakerOK'
         /\ Breaker!Reset => BreakerOK'
         /\ Breaker!Tick => BreakerOK'
BY ExecutorAssumption
   DEF BreakerOK, Breaker!OnSuccess, Breaker!OnFailure, Breaker!Reset, Breaker!Tick,
       Breaker!Up, Breaker!Trips, Breaker!Windowed

\* The catch of an attempt leaves an execution settled or with an attempt left.
LEMMA FailureOK ==
  ASSUME IInv, NEW e \in Execs, AttemptFails(e), Attempting(e),
         fns' \in [Execs -> SUBSET (1..MaxRetries + 1)],
         \A d \in Execs : fns'[d] \subseteq fns[d]
  PROVE  IInv'
<1> USE ExecutorAssumption
<1>1. BreakerOK'
  BY BreakerSteps, TypeParts DEF IInv, AttemptFails
<1>2. ExecsOK'
  BY TypeParts DEF IInv, ExecsOK, AttemptFails, Stages
<1>3. AttemptsLeft'
  BY TypeParts DEF IInv, AttemptsLeft, AttemptFails, ExecsOK
<1>4. DownIsAborted'
  BY TypeParts DEF IInv, DownIsAborted, AttemptFails, Attempting, Unsettled, ExecsOK
<1> QED BY <1>1, <1>2, <1>3, <1>4, TypeParts DEF IInv, AttemptFails

-----------------------------------------------------------------------------
LEMMA InitOK == Init => IInv
BY ExecutorAssumption DEF Init, IInv, TypeOK, AttemptsLeft, DownIsAborted

LEMMA NextOK == IInv /\ [Next]_vars => IInv'
<1> SUFFICES ASSUME IInv, [Next]_vars PROVE IInv'
  OBVIOUS
<1> USE ExecutorAssumption
<1>0. ExecsOK /\ BreakerOK /\ phase \in {"up", "draining", "down"}
  BY TypeParts DEF IInv
<1>1. ASSUME NEW e \in Execs, Execute(e) PROVE IInv'
  BY <1>1 DEF Execute, IInv, TypeOK, AttemptsLeft, DownIsAborted, breakerVars
<1>2. ASSUME NEW e \in Execs, OutOfMemory(e) PROVE IInv'
  BY <1>2 DEF OutOfMemory, IInv, TypeOK, AttemptsLeft, DownIsAborted, Unsettled,
              breakerVars
<1>3. ASSUME NEW e \in Execs, Attempt(e) PROVE IInv'
  <2>1. /\ attempts[e] \in 0..MaxRetries
        /\ attempts' = [attempts EXCEPT ![e] = attempts[e] + 1]
    BY <1>0, <1>3 DEF Attempt, IInv, AttemptsLeft, ExecsOK
  <2>2. /\ stage' \in [Execs -> Stages]
        /\ stage'[e] \notin {"checking", "sleeping"}
        /\ \A d \in Execs \ {e} : stage'[d] = stage[d]
    BY <1>0, <1>3 DEF Attempt, Launch, ExecsOK, Stages
  <2>3. /\ fns' \in [Execs -> SUBSET (1..MaxRetries + 1)]
        /\ fns'[e] \subseteq fns[e] \cup {attempts[e] + 1}
        /\ \A d \in Execs \ {e} : fns'[d] = fns[d]
    <3>1. CASE Launch(e)
      <4>1. fns[e] \cup {attempts[e] + 1} \in SUBSET (1..MaxRetries + 1)
        BY <1>0, <2>1 DEF ExecsOK
      <4> QED BY <1>0, <3>1, <4>1 DEF Launch, ExecsOK
    <3>2. CASE UNCHANGED fns
      BY <1>0, <3>2 DEF ExecsOK
    <3> QED BY <1>3, <3>1, <3>2 DEF Attempt
  <2>4. ExecsOK'
    <3>1. attempts' \in [Execs -> 0..MaxRetries + 1]
      BY <1>0, <2>1 DEF ExecsOK
    <3>2. ASSUME NEW d \in Execs PROVE fns'[d] \subseteq 1..attempts'[d]
      BY <1>0, <2>1, <2>3 DEF ExecsOK
    <3> QED BY <1>0, <1>3, <2>2, <2>3, <3>1, <3>2 DEF ExecsOK, Attempt
  <2>5. AttemptsLeft'
    BY <1>0, <2>1, <2>2 DEF AttemptsLeft, IInv, ExecsOK
  <2>6. DownIsAborted'
    BY <1>3, <2>2 DEF Attempt, IInv, DownIsAborted, Unsettled
  <2> QED BY <1>0, <1>3, <2>4, <2>5, <2>6, TypeParts
          DEF Attempt, IInv, BreakerOK, breakerVars
<1>4. ASSUME NEW e \in Execs, Succeed(e) PROVE IInv'
  <2>1. BreakerOK'
    BY <1>0, <1>4, BreakerSteps DEF Succeed
  <2>2. ExecsOK'
    BY <1>0, <1>4 DEF Succeed, ExecsOK, Stages
  <2>3. AttemptsLeft' /\ DownIsAborted'
    BY <1>0, <1>4 DEF Succeed, IInv, AttemptsLeft, DownIsAborted, Unsettled, ExecsOK
  <2> QED BY <1>0, <1>4, <2>1, <2>2, <2>3, TypeParts DEF Succeed, IInv
<1>5. ASSUME NEW e \in Execs, Throws(e) \/ TimesOut(e) \/ Rejected(e) PROVE IInv'
  <2>1. /\ fns' \in [Execs -> SUBSET (1..MaxRetries + 1)]
        /\ \A d \in Execs : fns'[d] \subseteq fns[d]
    BY <1>0, <1>5 DEF Throws, TimesOut, Rejected, ExecsOK
  <2>2. AttemptFails(e) /\ Attempting(e)
    BY <1>5 DEF Throws, TimesOut, Rejected, Attempting
  <2> QED BY <2>1, <2>2, FailureOK
<1>6. ASSUME NEW e \in Execs, ReturnsLate(e) PROVE IInv'
  <2>1. PICK n \in fns[e] : fns' = [fns EXCEPT ![e] = @ \ {n}]
    BY <1>6 DEF ReturnsLate
  <2>2. /\ fns' \in [Execs -> SUBSET (1..MaxRetries + 1)]
        /\ \A d \in Execs : fns'[d] \subseteq fns[d]
    BY <1>0, <2>1 DEF ExecsOK
  <2> QED BY <1>0, <1>6, <2>2
          DEF ReturnsLate, IInv, TypeOK, AttemptsLeft, DownIsAborted, Unsettled, breakerVars
<1>7. ASSUME NEW e \in Execs, CancelExecution(e) PROVE IInv'
  <2>1. aborted' = [d \in Execs |-> aborted[d] \/ d \in {e}]
    BY <1>7 DEF CancelExecution, Abort
  <2>2. stage' = [d \in Execs |->
           IF d \in {e} /\ stage[d] = "running" THEN "rejected" ELSE stage[d]]
    BY <1>7 DEF CancelExecution, Abort
  <2>3. aborted' \in [Execs -> BOOLEAN] /\ \A d \in Execs : aborted[d] => aborted'[d]
    BY <1>0, <2>1 DEF ExecsOK
  <2> QED BY <1>0, <1>7, <2>2, <2>3
          DEF CancelExecution, IInv, TypeOK, AttemptsLeft, DownIsAborted, Unsettled,
              ExecsOK, breakerVars
<1>8. ASSUME ResetCircuitBreaker \/ Tick PROVE IInv'
  <2>1. BreakerOK' /\ UNCHANGED <<execVars, phase>>
    BY <1>0, <1>8, BreakerSteps DEF ResetCircuitBreaker, Tick
  <2> QED BY <1>0, <2>1, TypeParts
          DEF IInv, ExecsOK, AttemptsLeft, DownIsAborted, Unsettled, execVars
<1>9. CASE BeginShutdown
  BY <1>9 DEF BeginShutdown, IInv, TypeOK, AttemptsLeft, DownIsAborted, execVars, breakerVars
<1>10. CASE EndShutdown
  <2>1. aborted' = [d \in Execs |-> aborted[d] \/ d \in Unsettled]
    BY <1>10 DEF EndShutdown, Abort, Active
  <2>2. stage' = [d \in Execs |->
           IF d \in Unsettled /\ stage[d] = "running" THEN "rejected" ELSE stage[d]]
    BY <1>10 DEF EndShutdown, Abort, Active
  <2>3. aborted' \in [Execs -> BOOLEAN] /\ \A d \in Unsettled : aborted'[d]
    BY <1>0, <2>1 DEF ExecsOK, Unsettled
  <2>4. Unsettled' = Unsettled
    BY <2>2 DEF Unsettled
  <2>5. stage' \in [Execs -> Stages]
    BY <1>0, <2>2 DEF ExecsOK, Stages
  <2>6. ExecsOK' /\ BreakerOK'
    BY <1>0, <1>10, <2>3, <2>5 DEF EndShutdown, ExecsOK, BreakerOK
  <2>7. AttemptsLeft'
    BY <1>0, <1>10, <2>2 DEF EndShutdown, IInv, AttemptsLeft, ExecsOK
  <2>8. DownIsAborted'
    BY <2>3, <2>4 DEF DownIsAborted
  <2> QED BY <1>10, <2>6, <2>7, <2>8, TypeParts DEF EndShutdown, IInv
<1>11. CASE UNCHANGED vars
  BY <1>11 DEF vars, execVars, breakerVars, IInv, TypeOK, AttemptsLeft, DownIsAborted, Unsettled
<1> QED BY <1>1, <1>2, <1>3, <1>4, <1>5, <1>6, <1>7, <1>8, <1>9, <1>10, <1>11
        DEF Next, Advance

LEMMA Invariance == Spec => []IInv
BY InitOK, NextOK, PTL DEF Spec

\* Executions count no attempt past maxRetries + 1, only functions of attempts
\* that were made run, and the breaker is never HALF_OPEN.
THEOREM TypeCorrect == Spec => []TypeOK
<1>1. IInv => TypeOK
  BY DEF IInv
<1> QED BY <1>1, Invariance, PTL

-----------------------------------------------------------------------------
\* Executions that keep their attempts under way keep the breaker's calls.
LEMMA CallsKept ==
  ASSUME \A d \in Execs : Attempting(d)' <=> Attempting(d)
  PROVE  Breaker!vars' = Breaker!vars <=> UNCHANGED breakerVars
BY DEF Breaker!vars, breakerVars

\* Of the executor's attempts and their records one circuit breaker could have
\* made all: the step simulation behind RecordsLikeABreaker.
THEOREM ImplementsBreaker == Spec => RecordsLikeABreaker
<1>1. Init => Breaker!Init
  BY DEF Init, Breaker!Init, Attempting
<1>2. IInv /\ [Next]_vars => [Breaker!Next \/ Discarded]_(Breaker!vars)
  <2> SUFFICES ASSUME IInv, [Next]_vars
               PROVE  Breaker!Next \/ Discarded \/ Breaker!vars' = Breaker!vars
    OBVIOUS
  <2>0. ExecsOK
    BY TypeParts DEF IInv
  <2> DEFINE Calls(st) ==
        [d \in Execs |-> IF st[d] \in {"running", "rejected"} THEN "running" ELSE "idle"]
  <2>1. ASSUME NEW e \in Execs, Execute(e) \/ OutOfMemory(e)
        PROVE  Breaker!vars' = Breaker!vars
    BY <2>0, <2>1, CallsKept DEF Execute, OutOfMemory, Attempting, ExecsOK
  <2>2. ASSUME NEW e \in Execs, Attempt(e)
        PROVE  Breaker!Next \/ Breaker!vars' = Breaker!vars
    <3>1. CASE state = "OPEN"
      BY <2>0, <2>2, <3>1, CallsKept DEF Attempt, Attempting, ExecsOK
    <3>2. CASE state # "OPEN"
      <4>1. Calls(stage') = [Calls(stage) EXCEPT ![e] = "running"]
        BY <2>0, <2>2, <3>2 DEF Attempt, Launch, ExecsOK
      <4>2. Breaker!Admit(e)
        BY <2>0, <2>2, <3>2, <4>1 DEF Attempt, Breaker!Admit, Attempting, breakerVars
      <4> QED BY <4>2 DEF Breaker!Next
    <3> QED BY <3>1, <3>2
  <2>3. ASSUME NEW e \in Execs, Succeed(e) PROVE Breaker!Next
    <3>1. Calls(stage') = [Calls(stage) EXCEPT ![e] = "idle"]
      BY <2>0, <2>3 DEF Succeed, ExecsOK
    <3>2. Breaker!Succeed(e)
      BY <2>3, <3>1 DEF Succeed, Breaker!Succeed, Attempting
    <3> QED BY <3>2 DEF Breaker!Next
  <2>4. ASSUME NEW e \in Execs, Throws(e) \/ TimesOut(e) \/ Rejected(e)
        PROVE  Breaker!Next
    <3>1. AttemptFails(e) /\ Attempting(e)
      BY <2>4 DEF Throws, TimesOut, Rejected, Attempting
    <3>2. Calls(stage') = [Calls(stage) EXCEPT ![e] = "idle"]
      BY <2>0, <3>1 DEF AttemptFails, ExecsOK
    <3>3. Breaker!Fail(e)
      BY <3>1, <3>2 DEF AttemptFails, Breaker!Fail, Attempting
    <3> QED BY <3>3 DEF Breaker!Next
  <2>5. ASSUME NEW e \in Execs, ReturnsLate(e) \/ CancelExecution(e)
        PROVE  Breaker!vars' = Breaker!vars
    BY <2>0, <2>5, CallsKept DEF ReturnsLate, CancelExecution, Abort, Attempting, ExecsOK
  <2>6. CASE ResetCircuitBreaker \/ Tick
    BY <2>6 DEF ResetCircuitBreaker, Tick, Breaker!Next
  <2>7. CASE BeginShutdown
    BY <2>7, CallsKept DEF BeginShutdown, Attempting, execVars
  <2>8. CASE EndShutdown
    BY <2>8 DEF EndShutdown, Discarded
  <2>9. CASE UNCHANGED vars
    BY <2>9, CallsKept DEF vars, Attempting, execVars
  <2> QED BY <2>1, <2>2, <2>3, <2>4, <2>5, <2>6, <2>7, <2>8, <2>9 DEF Next, Advance
<1> QED BY <1>1, <1>2, Invariance, PTL DEF Spec, RecordsLikeABreaker

-----------------------------------------------------------------------------
\* Only Launch starts a function.
LEMMA OnlyLaunchStarts ==
  ASSUME IInv, [Next]_vars, NEW e \in Execs, ~(fns'[e] \subseteq fns[e])
  PROVE  stage[e] # "idle" /\ ~aborted[e]
<1>0. ExecsOK
  BY TypeParts DEF IInv
<1>1. ASSUME NEW d \in Execs, Attempt(d)
      PROVE  stage[e] # "idle" /\ ~aborted[e]
  BY <1>0, <1>1 DEF Attempt, Launch, ExecsOK
<1>2. ASSUME NEW d \in Execs,
             \/ Execute(d) \/ OutOfMemory(d) \/ TimesOut(d) \/ Rejected(d)
             \/ Succeed(d) \/ Throws(d) \/ ReturnsLate(d) \/ CancelExecution(d)
      PROVE  FALSE
  BY <1>0, <1>2
     DEF Execute, OutOfMemory, TimesOut, Rejected, Succeed, Throws, ReturnsLate,
         CancelExecution, ExecsOK
<1>3. CASE ResetCircuitBreaker \/ BeginShutdown \/ EndShutdown \/ Tick \/ UNCHANGED vars
  BY <1>3 DEF ResetCircuitBreaker, BeginShutdown, EndShutdown, Tick, vars, execVars
<1> QED BY <1>1, <1>2, <1>3 DEF Next, Advance

\* No retry of a cancelled execution reaches its job function.
THEOREM CancellationHolds == Spec => CancelledStartsNothing
<1>1. IInv /\ [Next]_vars
        => [\A e \in Execs : aborted[e] /\ aborted'[e] => fns'[e] \subseteq fns[e]]_vars
  BY OnlyLaunchStarts
<1> QED BY <1>1, Invariance, PTL DEF Spec, CancelledStartsNothing

\* After shutdown() whatever has not settled is aborted, asleep or not.
THEOREM ShutdownHolds == Spec => NothingStartsAfterShutdown
<1>1. IInv /\ [Next]_vars
        => [phase = "down" => \A e \in Execs : fns'[e] \subseteq fns[e]]_vars
  BY OnlyLaunchStarts DEF IInv, DownIsAborted, Unsettled
<1> QED BY <1>1, Invariance, PTL DEF Spec, NothingStartsAfterShutdown
=============================================================================
