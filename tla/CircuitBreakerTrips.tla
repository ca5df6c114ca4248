------------------------ MODULE CircuitBreakerTrips ------------------------
(***************************************************************************)
(* The circuit breaker with one history variable, which the code does not  *)
(* keep: how long ago a failure last tripped it.  The breaker itself       *)
(* forgets: pruning lowers the count of a breaker that is still OPEN, and  *)
(* lastFailTime moves with every straggler.                                *)
(***************************************************************************)
EXTENDS CircuitBreaker

VARIABLE
    sinceTrip  \* age of the last failure that found the count at the
               \* threshold, up to ResetTimeout; ResetTimeout also when there
               \* is none, or when a success or reset() has ended the trip

varsH == <<vars, sinceTrip>>

InitH == Init /\ sinceTrip = ResetTimeout

RejectH(c) == Reject(c) /\ UNCHANGED sinceTrip
AdmitH(c)  == Admit(c)  /\ UNCHANGED sinceTrip

SucceedH(c) == Succeed(c) /\ sinceTrip' = ResetTimeout

FailH(c) ==
    /\ Fail(c)
    /\ sinceTrip' = IF failures' >= FailureThreshold THEN 0 ELSE sinceTrip

ResetH == Reset /\ sinceTrip' = ResetTimeout
TickH  == Tick /\ sinceTrip' = Up(sinceTrip, ResetTimeout)

NextH ==
    \/ \E c \in Calls : RejectH(c) \/ AdmitH(c) \/ SucceedH(c) \/ FailH(c)
    \/ ResetH
    \/ TickH

SpecH == InitH /\ [][NextH]_varsH

FairSpecH == SpecH /\ Fairness

-----------------------------------------------------------------------------
\* After a failure that finds the count at the threshold, execute() starts no
\* call for ResetTimeout, whatever failures of stragglers are recorded meanwhile
\* and however many failures the window drops from the count.  Two things end the
\* cool-down before its time, as the code has it: a success, the late one of a
\* call admitted before the trip included (onSuccess closes the breaker from any
\* state), and an operator's reset().
NoAdmissionWhileCooling ==
    [][\A c \in Calls :
         call[c] # "running" /\ call'[c] = "running" => sinceTrip = ResetTimeout]_varsH
=============================================================================
