----------------------- MODULE CircuitBreaker_proofs -----------------------
(***************************************************************************)
(* Proofs about the circuit breaker for every threshold, timeout, window   *)
(* and set of callers.                                                     *)
(*                                                                         *)
(* The window rests on one fact: failureTimestamps is ordered, the oldest  *)
(* failure first (OldestFirst).  The loop of onFailure looks at nothing    *)
(* behind the first stamp that is recent enough.                           *)
(***************************************************************************)
EXTENDS CircuitBreakerTrips, FiniteSetTheorems, SequenceTheorems, TLAPS

Ages == 0..MonitoringPeriod + 1

Falling(s) == \A i, k \in DOMAIN s : i < k => s[i] >= s[k]
Recent(s)  == \A i \in DOMAIN s : s[i] <= MonitoringPeriod

\* The ages in failureTimestamps never rise from one entry to the next.
OldestFirst == Falling(stamps)

\* A tripped breaker is open, or cooled down and probing.
TrippedCooling ==
    failures >= FailureThreshold =>
      \/ state = "OPEN"
      \/ state = "HALF_OPEN" /\ sinceFail = ResetTimeout

IInv == TypeOK /\ OldestFirst /\ TrippedCooling

-----------------------------------------------------------------------------
\* What is left of a list of ages without its first ones.
LEMMA Rest ==
  ASSUME NEW s \in Seq(Ages), Falling(s), NEW m \in 1..Len(s) + 1
  PROVE  /\ SubSeq(s, m, Len(s)) \in Seq(Ages)
         /\ Len(SubSeq(s, m, Len(s))) = Len(s) - m + 1
         /\ \A i \in 1..Len(SubSeq(s, m, Len(s))) :
              m + i - 1 \in 1..Len(s) /\ SubSeq(s, m, Len(s))[i] = s[m + i - 1]
         /\ Falling(SubSeq(s, m, Len(s)))
<1> DEFINE r == SubSeq(s, m, Len(s))
<1>1. Len(s) \in Nat /\ DOMAIN s = 1..Len(s) /\ m \in Int /\ 1 <= m /\ m <= Len(s) + 1
  BY LenProperties
<1>2. \A i \in m..Len(s) : s[i] \in Ages
  BY <1>1, LenProperties
<1>3. /\ r \in Seq(Ages)
      /\ Len(r) = IF m <= Len(s) THEN Len(s) - m + 1 ELSE 0
      /\ \A i \in 1..Len(s) - m + 1 : r[i] = s[m + i - 1]
  BY <1>1, <1>2, SubSeqProperties
<1> HIDE DEF r
<1>4. Len(r) = Len(s) - m + 1 /\ Len(r) \in Nat /\ DOMAIN r = 1..Len(r)
  <2>1. Len(r) = Len(s) - m + 1
    BY <1>1, <1>3
  <2>2. Len(r) \in Nat /\ DOMAIN r = 1..Len(r)
    BY <1>3, LenProperties
  <2> QED BY <2>1, <2>2
<1>5. ASSUME NEW i \in 1..Len(r)
      PROVE  m + i - 1 \in 1..Len(s) /\ r[i] = s[m + i - 1]
  BY <1>1, <1>3, <1>4
<1>6. Falling(r)
  <2> SUFFICES ASSUME NEW i \in 1..Len(r), NEW k \in 1..Len(r), i < k
               PROVE  r[i] >= r[k]
    BY <1>4 DEF Falling
  <2>1. m + i - 1 < m + k - 1
    BY <1>1, <1>4
  <2> QED BY <1>1, <1>5, <2>1 DEF Falling
<1> QED BY <1>3, <1>4, <1>5, <1>6 DEF r

LEMMA Pushed ==
  ASSUME NEW s \in Seq(Ages)
  PROVE  /\ Append(s, 0) \in Seq(Ages) /\ Len(Append(s, 0)) = Len(s) + 1
         /\ \A i \in 1..Len(s) : Append(s, 0)[i] = s[i]
         /\ Append(s, 0)[Len(s) + 1] = 0
<1>1. 0 \in Ages
  BY BreakerAssumption DEF Ages
<1> QED BY <1>1, AppendProperties

\* What onFailure leaves in failureTimestamps when n stamps are shifted out:
\* ordered, all of them recent, no more than the bound.
LEMMA Pruned ==
  ASSUME stamps \in Seq(Ages), OldestFirst, NEW n \in 0..Len(stamps),
         n < Len(stamps) => InWindow(stamps[n + 1]),
         stamps' = Latest(Append(SubSeq(stamps, n + 1, Len(stamps)), 0))
  PROVE  /\ stamps' \in Seq(Ages) /\ Len(stamps') <= MaxFailures
         /\ OldestFirst' /\ Recent(stamps')
<1> USE BreakerAssumption
<1> DEFINE kept == SubSeq(stamps, n + 1, Len(stamps))
           all  == Append(kept, 0)
<1>1. Len(stamps) \in Nat /\ DOMAIN stamps = 1..Len(stamps) /\ n \in Nat /\ n <= Len(stamps)
  BY LenProperties
<1>2. /\ kept \in Seq(Ages) /\ Len(kept) = Len(stamps) - (n + 1) + 1
      /\ \A i \in 1..Len(kept) : (n + 1) + i - 1 \in 1..Len(stamps)
                                  /\ kept[i] = stamps[(n + 1) + i - 1]
      /\ Falling(kept)
  <2>1. n + 1 \in 1..Len(stamps) + 1 /\ Falling(stamps)
    BY <1>1 DEF OldestFirst
  <2> QED BY <2>1, Rest
<1> HIDE DEF kept
<1>3. Len(kept) \in Nat /\ DOMAIN kept = 1..Len(kept)
  BY <1>2, LenProperties
<1>4. ASSUME NEW i \in 1..Len(kept) PROVE kept[i] \in 0..MonitoringPeriod
  <2>1. n < Len(stamps) /\ stamps[n + 1] <= MonitoringPeriod /\ n + 1 \in DOMAIN stamps
    BY <1>1, <1>2, <1>3 DEF InWindow
  <2>2. n + i \in DOMAIN stamps /\ kept[i] = stamps[n + i] /\ n + 1 <= n + i
    BY <1>1, <1>2, <1>3
  <2>3. stamps[n + 1] >= stamps[n + i]
    <3>1. CASE i = 1
      BY <2>1, <3>1 DEF Ages
    <3>2. CASE i # 1
      BY <1>3, <2>1, <2>2, <3>2 DEF OldestFirst, Falling
    <3> QED BY <3>1, <3>2
  <2>4. stamps[n + 1] \in Ages /\ stamps[n + i] \in Ages
    BY <1>1, <2>1, <2>2, LenProperties
  <2> QED BY <2>1, <2>2, <2>3, <2>4 DEF Ages
<1>6. /\ all \in Seq(Ages) /\ Len(all) = Len(kept) + 1
      /\ \A i \in 1..Len(kept) : all[i] = kept[i]
      /\ all[Len(kept) + 1] = 0
  BY <1>2, Pushed
<1> HIDE DEF all
<1>7. DOMAIN all = 1..Len(all) /\ Len(all) \in Nat
  BY <1>6, LenProperties
<1>8. Recent(all)
  BY <1>3, <1>4, <1>6, <1>7 DEF Recent
<1>9. Falling(all)
  <2> SUFFICES ASSUME NEW i \in DOMAIN all, NEW k \in DOMAIN all, i < k
               PROVE  all[i] >= all[k]
    BY DEF Falling
  <2>1. i \in 1..Len(kept) /\ all[i] = kept[i]
    BY <1>3, <1>6, <1>7
  <2>2. CASE k = Len(kept) + 1
    BY <1>4, <1>6, <2>1, <2>2
  <2>3. CASE k # Len(kept) + 1
    <3>1. k \in 1..Len(kept) /\ all[k] = kept[k]
      BY <1>3, <1>6, <1>7, <2>3
    <3> QED BY <1>2, <1>3, <2>1, <3>1 DEF Falling
  <2> QED BY <2>2, <2>3
<1>10. stamps' = Latest(all)
  BY DEF all, kept
<1>11. CASE Len(all) <= MaxFailures
  BY <1>6, <1>8, <1>9, <1>10, <1>11 DEF Latest, OldestFirst
<1>12. CASE ~(Len(all) <= MaxFailures)
  <2> DEFINE m == Len(all) - MaxFailures + 1
  <2>1. m \in 1..Len(all) + 1 /\ Len(all) - m + 1 = MaxFailures
    BY <1>7, <1>12
  <2>2. stamps' = SubSeq(all, m, Len(all))
    BY <1>10, <1>12 DEF Latest
  <2> HIDE DEF m
  <2>3. /\ stamps' \in Seq(Ages) /\ Len(stamps') = MaxFailures
        /\ \A i \in 1..Len(stamps') : m + i - 1 \in 1..Len(all) /\ stamps'[i] = all[m + i - 1]
        /\ Falling(stamps')
    <3>1. m \in 1..Len(all) + 1 /\ all \in Seq(Ages) /\ Falling(all)
      BY <1>6, <1>9, <2>1
    <3>2. /\ SubSeq(all, m, Len(all)) \in Seq(Ages)
          /\ Len(SubSeq(all, m, Len(all))) = Len(all) - m + 1
          /\ \A i \in 1..Len(SubSeq(all, m, Len(all))) :
               m + i - 1 \in 1..Len(all) /\ SubSeq(all, m, Len(all))[i] = all[m + i - 1]
          /\ Falling(SubSeq(all, m, Len(all)))
      BY <3>1, Rest
    <3> QED BY <2>1, <2>2, <3>2
  <2>4. DOMAIN stamps' = 1..Len(stamps')
    BY <2>3, LenProperties
  <2>5. Recent(stamps')
    BY <1>7, <1>8, <2>3, <2>4 DEF Recent
  <2> QED BY <2>3, <2>5 DEF OldestFirst
<1> QED BY <1>11, <1>12

\* A failure leaves the breaker well formed, and OPEN when it trips it; with a
\* window it leaves recent stamps only, and the count is theirs.
LEMMA FailureOK ==
  ASSUME TypeOK, OldestFirst, OnFailure
  PROVE  /\ state' \in {"CLOSED", "OPEN", "HALF_OPEN"}
         /\ failures' \in 0..MaxFailures
         /\ stamps' \in Seq(Ages) /\ Len(stamps') <= MaxFailures
         /\ sinceFail' \in 0..ResetTimeout
         /\ OldestFirst'
         /\ failures' >= FailureThreshold => state' = "OPEN"
         /\ Windowed => Recent(stamps') /\ failures' = Len(stamps')
<1> USE BreakerAssumption
<1>1. stamps \in Seq(Ages) /\ Len(stamps) <= MaxFailures /\ failures \in 0..MaxFailures
  BY DEF TypeOK, Ages
<1>2. /\ stamps' \in Seq(Ages) /\ Len(stamps') <= MaxFailures /\ OldestFirst'
      /\ failures' \in 0..MaxFailures
      /\ Windowed => Recent(stamps') /\ failures' = Len(stamps')
  <2>1. CASE Windowed
    <3>1. PICK n \in 0..Len(stamps) :
            /\ n < Len(stamps) => InWindow(stamps[n + 1])
            /\ stamps' = Latest(Append(SubSeq(stamps, n + 1, Len(stamps)), 0))
            /\ failures' = Len(stamps')
      BY <2>1 DEF OnFailure
    <3>2. /\ stamps' \in Seq(Ages) /\ Len(stamps') <= MaxFailures
          /\ OldestFirst' /\ Recent(stamps')
      BY <1>1, <3>1, Pruned
    <3>3. Len(stamps') \in Nat
      BY <3>2, LenProperties
    <3> QED BY <3>1, <3>2, <3>3
  <2>2. CASE ~Windowed
    <3>1. stamps' = stamps /\ failures' = Up(failures, MaxFailures)
      BY <2>2 DEF OnFailure
    <3> QED BY <1>1, <2>2, <3>1 DEF Up, OldestFirst
  <2> QED BY <2>1, <2>2
<1>3. /\ state' \in {"CLOSED", "OPEN", "HALF_OPEN"} /\ sinceFail' \in 0..ResetTimeout
      /\ failures' >= FailureThreshold => state' = "OPEN"
  BY DEF OnFailure, Trips, TypeOK
<1> QED BY <1>2, <1>3

\* Time only makes stamps older, all of them alike.
LEMMA TickOK ==
  ASSUME TypeOK, OldestFirst, Tick
  PROVE  /\ stamps' \in Seq(Ages) /\ Len(stamps') <= MaxFailures
         /\ sinceFail' \in 0..ResetTimeout /\ OldestFirst'
<1> USE BreakerAssumption
<1>1. /\ stamps \in Seq(Ages) /\ Len(stamps) <= MaxFailures /\ Len(stamps) \in Nat
      /\ DOMAIN stamps = 1..Len(stamps)
      /\ \A i \in DOMAIN stamps : stamps[i] \in Ages
  BY LenProperties DEF TypeOK, Ages
<1>2. /\ DOMAIN stamps' = DOMAIN stamps
      /\ stamps' = [i \in 1..Len(stamps) |-> Up(stamps[i], MonitoringPeriod + 1)]
  BY <1>1 DEF Tick
<1>3. \A i \in DOMAIN stamps : stamps'[i] = Up(stamps[i], MonitoringPeriod + 1)
                               /\ stamps'[i] \in Ages
  BY <1>1, <1>2 DEF Up, Ages
<1>4. stamps' \in [1..Len(stamps) -> Ages]
  BY <1>1, <1>2, <1>3
<1>5. stamps' \in Seq(Ages) /\ Len(stamps') = Len(stamps)
  <2>1. [1..Len(stamps) -> Ages] \in {[1..m -> Ages] : m \in Nat}
    BY <1>1
  <2>2. stamps' \in UNION {[1..m -> Ages] : m \in Nat}
    BY <1>4, <2>1
  <2>3. stamps' \in Seq(Ages)
    BY <2>2, SeqDef
  <2>4. 1..Len(stamps') = 1..Len(stamps) /\ Len(stamps') \in Nat
    BY <1>1, <1>2, <2>3, LenProperties
  <2> QED BY <1>1, <2>3, <2>4
<1>6. OldestFirst'
  <2>1. ASSUME NEW i \in DOMAIN stamps, NEW k \in DOMAIN stamps, i < k
        PROVE  stamps'[i] >= stamps'[k]
    <3>1. stamps[i] >= stamps[k] /\ stamps[i] \in Ages /\ stamps[k] \in Ages
      BY <1>1, <2>1 DEF OldestFirst, Falling
    <3> QED BY <1>3, <3>1 DEF Up, Ages
  <2>2. Falling(stamps')
    BY <1>2, <2>1 DEF Falling
  <2> QED BY <2>2 DEF OldestFirst
<1>7. sinceFail' \in 0..ResetTimeout
  BY DEF Tick, Up, TypeOK
<1> QED BY <1>1, <1>5, <1>6, <1>7

-----------------------------------------------------------------------------
LEMMA Emptied ==
  ASSUME stamps' = << >>
  PROVE  stamps' \in Seq(Ages) /\ Len(stamps') <= MaxFailures /\ OldestFirst'
BY EmptySeq, BreakerAssumption DEF OldestFirst, Falling

LEMMA NextOK == IInv /\ [Next]_vars => IInv'
<1> SUFFICES ASSUME IInv, [Next]_vars PROVE IInv'
  OBVIOUS
<1> USE BreakerAssumption
<1>1. ASSUME NEW c \in Calls, Reject(c) PROVE IInv'
  BY <1>1 DEF Reject, IInv, TypeOK, OldestFirst, TrippedCooling
<1>2. ASSUME NEW c \in Calls, Admit(c) PROVE IInv'
  BY <1>2 DEF Admit, CooledDown, IInv, TypeOK, OldestFirst, TrippedCooling
<1>3. ASSUME NEW c \in Calls, Succeed(c) PROVE IInv'
  <2>1. stamps' \in Seq(Ages) /\ Len(stamps') <= MaxFailures /\ OldestFirst'
    BY <1>3, Emptied DEF Succeed, OnSuccess
  <2> QED BY <1>3, <2>1 DEF Succeed, OnSuccess, IInv, TypeOK, TrippedCooling, Ages
<1>4. ASSUME NEW c \in Calls, Fail(c) PROVE IInv'
  <2>1. /\ state' \in {"CLOSED", "OPEN", "HALF_OPEN"}
        /\ failures' \in 0..MaxFailures
        /\ stamps' \in Seq(Ages) /\ Len(stamps') <= MaxFailures
        /\ sinceFail' \in 0..ResetTimeout
        /\ OldestFirst'
        /\ failures' >= FailureThreshold => state' = "OPEN"
    BY <1>4, FailureOK DEF Fail, IInv
  <2>2. call' \in [Calls -> {"idle", "running", "rejected"}]
    BY <1>4 DEF Fail, IInv, TypeOK
  <2>3. TypeOK'
    BY <2>1, <2>2 DEF TypeOK, Ages
  <2>4. TrippedCooling'
    BY <2>1 DEF TrippedCooling
  <2> QED BY <2>1, <2>3, <2>4 DEF IInv
<1>5. CASE Reset
  <2>1. stamps' \in Seq(Ages) /\ Len(stamps') <= MaxFailures /\ OldestFirst'
    BY <1>5, Emptied DEF Reset
  <2> QED BY <1>5, <2>1 DEF Reset, IInv, TypeOK, TrippedCooling, Ages
<1>6. CASE Tick
  <2>1. /\ stamps' \in Seq(Ages) /\ Len(stamps') <= MaxFailures
        /\ sinceFail' \in 0..ResetTimeout /\ OldestFirst'
    BY <1>6, TickOK DEF IInv
  <2>2. /\ UNCHANGED <<state, failures, call>>
        /\ sinceFail = ResetTimeout => sinceFail' = ResetTimeout
    BY <1>6 DEF Tick, Up
  <2> QED BY <2>1, <2>2 DEF IInv, TypeOK, TrippedCooling, Ages
<1>7. CASE UNCHANGED vars
  BY <1>7 DEF vars, IInv, TypeOK, OldestFirst, TrippedCooling
<1> QED BY <1>1, <1>2, <1>3, <1>4, <1>5, <1>6, <1>7 DEF Next

LEMMA Invariance == Spec => []IInv
<1>1. Init => IInv
  BY EmptySeq, BreakerAssumption
     DEF Init, IInv, TypeOK, OldestFirst, Falling, TrippedCooling
<1> QED BY <1>1, NextOK, PTL DEF Spec

\* Every variable keeps its type; failureTimestamps holds ages within the bound.
THEOREM TypeCorrect == Spec => []TypeOK
<1>1. IInv => TypeOK
  BY DEF IInv
<1> QED BY <1>1, Invariance, PTL

\* Late results never leave a tripped count behind a CLOSED breaker: every
\* operation that writes the count decides the state from what it wrote.
THEOREM TrippedNeverClosed == Spec => []TrippedIsNotClosed
<1>1. IInv => TrippedIsNotClosed
  BY DEF IInv, TrippedCooling, TrippedIsNotClosed
<1> QED BY <1>1, Invariance, PTL

-----------------------------------------------------------------------------
\* A breaker that was tripped less than ResetTimeout ago is still OPEN, and the
\* failure that execute() measures its cool-down from is no older than the trip.
\* Every step keeps it: a straggler's failure moves lastFailTime forward and
\* leaves an OPEN breaker OPEN whatever pruning does to the count; a success and
\* reset() end the trip.
StillCooling ==
    /\ sinceTrip \in 0..ResetTimeout
    /\ sinceTrip < ResetTimeout => state = "OPEN" /\ sinceFail <= sinceTrip

LEMMA CoolingOK == IInv /\ StillCooling /\ [NextH]_varsH => StillCooling'
<1> SUFFICES ASSUME IInv, StillCooling, [NextH]_varsH PROVE StillCooling'
  OBVIOUS
<1> USE BreakerAssumption DEF StillCooling
<1>1. ASSUME NEW c \in Calls, RejectH(c) PROVE StillCooling'
  BY <1>1 DEF RejectH, Reject
<1>2. ASSUME NEW c \in Calls, AdmitH(c) PROVE StillCooling'
  BY <1>2 DEF AdmitH, Admit, CooledDown, IInv, TypeOK
<1>3. ASSUME NEW c \in Calls, SucceedH(c) PROVE StillCooling'
  BY <1>3 DEF SucceedH
<1>4. ASSUME NEW c \in Calls, FailH(c) PROVE StillCooling'
  <2>1. sinceFail' = 0 /\ state' = IF Trips(failures') THEN "OPEN" ELSE state
    BY <1>4 DEF FailH, Fail, OnFailure
  <2>2. sinceTrip' = IF failures' >= FailureThreshold THEN 0 ELSE sinceTrip
    BY <1>4 DEF FailH
  <2> QED BY <2>1, <2>2 DEF Trips
<1>5. CASE ResetH
  BY <1>5 DEF ResetH
<1>6. CASE TickH
  <2>1. /\ state' = state /\ sinceFail' = Up(sinceFail, ResetTimeout)
        /\ sinceTrip' = Up(sinceTrip, ResetTimeout)
    BY <1>6 DEF TickH, Tick
  <2>2. sinceFail \in 0..ResetTimeout
    BY DEF IInv, TypeOK
  <2> QED BY <2>1, <2>2 DEF Up
<1>7. CASE UNCHANGED varsH
  BY <1>7 DEF varsH, vars
<1> QED BY <1>1, <1>2, <1>3, <1>4, <1>5, <1>6, <1>7 DEF NextH

\* The history variable only watches: its steps are the breaker's own.
LEMMA OnlyWatched ==
  /\ InitH => Init
  /\ [NextH]_varsH => [Next]_vars
BY DEF InitH, NextH, RejectH, AdmitH, SucceedH, FailH, ResetH, TickH, Next, varsH

\* execute() starts no call within ResetTimeout of a failure that tripped the
\* breaker, unless a success or reset() has ended the trip, with a monitoring
\* window or without: the trip is remembered, not read off the current count.
THEOREM CoolDownRespected == SpecH => NoAdmissionWhileCooling
<1> DEFINE Cool == \A c \in Calls :
                     call[c] # "running" /\ call'[c] = "running" => sinceTrip = ResetTimeout
<1>1. InitH => IInv /\ StillCooling
  BY EmptySeq, BreakerAssumption
     DEF InitH, Init, IInv, TypeOK, OldestFirst, Falling, TrippedCooling, StillCooling
<1>2. ASSUME IInv, StillCooling, [NextH]_varsH PROVE IInv' /\ StillCooling'
  BY <1>2, NextOK, CoolingOK, OnlyWatched
<1>3. ASSUME IInv, StillCooling, [NextH]_varsH PROVE [Cool]_varsH
  <2> SUFFICES ASSUME NextH, NEW c \in Calls, call[c] # "running", call'[c] = "running"
               PROVE  sinceTrip = ResetTimeout
    BY <1>3
  <2>1. ASSUME NEW d \in Calls, Admit(d) PROVE sinceTrip = ResetTimeout
    BY <1>3, <2>1, BreakerAssumption DEF IInv, TypeOK, StillCooling, Admit, CooledDown
  <2>2. ASSUME NEW d \in Calls, Reject(d) \/ Succeed(d) \/ Fail(d) PROVE FALSE
    <3>1. PICK v \in {"idle", "rejected"} : call' = [call EXCEPT ![d] = v]
      BY <2>2 DEF Reject, Succeed, Fail
    <3> QED BY <3>1
  <2>3. CASE Reset \/ Tick
    BY <2>3 DEF Reset, Tick
  <2> QED BY <2>1, <2>2, <2>3
          DEF NextH, RejectH, AdmitH, SucceedH, FailH, ResetH, TickH
<1>4. SpecH => [][Cool]_varsH
  BY <1>1, <1>2, <1>3, PTL DEF SpecH
<1> QED BY <1>4 DEF NoAdmissionWhileCooling

\* With a window, onFailure opens the breaker only on as many failures within it
\* as the threshold asks for.
THEOREM OpeningNeedsRecentFailures == Spec => OpensOnRecentFailures
<1> DEFINE Opening ==
      Windowed /\ state # "OPEN" /\ state' = "OPEN" =>
        Cardinality({i \in DOMAIN stamps' : stamps'[i] <= MonitoringPeriod})
          >= FailureThreshold
<1>1. ASSUME IInv, [Next]_vars PROVE [Opening]_vars
  <2> SUFFICES ASSUME Next, Windowed, state # "OPEN", state' = "OPEN"
               PROVE  Cardinality({i \in DOMAIN stamps' : stamps'[i] <= MonitoringPeriod})
                        >= FailureThreshold
    BY <1>1
  <2>1. PICK c \in Calls : Fail(c)
    BY DEF Next, Reject, Admit, Succeed, OnSuccess, Reset, Tick
  <2>2. /\ stamps' \in Seq(Ages) /\ Recent(stamps') /\ failures' = Len(stamps')
        /\ failures' >= FailureThreshold
    <3>1. OnFailure
      BY <2>1 DEF Fail
    <3>2. failures' >= FailureThreshold
      BY <3>1 DEF OnFailure, Trips
    <3> QED BY <1>1, <3>1, <3>2, FailureOK DEF IInv
  <2>3. {i \in DOMAIN stamps' : stamps'[i] <= MonitoringPeriod} = 1..Len(stamps')
        /\ Len(stamps') \in Nat
    BY <2>2, LenProperties DEF Recent
  <2>4. Cardinality(1..Len(stamps')) = Len(stamps')
    <3>1. Cardinality(1..Len(stamps')) = IF 1 > Len(stamps') THEN 0 ELSE Len(stamps') - 1 + 1
      BY <2>3, FS_Interval
    <3> QED BY <2>3, <3>1
  <2> QED BY <2>2, <2>3, <2>4
<1>2. Spec => [][Opening]_vars
  BY <1>1, Invariance, PTL DEF Spec
<1> QED BY <1>2, PTL DEF OpensOnRecentFailures
=============================================================================
