------------------------ MODULE LeaderElection_proofs ------------------------
(***************************************************************************)
(* Proofs about the file-based election for every set of instances, lock   *)
(* timeout and set of faults, prompt or not.                               *)
(***************************************************************************)
EXTENDS LeaderElection, TLAPS

LEMMA OlderInRange ==
  ASSUME NEW n \in -1..LockTimeout
  PROVE  /\ Older(n) \in -1..LockTimeout
         /\ n \in 0..LockTimeout => Older(n) \in 0..LockTimeout
BY ElectionAssumption DEF Older

\* Stamps in the making and in the lock keep within the timeout, and every
\* operation under way is one its handler awaits.
THEOREM TypeCorrect == Spec => []TypeOK
<1>1. Init => TypeOK
  BY ElectionAssumption DEF Init, TypeOK, Idle
<1>2. TypeOK /\ [Next]_vars => TypeOK'
  <2> SUFFICES ASSUME TypeOK, [Next]_vars PROVE TypeOK'
    OBVIOUS
  <2> USE ElectionAssumption
  <2>1. ASSUME NEW i \in Instances, Start(i) PROVE TypeOK'
    BY <2>1 DEF Start, TypeOK
  <2>2. ASSUME NEW i \in Instances, Acquire(i) PROVE TypeOK'
    <3>1. /\ Op("write") \in Pending({"write", "close", "read", "rename"})
          /\ Op("read") \in Pending({"write", "close", "read", "rename"})
          /\ Blank(i) \in [owner : Instances, age : -1..LockTimeout]
      BY DEF Op, Pending, Blank
    <3>2. /\ lock' \in {Absent} \cup [owner : Instances, age : -1..LockTimeout]
          /\ acquire' \in [Instances -> Pending({"write", "close", "read", "rename"}) \cup {Idle}]
      BY <2>2, <3>1 DEF Acquire, TypeOK
    <3> QED BY <2>2, <3>2 DEF Acquire, TypeOK
  <2>3. ASSUME NEW i \in Instances, Create(i) \/ Close(i) \/ TakeOver(i) PROVE TypeOK'
    <3>1. acquire[i].age \in 0..LockTimeout
      BY <2>3 DEF Create, Close, TakeOver, TypeOK, Pending, Idle
    <3>2. lock' \in {Absent} \cup [owner : Instances, age : -1..LockTimeout]
      BY <2>3, <3>1 DEF Create, Close, TakeOver, TypeOK, Stamped
    <3>3. acquire[i].at = "write" =>
            [acquire[i] EXCEPT !.at = "close"] \in Pending({"write", "close", "read", "rename"})
      BY <3>1 DEF TypeOK, Pending, Idle
    <3>4. acquire' \in [Instances -> Pending({"write", "close", "read", "rename"}) \cup {Idle}]
      BY <2>3, <3>3 DEF Create, Close, TakeOver, TypeOK
    <3> QED BY <2>3, <3>2, <3>4 DEF Create, Close, TakeOver, TypeOK
  <2>4. ASSUME NEW i \in Instances, Inspect(i) PROVE TypeOK'
    <3>1. [acquire[i] EXCEPT !.at = "rename"] \in Pending({"write", "close", "read", "rename"})
      BY <2>4 DEF Inspect, TypeOK, Pending, Idle
    <3>2. acquire' \in [Instances -> Pending({"write", "close", "read", "rename"}) \cup {Idle}]
      BY <2>4, <3>1 DEF Inspect, TypeOK
    <3> QED BY <2>4, <3>2 DEF Inspect, TypeOK
  <2>5. ASSUME NEW i \in Instances, Heartbeat(i) PROVE TypeOK'
    <3>1. Op("rename") \in Pending({"rename"})
      BY DEF Op, Pending
    <3>2. beat' \in [Instances -> Pending({"rename"}) \cup {Idle}]
      BY <2>5, <3>1 DEF Heartbeat, TypeOK
    <3>3. /\ leader' \in [Instances -> BOOLEAN]
          /\ release' \in [Instances -> {"none", "read", "unlink"}]
      BY <2>5 DEF Heartbeat, StepDown, TypeOK
    <3>4. due' \in [Instances -> SUBSET {"check", "heartbeat"}]
      BY <2>5 DEF Heartbeat, TypeOK
    <3> QED BY <2>5, <3>2, <3>3, <3>4 DEF Heartbeat, TypeOK
  <2>6. ASSUME NEW i \in Instances, Refresh(i) PROVE TypeOK'
    <3>1. beat[i].age \in 0..LockTimeout
      BY <2>6 DEF Refresh, TypeOK, Pending, Idle
    <3> QED BY <2>6, <3>1 DEF Refresh, TypeOK, Stamped
  <2>7. ASSUME NEW i \in Instances,
               VerifyLeadership(i) \/ ForceStepDown(i) \/ Shutdown(i)
        PROVE  TypeOK'
    <3>1. /\ leader' \in [Instances -> BOOLEAN]
          /\ release' \in [Instances -> {"none", "read", "unlink"}]
      BY <2>7 DEF VerifyLeadership, ForceStepDown, Shutdown, StepDown, TypeOK
    <3>2. /\ due' \in [Instances -> SUBSET {"check", "heartbeat"}]
          /\ status' \in [Instances -> {"new", "up", "down", "crashed"}]
      BY <2>7 DEF VerifyLeadership, ForceStepDown, Shutdown, TypeOK
    <3> QED BY <2>7, <3>1, <3>2
            DEF VerifyLeadership, ForceStepDown, Shutdown, TypeOK
  <2>8. ASSUME NEW i \in Instances, ReadBeforeRelease(i) \/ Unlink(i) PROVE TypeOK'
    BY <2>8 DEF ReadBeforeRelease, Unlink, TypeOK
  <2>9. ASSUME NEW i \in Instances, Crash(i) PROVE TypeOK'
    BY <2>9 DEF Crash, TypeOK
  <2>10. CASE Tick
    <3>1. lock' \in {Absent} \cup [owner : Instances, age : -1..LockTimeout]
      <4>1. CASE Readable
        <5>1. lock \in [owner : Instances, age : -1..LockTimeout]
          BY <4>1 DEF TypeOK, Readable
        <5>2. Older(lock.age) \in -1..LockTimeout
          BY <5>1, OlderInRange
        <5> QED BY <2>10, <4>1, <5>1, <5>2 DEF Tick
      <4>2. CASE ~Readable
        BY <2>10, <4>2 DEF Tick, TypeOK
      <4> QED BY <4>1, <4>2
    <3>2. acquire' \in [Instances -> Pending({"write", "close", "read", "rename"}) \cup {Idle}]
      <4>1. ASSUME NEW i \in Instances, acquire[i] # Idle
            PROVE  [acquire[i] EXCEPT !.age = Older(@)]
                     \in Pending({"write", "close", "read", "rename"})
        <5>1. acquire[i] \in Pending({"write", "close", "read", "rename"})
          BY <4>1 DEF TypeOK
        <5>2. acquire[i].age \in 0..LockTimeout /\ acquire[i].age \in -1..LockTimeout
          BY <5>1 DEF Pending
        <5>3. Older(acquire[i].age) \in 0..LockTimeout
          BY <5>2, OlderInRange
        <5> QED BY <5>1, <5>3 DEF Pending
      <4> QED BY <2>10, <4>1 DEF Tick
    <3>3. beat' \in [Instances -> Pending({"rename"}) \cup {Idle}]
      <4>1. ASSUME NEW i \in Instances, beat[i] # Idle
            PROVE  [beat[i] EXCEPT !.age = Older(@)] \in Pending({"rename"})
        <5>1. beat[i] \in Pending({"rename"})
          BY <4>1 DEF TypeOK
        <5>2. beat[i].age \in 0..LockTimeout /\ beat[i].age \in -1..LockTimeout
          BY <5>1 DEF Pending
        <5>3. Older(beat[i].age) \in 0..LockTimeout
          BY <5>2, OlderInRange
        <5> QED BY <5>1, <5>3 DEF Pending
      <4> QED BY <2>10, <4>1 DEF Tick
    <3>4. due' \in [Instances -> SUBSET {"check", "heartbeat"}]
      BY <2>10 DEF Tick
    <3> QED BY <2>10, <3>1, <3>2, <3>3, <3>4 DEF Tick, TypeOK
  <2>11. ASSUME NEW i \in Instances, FileError(i) PROVE TypeOK'
    <3>1. errors' \in 0..MaxErrors
      BY <2>11 DEF FileError, TypeOK
    <3>2. CASE AcquireFails(i) \/ ReleaseFails(i)
      BY <3>1, <3>2 DEF AcquireFails, ReleaseFails, TypeOK
    <3>3. CASE HeartbeatFails(i) \/ VerifyFails(i)
      <4>1. /\ leader' \in [Instances -> BOOLEAN]
            /\ release' \in [Instances -> {"none", "read", "unlink"}]
        BY <3>3 DEF HeartbeatFails, VerifyFails, StepDown, TypeOK
      <4>2. /\ due' \in [Instances -> SUBSET {"check", "heartbeat"}]
            /\ beat' \in [Instances -> Pending({"rename"}) \cup {Idle}]
        BY <3>3 DEF HeartbeatFails, VerifyFails, TypeOK
      <4> QED BY <3>1, <3>3, <4>1, <4>2 DEF HeartbeatFails, VerifyFails, TypeOK
    <3> QED BY <2>11, <3>2, <3>3 DEF FileError
  <2>12. CASE UNCHANGED vars
    BY <2>12 DEF vars, TypeOK
  <2> QED BY <2>1, <2>2, <2>3, <2>4, <2>5, <2>6, <2>7, <2>8, <2>9, <2>10, <2>11, <2>12
          DEF Next, Handlers
<1> QED BY <1>1, <1>2, PTL DEF Spec

\* An empty lock that nobody will fill, and that no instance can take over, comes
\* about in two ways only, both of its creator: a crash before the write, and a
\* write that fails.
THEOREM OnlyCreationLeavesABlankLock == Spec => OnlyCreationWedges
<1> DEFINE OfItsCreation ==
      /\ lock' = lock /\ acquire[lock.owner].at = "write"
      /\ status'[lock.owner] = "crashed" \/ errors' > errors
<1>1. ASSUME TypeOK, [Next]_vars PROVE [~Wedged /\ Wedged' => OfItsCreation]_vars
  <2> SUFFICES ASSUME Next, ~Wedged, lock'.age < 0, acquire'[lock'.owner].at # "write"
               PROVE  OfItsCreation
    BY <1>1 DEF Wedged
  <2> USE ElectionAssumption, <1>1
  \* A step that leaves the file alone takes its creator from the write.
  <2>1. ASSUME lock' = lock
        PROVE  /\ lock.owner \in Instances /\ lock = Blank(lock.owner)
               /\ acquire[lock.owner].at = "write"
    BY <2>1 DEF TypeOK, Wedged, Absent, Blank
  <2>2. ASSUME NEW i \in Instances,
               Start(i) \/ Heartbeat(i) \/ VerifyLeadership(i) \/ ReadBeforeRelease(i)
               \/ ForceStepDown(i) \/ Shutdown(i)
        PROVE  FALSE
    <3>1. UNCHANGED <<lock, acquire>>
      BY <2>2 DEF Start, Heartbeat, VerifyLeadership, ReadBeforeRelease, ForceStepDown,
                  Shutdown
    <3> QED BY <2>1, <3>1
  <2>3. ASSUME NEW i \in Instances, Acquire(i) PROVE FALSE
    <3>1. CASE lock = Absent
      BY <2>3, <3>1 DEF Acquire, Vacant, Op, Blank, TypeOK
    <3>2. CASE lock # Absent
      <4>1. /\ lock' = lock /\ acquire[i].at = "none"
            /\ acquire' = [acquire EXCEPT ![i] = Op("read")]
        BY <2>3, <3>2 DEF Acquire, Vacant, Idle
      <4>2. lock.owner # i
        BY <2>1, <4>1
      <4> QED BY <2>1, <4>1, <4>2 DEF TypeOK
    <3> QED BY <3>1, <3>2
  <2>4. ASSUME NEW i \in Instances, Create(i) PROVE FALSE
    <3>1. acquire[i].age \in 0..LockTimeout
      BY <2>4 DEF Create, TypeOK, Pending, Idle
    <3>2. lock # Blank(i) /\ lock' = lock
      BY <2>4, <3>1 DEF Create, Stamped
    <3>3. lock.owner # i
      BY <2>1, <3>2
    <3> QED BY <2>1, <2>4, <3>2, <3>3 DEF Create, TypeOK
  <2>5. ASSUME NEW i \in Instances, Close(i) \/ Inspect(i) PROVE FALSE
    <3>1. lock' = lock /\ acquire[i].at # "write"
      BY <2>5 DEF Close, Inspect
    <3>2. \A k \in Instances \ {i} : acquire'[k] = acquire[k]
      BY <2>5 DEF Close, Inspect, TypeOK
    <3> QED BY <2>1, <3>1, <3>2
  <2>6. ASSUME NEW i \in Instances, TakeOver(i) \/ Refresh(i) PROVE FALSE
    <3>1. acquire[i].at = "rename" => acquire[i].age \in 0..LockTimeout
      BY DEF TypeOK, Pending, Idle
    <3>2. beat[i].at = "rename" => beat[i].age \in 0..LockTimeout
      BY DEF TypeOK, Pending, Idle
    <3> QED BY <2>6, <3>1, <3>2 DEF TakeOver, Refresh, Stamped
  <2>7. ASSUME NEW i \in Instances, Unlink(i) PROVE FALSE
    BY <2>7 DEF Unlink, Absent
  <2>8. ASSUME NEW i \in Instances, Crash(i) PROVE OfItsCreation
    <3>1. /\ lock' = lock /\ acquire' = [acquire EXCEPT ![i] = Idle]
          /\ status' = [status EXCEPT ![i] = "crashed"]
      BY <2>8 DEF Crash
    <3>2. lock.owner = i
      BY <2>1, <3>1 DEF TypeOK
    <3> QED BY <2>1, <3>1, <3>2 DEF TypeOK
  <2>9. ASSUME NEW i \in Instances, FileError(i) PROVE OfItsCreation
    <3>1. lock' = lock /\ errors' > errors
      BY <2>9 DEF FileError, AcquireFails, HeartbeatFails, VerifyFails, ReleaseFails, TypeOK
    <3> QED BY <2>1, <3>1
  <2>10. CASE Tick
    <3>1. CASE Readable
      <4>1. lock \in [owner : Instances, age : 0..LockTimeout]
        BY <3>1 DEF TypeOK, Readable
      <4>2. Older(lock.age) \in 0..LockTimeout
        BY <4>1, OlderInRange
      <4>3. lock'.age = Older(lock.age)
        BY <2>10, <3>1, <4>1 DEF Tick
      <4> QED BY <4>2, <4>3
    <3>2. CASE ~Readable
      <4>1. lock' = lock
        BY <2>10, <3>2 DEF Tick
      <4>2. \A k \in Instances : acquire'[k].at = acquire[k].at
        BY <2>10 DEF Tick, TypeOK, Pending, Idle
      <4> QED BY <2>1, <4>1, <4>2
    <3> QED BY <3>1, <3>2
  <2> QED BY <2>2, <2>3, <2>4, <2>5, <2>6, <2>7, <2>8, <2>9, <2>10 DEF Next, Handlers
<1>2. Spec => [][~Wedged /\ Wedged' => OfItsCreation]_vars
  BY <1>1, TypeCorrect, PTL DEF Spec
<1> QED BY <1>2 DEF OnlyCreationWedges

-----------------------------------------------------------------------------
\* The instance that has created the file and not yet written to it or closed it.
Creating(i) == acquire[i].at \in {"write", "close"}

\* No operation or leader of one tick meets the next: with prompt handlers every
\* stamp is written in the tick it was taken in.
StampsAreNew ==
    \A i \in Instances :
      /\ acquire[i].age = 0 /\ beat[i].age = 0
      /\ Creating(i) => lock.age <= 0
      /\ status[i] \in {"new", "crashed"} => acquire[i] = Idle /\ beat[i] = Idle
      /\ status[i] = "new" => ~leader[i]
      /\ status[i] # "up" => due[i] = {}

\* The lock of a leader is from this tick, or from the last one and its
\* heartbeat is due or under way.
LeadersBeat ==
    \A i \in Instances :
      Leads(i) /\ lock.owner = i /\ lock.age >= 0 =>
        \/ lock.age = 0
        \/ lock.age = 1 /\ ("heartbeat" \in due[i] \/ beat[i].at = "rename")

Punctual == StampsAreNew /\ LeadersBeat

Acts(i) ==
    \/ Start(i) \/ Handlers(i)
    \/ ForceStepDown(i) \/ Shutdown(i) \/ Crash(i) \/ FileError(i)

\* What a handler of i leaves alone of another instance k.
Apart(k) ==
    /\ status'[k] = status[k] /\ leader'[k] = leader[k] /\ due'[k] = due[k]
    /\ acquire'[k] = acquire[k] /\ beat'[k] = beat[k] /\ release'[k] = release[k]

LEMMA OthersApart ==
  ASSUME TypeOK, NEW i \in Instances, NEW k \in Instances, i # k,
         Acts(i)
  PROVE  Apart(k)
<1>1. CASE Start(i) \/ Acquire(i) \/ Create(i) \/ Close(i) \/ Inspect(i) \/ TakeOver(i)
  BY <1>1 DEF Start, Acquire, Create, Close, Inspect, TakeOver, TypeOK, Apart
<1>2. CASE Heartbeat(i) \/ Refresh(i) \/ VerifyLeadership(i)
  BY <1>2 DEF Heartbeat, Refresh, VerifyLeadership, StepDown, TypeOK, Apart
<1>3. CASE ReadBeforeRelease(i) \/ Unlink(i) \/ ForceStepDown(i)
  BY <1>3 DEF ReadBeforeRelease, Unlink, ForceStepDown, StepDown, TypeOK, Apart
<1>4. CASE Shutdown(i) \/ Crash(i)
  BY <1>4 DEF Shutdown, Crash, StepDown, TypeOK, Apart
<1>5. CASE FileError(i)
  BY <1>5 DEF FileError, AcquireFails, HeartbeatFails, VerifyFails, ReleaseFails, StepDown,
              TypeOK, Apart
<1> QED BY <1>1, <1>2, <1>3, <1>4, <1>5 DEF Acts, Handlers

\* A heartbeat in time keeps the lock of a leader from expiring.
LEMMA PunctualNext ==
  ASSUME Prompt, LockTimeout > 1, TypeOK, Punctual, [Next]_vars
  PROVE  Punctual'
<1> USE ElectionAssumption
<1>a. ASSUME NEW i \in Instances, NEW k \in Instances, k # i, Apart(k),
             lock' = lock \/ lock' = Absent \/ (lock'.owner = i /\ lock'.age <= 0)
      PROVE  /\ acquire'[k].age = 0 /\ beat'[k].age = 0
             /\ Creating(k)' => lock'.age <= 0
             /\ status'[k] \in {"new", "crashed"} => acquire'[k] = Idle /\ beat'[k] = Idle
             /\ status'[k] = "new" => ~leader'[k]
             /\ status'[k] # "up" => due'[k] = {}
             /\ Leads(k)' /\ lock'.owner = k /\ lock'.age >= 0 =>
                  \/ lock'.age = 0
                  \/ lock'.age = 1 /\ ("heartbeat" \in due'[k] \/ beat'[k].at = "rename")
  BY <1>a DEF Apart, Punctual, StampsAreNew, LeadersBeat, Leads, Absent, Creating
<1>b. ASSUME NEW i \in Instances,
             Acts(i),
             lock' = lock \/ lock' = Absent \/ (lock'.owner = i /\ lock'.age <= 0),
             /\ acquire'[i].age = 0 /\ beat'[i].age = 0
             /\ Creating(i)' => lock'.age <= 0
             /\ status'[i] \in {"new", "crashed"} => acquire'[i] = Idle /\ beat'[i] = Idle
             /\ status'[i] = "new" => ~leader'[i]
             /\ status'[i] # "up" => due'[i] = {},
             Leads(i)' /\ lock'.owner = i /\ lock'.age >= 0 =>
               \/ lock'.age = 0
               \/ lock'.age = 1 /\ ("heartbeat" \in due'[i] \/ beat'[i].at = "rename")
      PROVE  Punctual'
  BY <1>a, <1>b, OthersApart DEF Punctual, StampsAreNew, LeadersBeat
<1>1. ASSUME NEW i \in Instances, Start(i) PROVE Punctual'
  BY <1>1, <1>b DEF Acts, Start, Creating, Punctual, StampsAreNew, LeadersBeat, Leads, TypeOK
<1>2. ASSUME NEW i \in Instances, Acquire(i) PROVE Punctual'
  <2>1. /\ status[i] = "up" /\ ~leader'[i] /\ UNCHANGED <<status, leader, beat>>
        /\ acquire'[i] = Op("write") \/ acquire'[i] = Op("read")
    BY <1>2 DEF Acquire, TypeOK, Punctual, StampsAreNew
  <2>2. /\ lock' = Blank(i) \/ (lock' = lock /\ acquire'[i] = Op("read"))
        /\ due'[i] \subseteq due[i]
    BY <1>2 DEF Acquire, TypeOK
  <2>3. lock' = lock \/ (lock'.owner = i /\ lock'.age <= 0)
    BY <2>2 DEF Blank
  <2>4. acquire'[i].age = 0 /\ (Creating(i)' => lock'.age <= 0)
    BY <2>1, <2>2 DEF Op, Blank, Creating
  <2> QED BY <1>2, <1>b, <2>1, <2>3, <2>4 DEF Acts, Handlers, Punctual, StampsAreNew, Leads
<1>3. ASSUME NEW i \in Instances, Create(i) \/ Close(i) PROVE Punctual'
  <2>1. /\ acquire[i].at \in {"write", "close"} /\ acquire[i].age = 0 /\ lock.age <= 0
        /\ status[i] \notin {"new", "crashed"}
    BY <1>3 DEF Create, Close, Punctual, StampsAreNew, Creating, Idle
  <2>2. /\ acquire'[i] = Idle \/ acquire'[i] = [acquire[i] EXCEPT !.at = "close"]
        /\ UNCHANGED <<status, due, beat>>
    BY <1>3 DEF Create, Close, TypeOK
  <2>3. lock' = lock \/ lock' = Stamped(i, 0)
    BY <1>3, <2>1 DEF Create, Close
  <2>4. lock' = lock \/ (lock'.owner = i /\ lock'.age <= 0)
    BY <2>3 DEF Stamped
  <2>5. lock'.age <= 0 /\ (lock'.age >= 0 => lock'.age = 0)
    BY <2>1, <2>3 DEF Stamped, TypeOK, Absent
  <2>6. acquire'[i].age = 0
    BY <2>1, <2>2 DEF Idle, TypeOK, Pending
  <2> QED BY <1>3, <1>b, <2>1, <2>2, <2>4, <2>5, <2>6
          DEF Acts, Handlers, Punctual, StampsAreNew
<1>4. ASSUME NEW i \in Instances, Inspect(i) PROVE Punctual'
  BY <1>4, <1>b DEF Acts, Handlers, Inspect, Punctual, StampsAreNew, LeadersBeat, Leads, TypeOK, Idle,
     Pending, Creating
<1>5. ASSUME NEW i \in Instances, TakeOver(i) PROVE Punctual'
  BY <1>5, <1>b DEF Acts, Handlers, TakeOver, Stamped, Punctual, StampsAreNew, LeadersBeat,
     Leads, TypeOK, Idle, Creating
<1>6. ASSUME NEW i \in Instances, Heartbeat(i) PROVE Punctual'
  <2>1. /\ status[i] = "up" /\ UNCHANGED <<lock, status, acquire>>
        /\ acquire'[i].age = 0 /\ (Creating(i)' => lock'.age <= 0)
    BY <1>6 DEF Heartbeat, Punctual, StampsAreNew, Creating
  <2>2. CASE Owns(i)
    <3>1. beat'[i] = Op("rename")
      BY <1>6, <2>2 DEF Heartbeat, TypeOK
    <3>2. Leads(i)' => Leads(i)
      BY <1>6, <2>2 DEF Heartbeat, Leads
    <3>3. beat'[i].age = 0 /\ beat'[i].at = "rename"
      BY <3>1 DEF Op
    <3> QED BY <1>6, <1>b, <2>1, <3>2, <3>3 DEF Acts, Handlers, Punctual, LeadersBeat
  <2>3. CASE ~Owns(i)
    <3>1. ~leader'[i] /\ beat'[i] = Idle
      BY <1>6, <2>3 DEF Heartbeat, StepDown, TypeOK
    <3> QED BY <1>6, <1>b, <2>1, <3>1 DEF Acts, Handlers, Leads, Idle
  <2> QED BY <2>2, <2>3
<1>7. ASSUME NEW i \in Instances, Refresh(i) PROVE Punctual'
  BY <1>7, <1>b DEF Acts, Handlers, Refresh, Stamped, Punctual, StampsAreNew, LeadersBeat,
     Leads, TypeOK, Idle, Creating
<1>8. ASSUME NEW i \in Instances, VerifyLeadership(i) PROVE Punctual'
  BY <1>8, <1>b DEF Acts, Handlers, VerifyLeadership, StepDown, Punctual, StampsAreNew,
     LeadersBeat, Leads, TypeOK, Creating
<1>9. ASSUME NEW i \in Instances, ReadBeforeRelease(i) \/ Unlink(i) PROVE Punctual'
  BY <1>9, <1>b DEF Acts, Handlers, ReadBeforeRelease, Unlink, Absent, Punctual, StampsAreNew,
     LeadersBeat, Leads, TypeOK, Creating
<1>10. ASSUME NEW i \in Instances, ForceStepDown(i) \/ Shutdown(i) \/ Crash(i)
       PROVE  Punctual'
  BY <1>10, <1>b DEF Acts, Creating, ForceStepDown, Shutdown, Crash, StepDown, Punctual, StampsAreNew,
     LeadersBeat, Leads, TypeOK, Idle
<1>11. CASE Tick
  <2>1. \A i \in Instances : acquire[i] = Idle /\ beat[i] = Idle
    BY <1>11 DEF Tick, Running, TypeOK, Punctual, StampsAreNew
  <2>2. /\ \A i \in Instances :
             /\ acquire'[i] = Idle /\ beat'[i] = Idle
             /\ status[i] # "up" => due'[i] = {}
        /\ UNCHANGED <<status, leader>>
    BY <1>11, <2>1 DEF Tick
  <2>3. StampsAreNew'
    BY <2>2 DEF Punctual, StampsAreNew, Creating, Idle
  <2>4. ASSUME NEW i \in Instances, Leads(i)', lock'.owner = i, lock'.age >= 0
        PROVE  lock'.age = 1 /\ "heartbeat" \in due'[i]
    <3>1. Leads(i) /\ "heartbeat" \in due'[i]
      BY <1>11, <2>2, <2>4 DEF Tick, Leads
    <3>2. due[i] = {}
      BY <1>11, <3>1 DEF Tick, Running, Leads
    <3>3. Readable
      BY <1>11, <2>4 DEF Tick, TypeOK, Readable, Absent
    <3>4. lock.owner = i /\ lock'.age = Older(lock.age) /\ lock.age >= 0
      BY <1>11, <2>4, <3>3 DEF Tick, TypeOK, Readable
    <3>5. lock.age = 0
      BY <2>1, <3>1, <3>2, <3>4 DEF Punctual, LeadersBeat, Idle
    <3> QED BY <3>1, <3>4, <3>5 DEF Older
  <2> QED BY <2>3, <2>4 DEF Punctual, LeadersBeat
<1>12. ASSUME NEW i \in Instances, FileError(i) PROVE Punctual'
  <2>1. UNCHANGED <<lock, status>>
    BY <1>12 DEF FileError, AcquireFails, HeartbeatFails, VerifyFails, ReleaseFails
  <2>2. CASE AcquireFails(i)
    <3>1. /\ acquire'[i] = Idle \/ acquire'[i] = acquire[i]
          /\ due'[i] \subseteq due[i] /\ UNCHANGED <<leader, beat>>
          /\ "heartbeat" \in due[i] => "heartbeat" \in due'[i]
      BY <2>2 DEF AcquireFails, TypeOK
    <3> QED BY <1>12, <1>b, <2>1, <3>1
            DEF Acts, Punctual, StampsAreNew, LeadersBeat, Leads, Creating, Idle
  <2>3. CASE HeartbeatFails(i) \/ VerifyFails(i)
    <3>1. /\ ~leader'[i] /\ UNCHANGED acquire
          /\ beat'[i] = Idle \/ beat'[i] = beat[i]
          /\ status[i] # "up" => due'[i] = {}
      BY <2>3 DEF HeartbeatFails, VerifyFails, StepDown, TypeOK
    <3> QED BY <1>12, <1>b, <2>1, <3>1
            DEF Acts, Punctual, StampsAreNew, Leads, Creating, Idle
  <2>4. CASE ReleaseFails(i)
    BY <1>12, <1>b, <2>1, <2>4
       DEF Acts, ReleaseFails, Punctual, StampsAreNew, LeadersBeat, Leads, Creating
  <2> QED BY <1>12, <2>2, <2>3, <2>4 DEF FileError
<1>13. CASE UNCHANGED vars
  BY <1>13 DEF vars, Punctual, StampsAreNew, LeadersBeat, Leads, Creating
<1> QED BY <1>1, <1>2, <1>3, <1>4, <1>5, <1>6, <1>7, <1>8, <1>9, <1>10, <1>11, <1>12, <1>13
        DEF Next, Handlers

-----------------------------------------------------------------------------
\* The instances that lead, are about to, or have just done so.
Holds(i) == leader[i] \/ Creating(i) \/ release[i] # "none"

\* As long as no lock expires, one instance at a time has to do with leading, in
\* one way, and there is a lock meanwhile.
OneHolder ==
    /\ \A i, k \in Instances : Holds(i) /\ Holds(k) => i = k
    /\ lock = Absent => \A i \in Instances : ~Holds(i)
    /\ \A i \in Instances :
         /\ acquire[i].at # "rename"
         /\ leader[i] => ~Creating(i) /\ release[i] = "none"
         /\ Creating(i) => release[i] = "none"

Stale == Readable /\ lock.age >= LockTimeout

LEMMA OneHolderNext ==
  ASSUME TypeOK, OneHolder, ~Stale, [Next]_vars
  PROVE  OneHolder'
<1> USE ElectionAssumption
<1>a. \A i \in Instances : Blank(i) # Absent /\ \A n : Stamped(i, n) # Absent
  BY DEF Blank, Absent, Stamped
\* A handler of i that adds nobody to those that hold.
<1>b. ASSUME NEW i \in Instances,
             Acts(i),
             Holds(i)' => Holds(i),
             lock' = Absent => lock = Absent \/ (Holds(i) /\ ~Holds(i)'),
             acquire'[i].at # "rename",
             leader'[i] => ~Creating(i)' /\ release'[i] = "none",
             Creating(i)' => release'[i] = "none"
      PROVE  OneHolder'
  <2>1. \A k \in Instances : k # i => Apart(k)
    BY <1>b, OthersApart
  <2>2. \A k \in Instances : Holds(k)' => Holds(k)
    BY <1>b, <2>1 DEF Apart, Holds, Creating
  <2> QED BY <1>b, <2>1, <2>2 DEF OneHolder, Apart, Creating
<1>1. ASSUME NEW i \in Instances, Start(i) PROVE OneHolder'
  BY <1>1, <1>b DEF Acts, Start, OneHolder, Holds, Creating
<1>2. ASSUME NEW i \in Instances, Acquire(i) PROVE OneHolder'
  <2>1. CASE lock = Absent
    <3>1. \A k \in Instances : ~Holds(k)
      BY <2>1 DEF OneHolder
    <3>2. \A k \in Instances : k # i => Apart(k)
      BY <1>2, OthersApart DEF Acts, Handlers
    <3>3. \A k \in Instances : k # i => ~Holds(k)'
      BY <3>1, <3>2 DEF Apart, Holds, Creating
    <3>4. lock' # Absent /\ acquire'[i] = Op("write") /\ ~leader'[i] /\ release'[i] = "none"
      BY <1>2, <1>a, <2>1, <3>1 DEF Acquire, Vacant, TypeOK, Holds
    <3> QED BY <3>2, <3>3, <3>4 DEF OneHolder, Apart, Creating, Op
  <2>2. CASE lock # Absent
    BY <1>2, <1>b, <2>2 DEF Acts, Handlers, Acquire, Vacant, Op, TypeOK, OneHolder, Holds, Creating, Idle
  <2> QED BY <2>1, <2>2
<1>3. ASSUME NEW i \in Instances, Create(i) \/ Close(i) PROVE OneHolder'
  <2>1. Creating(i) /\ Holds(i) /\ lock # Absent /\ release[i] = "none" /\ ~leader[i]
    BY <1>3 DEF Create, Close, OneHolder, Holds, Creating
  <2>2. lock' # Absent /\ UNCHANGED release
    BY <1>3, <1>a, <2>1 DEF Create, Close
  <2>3. acquire'[i].at # "rename" /\ (leader'[i] => ~Creating(i)')
    BY <1>3, <2>1 DEF Create, Close, TypeOK, Pending, Idle, Creating
  <2> QED BY <1>3, <1>b, <2>1, <2>2, <2>3 DEF Acts, Handlers
<1>4. ASSUME NEW i \in Instances, Inspect(i) PROVE OneHolder'
  BY <1>4, <1>b DEF Acts, Handlers, Inspect, Expired, Stale, TypeOK, Idle, OneHolder, Holds, Creating
<1>5. ASSUME NEW i \in Instances, TakeOver(i) PROVE OneHolder'
  BY <1>5 DEF TakeOver, OneHolder
<1>6. ASSUME NEW i \in Instances, Heartbeat(i) \/ VerifyLeadership(i) PROVE OneHolder'
  <2>1. leader[i] /\ release[i] = "none" /\ UNCHANGED <<lock, acquire>>
    BY <1>6 DEF Heartbeat, VerifyLeadership
  <2>2. /\ leader'[i] => leader[i] /\ release'[i] = release[i]
        /\ Holds(i)
    BY <1>6, <2>1 DEF Heartbeat, VerifyLeadership, StepDown, TypeOK, Holds
  <2> QED BY <1>6, <1>b, <2>1, <2>2 DEF Acts, Handlers, OneHolder, Creating
<1>7. ASSUME NEW i \in Instances, Refresh(i) PROVE OneHolder'
  BY <1>7, <1>a, <1>b DEF Acts, Handlers, Refresh, OneHolder, Holds, Creating
<1>8. ASSUME NEW i \in Instances, ReadBeforeRelease(i) PROVE OneHolder'
  BY <1>8, <1>b DEF Acts, Handlers, ReadBeforeRelease, TypeOK, OneHolder, Holds, Creating
<1>9. ASSUME NEW i \in Instances, Unlink(i) PROVE OneHolder'
  <2>1. /\ Holds(i) /\ ~leader[i] /\ ~Creating(i)
        /\ UNCHANGED <<leader, acquire>> /\ release'[i] = "none"
    BY <1>9 DEF Unlink, OneHolder, Holds, TypeOK
  <2> QED BY <1>9, <1>b, <2>1 DEF Acts, Handlers, OneHolder, Holds, Creating
<1>10. ASSUME NEW i \in Instances, ForceStepDown(i) \/ Shutdown(i) PROVE OneHolder'
  <2>1. release[i] = "none" /\ UNCHANGED <<lock, acquire>>
    BY <1>10 DEF ForceStepDown, Shutdown
  <2>2. /\ leader'[i] => release'[i] = "none"
        /\ Holds(i)' => Holds(i)
        /\ Creating(i)' => release'[i] = "none"
    BY <1>10, <2>1 DEF ForceStepDown, Shutdown, StepDown, TypeOK, OneHolder, Holds, Creating
  <2>3. ~leader'[i]
    BY <1>10, <2>1 DEF ForceStepDown, Shutdown, StepDown, TypeOK
  <2> QED BY <1>10, <1>b, <2>1, <2>2, <2>3 DEF Acts, OneHolder
<1>11. ASSUME NEW i \in Instances, Crash(i) PROVE OneHolder'
  BY <1>11, <1>b DEF Acts, Crash, TypeOK, Holds, Creating, Idle
<1>12. CASE Tick
  <2>1. /\ \A k \in Instances : acquire'[k].at = acquire[k].at
        /\ UNCHANGED <<leader, release>>
    BY <1>12 DEF Tick, TypeOK, Pending, Idle
  <2>2. lock' = Absent => lock = Absent
    BY <1>12 DEF Tick, TypeOK, Readable, Absent
  <2> QED BY <2>1, <2>2 DEF OneHolder, Holds, Creating
<1>13. ASSUME NEW i \in Instances, FileError(i) PROVE OneHolder'
  <2>1. UNCHANGED lock
    BY <1>13 DEF FileError, AcquireFails, HeartbeatFails, VerifyFails, ReleaseFails
  <2>2. CASE AcquireFails(i)
    <3>1. /\ acquire'[i] = Idle \/ acquire'[i] = acquire[i]
          /\ UNCHANGED <<leader, release>>
      BY <2>2 DEF AcquireFails, TypeOK
    <3> QED BY <1>13, <1>b, <2>1, <3>1 DEF Acts, OneHolder, Holds, Creating, Idle
  <2>3. CASE HeartbeatFails(i) \/ VerifyFails(i)
    <3>1. ~leader'[i] /\ UNCHANGED acquire
      BY <2>3 DEF HeartbeatFails, VerifyFails, StepDown, TypeOK
    <3>2. release'[i] = release[i] \/ leader[i]
      BY <2>3 DEF HeartbeatFails, VerifyFails, StepDown
    <3> QED BY <1>13, <1>b, <2>1, <3>1, <3>2 DEF Acts, OneHolder, Holds, Creating
  <2>4. CASE ReleaseFails(i)
    <3>1. UNCHANGED <<leader, acquire>> /\ release[i] # "none" /\ release'[i] = "none"
      BY <2>4 DEF ReleaseFails, TypeOK
    <3> QED BY <1>13, <1>b, <2>1, <3>1 DEF Acts, OneHolder, Holds, Creating
  <2> QED BY <1>13, <2>2, <2>3, <2>4 DEF FileError
<1>14. CASE UNCHANGED vars
  BY <1>14 DEF vars, OneHolder, Holds, Creating
<1> QED BY <1>1, <1>2, <1>3, <1>4, <1>5, <1>6, <1>7, <1>8, <1>9, <1>10, <1>11, <1>12, <1>13,
           <1>14 DEF Next, Handlers

-----------------------------------------------------------------------------
\* As long as no lock expires there is one leader, prompt or not: open(..., 'wx')
\* keeps instances apart, and a lock is only removed by the one that led.
THEOREM NoSplitWithoutExpiry == Spec /\ []~Stale => []SingleLeader
<1>1. Init => OneHolder
  BY DEF Init, OneHolder, Holds, Creating, Idle
<1>2. TypeOK /\ OneHolder /\ ~Stale /\ [Next]_vars => OneHolder'
  BY OneHolderNext
<1>3. OneHolder => SingleLeader
  BY DEF OneHolder, Holds, SingleLeader, Leads
<1> QED BY <1>1, <1>2, <1>3, TypeCorrect, PTL DEF Spec

\* What JobScheduler assumes of its election, in Elected: an instance is not
\* elected while its last step down still has to look at the lock or remove it.
\* It is so as long as no lock expires.
THEOREM NotElectedWhileReleasing ==
  Spec /\ []~Stale => [](\A i \in Instances : leader[i] => release[i] = "none")
<1>1. Init => OneHolder
  BY DEF Init, OneHolder, Holds, Creating, Idle
<1>2. TypeOK /\ OneHolder /\ ~Stale /\ [Next]_vars => OneHolder'
  BY OneHolderNext
<1>3. OneHolder => \A i \in Instances : leader[i] => release[i] = "none"
  BY DEF OneHolder
<1> QED BY <1>1, <1>2, <1>3, TypeCorrect, PTL DEF Spec

\* Two leaders come only of a lock that expired without a leader behind it: a
\* leader with heartbeats in time never lets its own expire.
THEOREM OnlyAbandonedLocksSplit == Spec => SplitNeedsAbandonedLock
<1>1. CASE Prompt /\ LockTimeout > 1
  <2>1. Init => Punctual
    BY DEF Init, Punctual, StampsAreNew, LeadersBeat, Creating, Idle, Absent, Leads
  <2>2. TypeOK /\ Punctual /\ [Next]_vars => Punctual'
    BY <1>1, PunctualNext
  <2>3. TypeOK /\ Punctual /\ ~Abandoned => ~Stale
    <3> SUFFICES ASSUME TypeOK, LeadersBeat, ~Abandoned, Stale PROVE FALSE
      BY DEF Punctual
    <3>1. lock.owner \in Instances /\ lock.age \in Int /\ lock.age >= LockTimeout
      BY DEF Stale, Readable, TypeOK
    <3>2. Leads(lock.owner)
      BY <3>1 DEF Abandoned
    <3> QED BY <1>1, <3>1, <3>2, ElectionAssumption DEF LeadersBeat
  <2>4. Spec => ([]~Abandoned => []SingleLeader)
    BY <2>1, <2>2, <2>3, TypeCorrect, NoSplitWithoutExpiry, PTL DEF Spec
  <2> QED BY <2>4 DEF SplitNeedsAbandonedLock
<1>2. CASE ~(Prompt /\ LockTimeout > 1)
  BY <1>2 DEF SplitNeedsAbandonedLock
<1> QED BY <1>1, <1>2
=============================================================================
