--------------------------- MODULE LeaderElection ---------------------------
(***************************************************************************)
(* File-based leader election of src/core/jobs/leader-election.ts.         *)
(*                                                                         *)
(* Every file operation is awaited, so an instance's handlers interleave   *)
(* with each other and with the other instances between two of them; an    *)
(* action is one file operation with the code up to the next.              *)
(*                                                                         *)
(* One tick is a heartbeat interval: it makes each live instance's timers  *)
(* due, and ages the lock and the stamps still to be written.  A restarted *)
(* process has a fresh instanceId and so is another instance.              *)
(***************************************************************************)
EXTENDS Integers

CONSTANTS
    Instances,    \* instance ids
    LockTimeout,  \* options.lockTimeout, in ticks
    Prompt,       \* whether timers and file operations keep up with the clock
    Faults,       \* subset of {"crash", "force", "shutdown"}
    MaxErrors     \* bound: the file operations that fail

ASSUME ElectionAssumption ==
    /\ "none" \notin Instances
    /\ LockTimeout \in Nat \ {0}
    /\ Prompt \in BOOLEAN
    /\ MaxErrors \in Nat

VARIABLES
    lock,      \* the lock file: absent, or its owner and the age of its stamp
    status,    \* whether each process is new, up, shut down or crashed
    leader,    \* this.isLeader
    due,       \* the timers that have fired and whose callback is to run
    acquire,   \* tryAcquireFileLock: the operation it awaits, its stamp's age
    beat,      \* the same for the heartbeat's rename
    release,   \* the file operation stepDown awaits
    errors     \* how many file operations have failed

vars == <<lock, status, leader, due, acquire, beat, release, errors>>

Absent     == [owner |-> "none", age |-> 0]
\* The file as open(..., 'wx') leaves it, until its creator has written to it; a
\* write that fails leaves it empty or torn, which JSON.parse rejects alike.
Blank(i)   == [owner |-> i, age |-> -1]
Stamped(i, age) == [owner |-> i, age |-> age]

Idle    == [at |-> "none", age |-> 0]
Op(at)  == [at |-> at, age |-> 0]
Running == {i \in Instances : status[i] \in {"up", "down"}}
Leads(i) == status[i] = "up" /\ leader[i]

\* open(..., 'wx') creates the file only when there is none.
VacantIfBlank == lock = Absent \/ lock.age < 0  \* mutant
Vacant == lock = Absent

\* What JSON.parse accepts: a file with a stamp in it.
Readable == lock # Absent /\ lock.age >= 0
OwnsUnasked(i) == Readable  \* mutant
Owns(i)  == Readable /\ lock.owner = i
ExpiredIfOwn(i) == Readable /\ lock.age >= LockTimeout /\ lock.owner = i  \* mutant
Expired(i) == Readable /\ lock.age >= LockTimeout
Older(n) == IF n \in 0..LockTimeout - 1 THEN n + 1 ELSE n

-----------------------------------------------------------------------------
Init ==
    /\ lock = Absent
    /\ status = [i \in Instances |-> "new"]
    /\ leader = [i \in Instances |-> FALSE]
    /\ due = [i \in Instances |-> {}]
    /\ acquire = [i \in Instances |-> Idle]
    /\ beat = [i \in Instances |-> Idle]
    /\ release = [i \in Instances |-> "none"]
    /\ errors = 0

\* start(): an attempt at once, and the periodic check.
Start(i) ==
    /\ status[i] = "new"
    /\ status' = [status EXCEPT ![i] = "up"]
    /\ due' = [due EXCEPT ![i] = {"check"}]
    /\ UNCHANGED <<lock, leader, acquire, beat, release, errors>>

\* stepDown up to its first await; it does nothing when not leading.
StepDown(i) ==
    IF leader[i]
    THEN /\ leader' = [leader EXCEPT ![i] = FALSE]
         /\ release' = [release EXCEPT ![i] = "read"]
    ELSE UNCHANGED <<leader, release>>

\* The periodic check of an instance that does not lead: stamp, then open.
Acquire(i) ==
    /\ "check" \in due[i] /\ ~leader[i]
    /\ acquire[i] = Idle
    /\ due' = [due EXCEPT ![i] = @ \ {"check"}]
    /\ IF Vacant
       THEN /\ lock' = Blank(i)
            /\ acquire' = [acquire EXCEPT ![i] = Op("write")]
       ELSE /\ acquire' = [acquire EXCEPT ![i] = Op("read")]
            /\ UNCHANGED lock
    /\ UNCHANGED <<status, leader, beat, release, errors>>

\* The creator writes to the file it opened, whatever the path names by now ...
CreateUnwritten(i) ==  \* mutant
    /\ acquire[i].at = "write"
    /\ acquire' = [acquire EXCEPT ![i].at = "close"]
    /\ UNCHANGED <<lock, status, leader, due, beat, release, errors>>
Create(i) ==
    /\ acquire[i].at = "write"
    /\ lock' = IF lock = Blank(i) THEN Stamped(i, acquire[i].age) ELSE lock
    /\ acquire' = [acquire EXCEPT ![i].at = "close"]
    /\ UNCHANGED <<status, leader, due, beat, release, errors>>

\* ... and leads once it has closed it.
Close(i) ==
    /\ acquire[i].at = "close"
    /\ acquire' = [acquire EXCEPT ![i] = Idle]
    /\ leader' = [leader EXCEPT ![i] = TRUE]
    /\ UNCHANGED <<lock, status, due, beat, release, errors>>

\* The lock exists: a valid one, even the instance's own, and an unreadable one
\* end the attempt.
Inspect(i) ==
    /\ acquire[i].at = "read"
    /\ acquire' = [acquire EXCEPT ![i] = IF Expired(i) THEN [@ EXCEPT !.at = "rename"]
                                                       ELSE Idle]
    /\ UNCHANGED <<lock, status, leader, due, beat, release, errors>>

\* Take the expired lock over.
TakeOver(i) ==
    /\ acquire[i].at = "rename"
    /\ lock' = Stamped(i, acquire[i].age)
    /\ acquire' = [acquire EXCEPT ![i] = Idle]
    /\ leader' = [leader EXCEPT ![i] = TRUE]
    /\ UNCHANGED <<status, due, beat, release, errors>>

-----------------------------------------------------------------------------
\* Bound: an instance has one attempt, one heartbeat and one step down under way
\* at a time; none takes longer than the timer that started it.

\* sendHeartbeat: read the lock; one that is not its own makes the leader step
\* down and try again a second later.
Heartbeat(i) ==
    /\ "heartbeat" \in due[i] /\ leader[i]
    /\ beat[i] = Idle /\ release[i] = "none"
    /\ IF Owns(i)
       THEN /\ beat' = [beat EXCEPT ![i] = Op("rename")]
            /\ due' = [due EXCEPT ![i] = @ \ {"heartbeat"}]
            /\ UNCHANGED <<leader, release>>
       ELSE /\ StepDown(i)
            /\ due' = [due EXCEPT ![i] = {"check"}]
            /\ UNCHANGED beat
    /\ UNCHANGED <<lock, status, acquire, errors>>

\* The heartbeat's rename, leading or not by now.
Refresh(i) ==
    /\ beat[i].at = "rename"
    /\ lock' = Stamped(i, beat[i].age)
    /\ beat' = [beat EXCEPT ![i] = Idle]
    /\ UNCHANGED <<status, leader, due, acquire, release, errors>>

\* The periodic check of a leader.
VerifyLeadership(i) ==
    /\ "check" \in due[i] /\ leader[i] /\ release[i] = "none"
    /\ IF Owns(i)
       THEN /\ due' = [due EXCEPT ![i] = @ \ {"check"}]
            /\ UNCHANGED <<leader, release>>
       ELSE /\ StepDown(i)
            /\ due' = [due EXCEPT ![i] = {}]
    /\ UNCHANGED <<lock, status, acquire, beat, errors>>

\* stepDown reads the lock ...
ReadBeforeRelease(i) ==
    /\ release[i] = "read"
    /\ release' = [release EXCEPT ![i] = IF Owns(i) THEN "unlink" ELSE "none"]
    /\ UNCHANGED <<lock, status, leader, due, acquire, beat, errors>>

\* ... and removes it, whoever owns it by now.
Unlink(i) ==
    /\ release[i] = "unlink"
    /\ lock' = Absent
    /\ release' = [release EXCEPT ![i] = "none"]
    /\ UNCHANGED <<status, leader, due, acquire, beat, errors>>

-----------------------------------------------------------------------------
\* forceStepDown().
ForceStepDown(i) ==
    /\ "force" \in Faults
    /\ status[i] = "up" /\ leader[i] /\ release[i] = "none"
    /\ StepDown(i)
    /\ due' = [due EXCEPT ![i] = @ \ {"heartbeat"}]
    /\ UNCHANGED <<lock, status, acquire, beat, errors>>

\* shutdown(): the timers stop; operations under way go on.
Shutdown(i) ==
    /\ "shutdown" \in Faults
    /\ status[i] = "up" /\ release[i] = "none"
    /\ status' = [status EXCEPT ![i] = "down"]
    /\ due' = [due EXCEPT ![i] = {}]
    /\ StepDown(i)
    /\ UNCHANGED <<lock, acquire, beat, errors>>

\* The process dies, between two file operations.
Crash(i) ==
    /\ "crash" \in Faults
    /\ status[i] \in {"up", "down"}
    /\ status' = [status EXCEPT ![i] = "crashed"]
    /\ leader' = [leader EXCEPT ![i] = FALSE]
    /\ due' = [due EXCEPT ![i] = {}]
    /\ acquire' = [acquire EXCEPT ![i] = Idle]
    /\ beat' = [beat EXCEPT ![i] = Idle]
    /\ release' = [release EXCEPT ![i] = "none"]
    /\ UNCHANGED <<lock, errors>>

\* A file operation of tryAcquireFileLock fails: the open of a file that may not
\* be there, or the one the attempt awaits, whose effect is missing.  Either ends
\* the attempt; a failed write leaves the file it was for as it is.
AcquireFails(i) ==
    /\ \/ /\ acquire[i] # Idle
          /\ acquire' = [acquire EXCEPT ![i] = Idle]
          /\ UNCHANGED due
       \/ /\ "check" \in due[i] /\ ~leader[i] /\ acquire[i] = Idle
          /\ due' = [due EXCEPT ![i] = @ \ {"check"}]
          /\ UNCHANGED acquire
    /\ UNCHANGED <<lock, status, leader, beat, release>>

\* The heartbeat's read or rename fails: step down, try again a second later.
HeartbeatFails(i) ==
    /\ leader[i] => release[i] = "none"
    /\ \/ "heartbeat" \in due[i] /\ leader[i] /\ beat[i] = Idle
       \/ beat[i].at = "rename"
    /\ beat' = [beat EXCEPT ![i] = Idle]
    /\ due' = [due EXCEPT ![i] = IF status[i] = "up" THEN {"check"} ELSE {}]
    /\ StepDown(i)
    /\ UNCHANGED <<lock, status, acquire>>

\* A leader that cannot read the lock steps down.
VerifyFails(i) ==
    /\ "check" \in due[i] /\ leader[i] /\ release[i] = "none"
    /\ due' = [due EXCEPT ![i] = {}]
    /\ StepDown(i)
    /\ UNCHANGED <<lock, status, acquire, beat>>

\* A step down that can neither read nor remove the lock leaves it.
ReleaseFails(i) ==
    /\ release[i] # "none"
    /\ release' = [release EXCEPT ![i] = "none"]
    /\ UNCHANGED <<lock, status, leader, due, acquire, beat>>

FileError(i) ==
    /\ errors < MaxErrors
    /\ errors' = errors + 1
    /\ AcquireFails(i) \/ HeartbeatFails(i) \/ VerifyFails(i) \/ ReleaseFails(i)

\* A heartbeat interval passes.
Tick ==
    /\ Prompt => \A i \in Running :
         due[i] = {} /\ acquire[i] = Idle /\ beat[i] = Idle /\ release[i] = "none"
    /\ lock' = IF Readable THEN [lock EXCEPT !.age = Older(@)] ELSE lock
    /\ acquire' = [i \in Instances |->
         IF acquire[i] = Idle THEN Idle ELSE [acquire[i] EXCEPT !.age = Older(@)]]
    /\ beat' = [i \in Instances |->
         IF beat[i] = Idle THEN Idle ELSE [beat[i] EXCEPT !.age = Older(@)]]
    /\ due' = [i \in Instances |->
         IF status[i] # "up" THEN {}
         ELSE IF leader[i] THEN {"heartbeat", "check"} ELSE {"check"}]
    /\ UNCHANGED <<status, leader, release, errors>>

-----------------------------------------------------------------------------
Handlers(i) ==
    \/ Acquire(i) \/ Create(i) \/ Close(i) \/ Inspect(i) \/ TakeOver(i)
    \/ Heartbeat(i) \/ Refresh(i) \/ VerifyLeadership(i)
    \/ ReadBeforeRelease(i) \/ Unlink(i)

Next ==
    \/ \E i \in Instances :
         \/ Start(i) \/ Handlers(i)
         \/ ForceStepDown(i) \/ Shutdown(i) \/ Crash(i) \/ FileError(i)
    \/ Tick

Spec == Init /\ [][Next]_vars

\* Timers fire and file operations complete in a process that lives, all but
\* finitely many without an error.
Fairness == WF_vars(Tick) /\ \A i \in Instances : WF_vars(Handlers(i))

FairSpec == Spec /\ Fairness

-----------------------------------------------------------------------------
Pending(stages) == [at : stages, age : 0..LockTimeout]

TypeOK ==
    /\ lock \in {Absent} \cup [owner : Instances, age : -1..LockTimeout]
    /\ status \in [Instances -> {"new", "up", "down", "crashed"}]
    /\ leader \in [Instances -> BOOLEAN]
    /\ due \in [Instances -> SUBSET {"check", "heartbeat"}]
    /\ acquire \in [Instances -> Pending({"write", "close", "read", "rename"}) \cup {Idle}]
    /\ beat \in [Instances -> Pending({"rename"}) \cup {Idle}]
    /\ release \in [Instances -> {"none", "read", "unlink"}]
    /\ errors \in 0..MaxErrors

\* An empty lock that nobody is about to fill: it stops every election.
Wedged == lock.age < 0 /\ acquire[lock.owner].at # "write"

\* There are two ways to that, both of the instance that creates the lock: it dies
\* before it has written to the file, or its write fails.  No step down, shutdown,
\* take over or heartbeat still in flight, failing or not, leaves such a file.
OnlyCreationWedges ==
    [][~Wedged /\ Wedged' =>
         /\ lock' = lock /\ acquire[lock.owner].at = "write"
         /\ status'[lock.owner] = "crashed" \/ errors' > errors]_vars

\* There is one leader, as the comments on the class and on tryAcquireFileLock
\* say, the race to take over an expired lock included.
SingleLeader == \A i, k \in Instances : Leads(i) /\ Leads(k) => i = k

\* A lock that expires although its owner does not lead any more, or never did:
\* a crash leaves one, and so does a heartbeat or an attempt that was under way
\* when its instance stepped down or shut down, a creator that fails to close the
\* file and a step down that fails to remove it.
Abandoned == lock.age >= LockTimeout /\ ~Leads(lock.owner)

\* That race is the only way to two leaders.  With heartbeats in time, and a lock
\* that outlives one of them, no lock of a leader expires; and without an expired
\* lock the exclusive creation of the file keeps leaders apart, whatever steps
\* down, shuts down, crashes or writes late.
SplitNeedsAbandonedLock ==
    Prompt /\ LockTimeout > 1 => ([]~Abandoned => []SingleLeader)

\* The reconciliation the comment on tryAcquireFileLock speaks of: instances
\* that took an expired lock over together do not all go on leading.
Pairs == {{i, k} : i, k \in Instances} \ {{i} : i \in Instances}
SplitHeals ==
    \A pair \in Pairs :
      (\A i \in pair : Leads(i)) ~> (\E i \in pair : ~Leads(i))

\* As long as an instance lives, one is elected again and again, as the class's
\* comment has it: after a crash, a step down, a shutdown or a failed operation.
Failover ==
    (\E i \in Instances : status[i] = "up") ~>
      (\E i \in Instances : Leads(i)) \/ (\A i \in Instances : status[i] # "up")

\* What holds of it: it takes a lock that can be read.  Every other lock that is
\* left behind expires and is taken over.
FailoverUnlessWedged ==
    (\E i \in Instances : status[i] = "up") ~>
      \/ \E i \in Instances : Leads(i)
      \/ \A i \in Instances : status[i] # "up"
      \/ Wedged
=============================================================================
