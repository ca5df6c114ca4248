---------------------------- MODULE JobLifecycle ----------------------------
(***************************************************************************)
(* What a queue promises about each of its jobs, as its status tells it    *)
(* (JobStatus in src/core/queue/types.ts): a job that is active has one    *)
(* handler at work and no other status has any; a completed job is over; a *)
(* failed one is tried again until its attempts are used up.  What its     *)
(* caller retries is the caller's affair from then on.                     *)
(***************************************************************************)
EXTENDS Naturals

CONSTANTS Jobs, MaxAttempts

VARIABLES
    status,     \* of each job: "new" before it is added, "retried" by its caller
    attempts,   \* the attempts of each job that have failed
    handlers    \* the number of handlers at work for each job

lifecycle == <<status, attempts, handlers>>

Pending == {"waiting", "delayed"}

Init ==
    /\ status = [j \in Jobs |-> "new"]
    /\ attempts = [j \in Jobs |-> 0]
    /\ handlers = [j \in Jobs |-> 0]

\* The job goes from one status of a set to one of another.
Goes(j, from, to) == status[j] \in from /\ status'[j] \in to

Add(j) ==
    /\ Goes(j, {"new"}, Pending)
    /\ attempts'[j] = attempts[j] /\ handlers'[j] = handlers[j]

\* It is started when it is added, while it waits, or when it is tried again.
Begin(j) ==
    /\ Goes(j, {"new", "failed"} \cup Pending, {"active"})
    /\ attempts[j] < MaxAttempts
    /\ attempts'[j] = attempts[j] /\ handlers'[j] = handlers[j] + 1

Complete(j) ==
    /\ Goes(j, {"active"}, {"completed"})
    /\ attempts'[j] = attempts[j] /\ handlers'[j] = handlers[j] - 1

Fail(j) ==
    /\ Goes(j, {"active"}, {"failed"})
    /\ attempts'[j] = attempts[j] + 1 /\ handlers'[j] = handlers[j] - 1

\* It is to be tried again and has to wait.
Requeue(j) ==
    /\ Goes(j, {"failed"}, Pending)
    /\ attempts[j] < MaxAttempts
    /\ attempts'[j] = attempts[j] /\ handlers'[j] = handlers[j]

TakenOver(j) == status'[j] = "retried"

Stays(j) ==
    /\ status'[j] = status[j]
    /\ attempts'[j] = attempts[j] /\ handlers'[j] = handlers[j]

\* Several jobs may be started at once.
Next ==
    \A j \in Jobs :
      \/ Stays(j) \/ TakenOver(j)
      \/ Add(j) \/ Begin(j) \/ Complete(j) \/ Fail(j) \/ Requeue(j)

Spec == Init /\ [][Next]_lifecycle
=============================================================================
