--------------------------- MODULE MCJobScheduler ---------------------------
(* Model-checking instances of JobScheduler.                               *)
EXTENDS JobScheduler, TLC

CONSTANTS j1, j2, j3, j4, e1, e2

TwoJobs  == {j1, j2}
FourJobs == {j1, j2, j3, j4}
TwoExecs == {e1, e2}
OneExec  == {e1}

\* Of the two jobs j1 is a one-time job, and j2 runs ahead of it.
OneTimeJob  == {j1}
AllOne      == [j \in Jobs |-> 1]
Ranked      == [j \in Jobs |-> IF j = j2 THEN 2 ELSE 1]

\* Of the four jobs j1 ranks first and is the one whose timer is chained; j2 and
\* j3, of the same rank, are enough to starve j4 of the only slot.
LongFirst   == [j \in Jobs |-> IF j = j1 THEN 3 ELSE 1]
ThreeRanks  == [j \in Jobs |-> IF j = j1 THEN 3 ELSE IF j = j4 THEN 1 ELSE 2]

AllRequests ==
    {"enable", "unregister", "trigger", "throw", "stepdown", "shutdown"}

\* Slots are interchangeable; used in the safety runs only.
Symmetry == Permutations(Execs)
=============================================================================
