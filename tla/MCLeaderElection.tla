-------------------------- MODULE MCLeaderElection --------------------------
(* Model-checking instances of LeaderElection: with three instances two    *)
(* can race for the lock of one that is gone.                              *)
EXTENDS LeaderElection, TLC

CONSTANTS i1, i2, i3

TwoInstances   == {i1, i2}
ThreeInstances == {i1, i2, i3}

KnownFaults  == {"crash", "force", "shutdown"}
CrashFaults  == {"crash"}

\* Instances are interchangeable; used in the runs without liveness.
Symmetry == Permutations(Instances)
=============================================================================
