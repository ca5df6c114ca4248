--------------------------- MODULE MCJobStateManager ---------------------------
(***************************************************************************)
(* The state manager of a job whose executions, saves and load overlap,    *)
(* with a disk that fails once and a process that restarts once.           *)
(***************************************************************************)
EXTENDS JobStateManager, TLC

CONSTANTS a, s1, s2

MCJobs == {a}
MCSaves == {s1, s2}
Sym == Permutations(MCSaves)
=============================================================================
