--------------------------- MODULE MCMemoryQueue ---------------------------
(* Model-checking instance of MemoryQueue: two jobs and a delayed one, one *)
(* of them retried by its caller, the other failing without a message too. *)
EXTENDS MemoryQueue

CONSTANTS a, b, d

MCJobs    == {a, b, d}
MCDelayed == {d}
MCLimits  == {2}
MCRetriable == {a}
MCTerse == {b}
MCCalls   == 1..2
=============================================================================
