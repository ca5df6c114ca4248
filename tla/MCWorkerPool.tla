---------------------------- MODULE MCWorkerPool ----------------------------
(* Model-checking instance of WorkerPool: two workers, three threads over   *)
(* the time of a run, three tasks of different priorities.                 *)
EXTENDS WorkerPool, TLC

CONSTANTS a, b, c, w1, w2, w3

MCTasks    == {a, b, c}
MCTimed    == {a}
MCPriority == (a :> "low") @@ (b :> "normal") @@ (c :> "high")
MCThreads  == {w1, w2, w3}
MCFirst    == <<w1, w2>>
=============================================================================
