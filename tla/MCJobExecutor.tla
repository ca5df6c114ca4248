--------------------------- MODULE MCJobExecutor ---------------------------
(* Model-checking instance of JobExecutor: two executions of one job.      *)
EXTENDS JobExecutor

CONSTANTS e1, e2

MCExecs == {e1, e2}
=============================================================================
