--------------------------- MODULE MCBenchmark ---------------------------
(***************************************************************************)
(* Two tasks, run together or one at a time (--task-id).                   *)
(***************************************************************************)
EXTENDS Benchmark

CONSTANTS q1, q2

TwoTasks == <<q1, q2>>

EitherOrBoth == SUBSET {q1, q2} \ {{}}
=============================================================================
