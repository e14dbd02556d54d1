---------------------------- MODULE TaskOutcomes ----------------------------
(***************************************************************************)
(* How cli/run.py and cli/evaluate.py see what execute makes of a task, by *)
(* its checkpoint: missing, partial (a start goes on from it), dead (a     *)
(* start ends in GraphDeadlockError) or frozen (it has the answer).        *)
(* Benchmark is built on these operators; that NativeAsyncRuntime keeps to *)
(* them is proved in DurabilityProofs.                                     *)
(***************************************************************************)

CheckpointStatuses == {"missing", "partial", "dead", "frozen"}

(* A start of the task has something to run. *)
Unsettled == {"missing", "partial"}

(* What the checkpoint can be after one more wave. *)
AfterWave(status) ==
  IF status \in Unsettled THEN {"partial", "dead", "frozen"} ELSE {}

(* What it is when execute returns, raises GraphDeadlockError, or lets the   *)
(* exception of a node through.                                              *)
StatusWhen == [returned |-> {"frozen"}, deadlocked |-> {"dead"}, aborted |-> Unsettled]
=============================================================================
