--------------------------- MODULE NodeExecution ---------------------------
(***************************************************************************)
(* The concurrency inside one invocation of cli/run.py: a TaskGroup of     *)
(* benchmark tasks under the task semaphore; in each task the TaskGroup of *)
(* one wave after the other (native_async.py); in each wave nodes under    *)
(* execute_safely with its optional timeout (executors/registry.py), of    *)
(* which agents call the model under the LLM semaphore with retries        *)
(* (executors/agent.py, llm/openai_compatible_async.py) and harness nodes  *)
(* grade code in a worker process under the sandbox semaphore              *)
(* (executors/harness.py, sandbox/lcb_official.py).  The three semaphores  *)
(* are shared by all tasks.                                                *)
(*                                                                         *)
(* NativeAsyncRuntime sees of this only what becomes of one task's nodes:  *)
(* NodeSucceeds, NodeFails, NodeRaises, and Crash when it is cancelled.    *)
(***************************************************************************)
EXTENDS Integers, FiniteSets, Sequences

CONSTANTS
  AgentNodes, HarnessNodes,   \* the nodes of all tasks
  Waves,                      \* task -> the waves it may come to
  TaskSlots,                  \* limits.max_parallel_benchmark_tasks
  LLMSlots,                   \* limits.max_parallel_llm_calls
  SandboxSlots,               \* limits.max_parallel_sandboxes
  TimedNodes                  \* the nodes that set timeout_seconds

AllNodes == AgentNodes \cup HarnessNodes

Tasks == DOMAIN Waves

(* The nodes of one task are not those of another, nor of another wave. *)
ASSUME KindsAssumption == AgentNodes \cap HarnessNodes = {}
ASSUME SlotsAssumption ==
  TaskSlots \in Nat \ {0} /\ LLMSlots \in Nat \ {0} /\ SandboxSlots \in Nat \ {0}
ASSUME WavesAssumption ==
  /\ \A t \in Tasks : Len(Waves[t]) > 0 /\ Waves[t] \in Seq(SUBSET AllNodes)
  /\ \A n \in AllNodes : \E t \in Tasks : \E i \in DOMAIN Waves[t] :
       /\ n \in Waves[t][i]
       /\ \A u \in Tasks : \A j \in DOMAIN Waves[u] : n \in Waves[u][j] => u = t /\ j = i

MaxAttempts == 3

VARIABLES
  step,      \* node -> what it is awaiting
  attempt,   \* node -> POSTs made so far
  outcome,   \* node -> how its asyncio task ended
  worker,    \* node -> its worker process
  wave,      \* task -> the number of its wave, 0 before the first
  task,      \* task -> waiting, running, aborting, or how it ended
  run        \* the command: running, aborting or ended

command == <<wave, task, run>>
vars    == <<step, attempt, outcome, worker, wave, task, run>>

-----------------------------------------------------------------------------

WaveNodes(t) == IF wave[t] = 0 THEN {} ELSE Waves[t][wave[t]]

TaskOf(n) == CHOOSE t \in Tasks : \E i \in DOMAIN Waves[t] : n \in Waves[t][i]

Begun(n) == n \in WaveNodes(TaskOf(n))

Settle(n, result) ==
  /\ step' = [step EXCEPT ![n] = "done"]
  /\ outcome' = [outcome EXCEPT ![n] = result]

(* An exception that execute_safely does not catch: the wave's TaskGroup     *)
(* aborts.                                                                   *)
Raise(n) ==
  /\ Settle(n, "raised")
  /\ task' = [task EXCEPT ![TaskOf(n)] = "aborting"]

Holding(kind) == {n \in kind : step[n] \in {"posting", "backoff", "grading", "reaping"}}

StartPosting(n) ==
  /\ n \in AgentNodes
  /\ step[n] = "waiting"
  /\ Begun(n)
  /\ Cardinality(Holding(AgentNodes)) < LLMSlots
  /\ step' = [step EXCEPT ![n] = "posting"]
  /\ attempt' = [attempt EXCEPT ![n] = 1]
  /\ UNCHANGED <<outcome, worker, command>>

(* A usable answer, or one that the parser or the schema rejects with        *)
(* ValueError or KeyError.                                                   *)
Answered(n) ==
  /\ step[n] = "posting"
  /\ \E result \in {"succeeded", "failed"} : Settle(n, result)
  /\ UNCHANGED <<attempt, worker, command>>

(* Status 4xx other than 429, or a body of another shape: no second attempt, *)
(* and neither httpx.HTTPStatusError nor IndexError is caught.               *)
Rejected(n) ==
  /\ step[n] = "posting"
  /\ Raise(n)
  /\ UNCHANGED <<attempt, worker, wave, run>>

(* The mutated form: one attempt too many. *)
UnavailableOnceMore(n) ==
  /\ step[n] = "posting"
  /\ IF attempt[n] <= MaxAttempts
     THEN /\ step' = [step EXCEPT ![n] = "backoff"]
          /\ UNCHANGED <<outcome, task>>
     ELSE Raise(n)
  /\ UNCHANGED <<attempt, worker, wave, run>>

(* Status 429 or 5xx, a transport error or httpx's own timeout. *)
Unavailable(n) ==
  /\ step[n] = "posting"
  /\ IF attempt[n] < MaxAttempts
     THEN /\ step' = [step EXCEPT ![n] = "backoff"]
          /\ UNCHANGED <<outcome, task>>
     ELSE Raise(n)
  /\ UNCHANGED <<attempt, worker, wave, run>>

(* The mutated form: every retry is the first one. *)
RetryForever(n) ==
  /\ step[n] = "backoff"
  /\ step' = [step EXCEPT ![n] = "posting"]
  /\ UNCHANGED <<attempt, outcome, worker, command>>

(* The slot of the semaphore is kept through the backoff. *)
Retry(n) ==
  /\ step[n] = "backoff"
  /\ step' = [step EXCEPT ![n] = "posting"]
  /\ attempt' = [attempt EXCEPT ![n] = @ + 1]
  /\ UNCHANGED <<outcome, worker, command>>

-----------------------------------------------------------------------------

(* Code that does not compile is not sent to the sandbox. *)
SyntaxErrorFound(n) ==
  /\ n \in HarnessNodes
  /\ step[n] = "waiting"
  /\ Begun(n)
  /\ Settle(n, "succeeded")
  /\ UNCHANGED <<attempt, worker, command>>

StartWorker(n) ==
  /\ n \in HarnessNodes
  /\ step[n] = "waiting"
  /\ Begun(n)
  /\ Cardinality(Holding(HarnessNodes)) < SandboxSlots
  /\ step' = [step EXCEPT ![n] = "grading"]
  /\ worker' = [worker EXCEPT ![n] = "alive"]
  /\ UNCHANGED <<attempt, outcome, command>>

(* The worker writes a result, or ends without one. *)
WorkerExits(n) ==
  /\ worker[n] = "alive"
  /\ \E how \in {"reported", "broken"} : worker' = [worker EXCEPT ![n] = how]
  /\ UNCHANGED <<step, attempt, outcome, command>>

(* OfficialLCBSandboxUnavailable is a RuntimeError. *)
WorkerCollected(n) ==
  /\ step[n] = "grading"
  /\ \/ worker[n] = "reported" /\ Settle(n, "succeeded") /\ UNCHANGED task
     \/ worker[n] = "broken"   /\ Raise(n)
  /\ UNCHANGED <<attempt, worker, wave, run>>

(* The mutated form: the time is up, and the worker is left to itself. *)
WallTimeoutWithoutKill(n) ==
  /\ step[n] = "grading"
  /\ step' = [step EXCEPT ![n] = "reaping"]
  /\ UNCHANGED <<attempt, outcome, worker, command>>

(* killpg.  A worker that has just exited is not there to be killed.         *)
WallTimeout(n) ==
  /\ step[n] = "grading"
  /\ step' = [step EXCEPT ![n] = "reaping"]
  /\ worker' = [worker EXCEPT ![n] = IF @ = "alive" THEN "killed" ELSE @]
  /\ UNCHANGED <<attempt, outcome, command>>

(* The time-out is a verdict about the code, not a failure of the node, even *)
(* when the worker had reported in the meantime.                             *)
WorkerReaped(n) ==
  /\ step[n] = "reaping"
  /\ Settle(n, "succeeded")
  /\ UNCHANGED <<attempt, worker, command>>

-----------------------------------------------------------------------------

(* The mutated form: the timeout comes out as the cancellation it is made of. *)
NodeTimeoutAsCancellation(n) ==
  /\ n \in TimedNodes
  /\ Begun(n)
  /\ step[n] # "done"
  /\ Settle(n, "cancelled")
  /\ UNCHANGED <<attempt, worker, command>>

(* asyncio.timeout runs from the start of the task, the wait for the         *)
(* semaphore included.  It cancels whatever the node awaits; communicate()   *)
(* is cancelled without the killpg of the wall timeout.                      *)
NodeTimeout(n) ==
  /\ n \in TimedNodes
  /\ Begun(n)
  /\ step[n] # "done"
  /\ Settle(n, "failed")
  /\ UNCHANGED <<attempt, worker, command>>

CancelSibling(n) ==
  /\ task[TaskOf(n)] = "aborting"
  /\ Begun(n)
  /\ step[n] # "done"
  /\ Settle(n, "cancelled")
  /\ UNCHANGED <<attempt, worker, command>>

-----------------------------------------------------------------------------
(* The tasks of the command.                                                 *)

nodes == <<step, attempt, outcome, worker>>

Becomes(t, status) == task' = [task EXCEPT ![t] = status]

(* While another task's exception is under way a waiting task may still take *)
(* the slot it has just given back.                                          *)
TakeTaskSlot(t) ==
  /\ task[t] = "waiting"
  /\ Cardinality({u \in Tasks : task[u] \in {"running", "aborting"}}) < TaskSlots
  /\ Becomes(t, "running")
  /\ wave' = [wave EXCEPT ![t] = 1]
  /\ UNCHANGED <<nodes, run>>

WaveIsOver(t) == \A n \in WaveNodes(t) : step[n] = "done"

(* Whether there is a next wave is up to conditions and failures.            *)
NextWave(t) ==
  /\ task[t] = "running"
  /\ WaveIsOver(t)
  /\ wave[t] < Len(Waves[t])
  /\ wave' = [wave EXCEPT ![t] = @ + 1]
  /\ UNCHANGED <<nodes, task, run>>

(* execute has returned, or raised GraphDeadlockError, which run_one catches. *)
TaskReturns(t) ==
  /\ task[t] = "running"
  /\ WaveIsOver(t)
  /\ Becomes(t, "returned")
  /\ UNCHANGED <<nodes, wave, run>>

(* The exception of a node leaves run_one and aborts the TaskGroup of the    *)
(* command; a cancellation from there comes out as itself.                   *)
TaskAborts(t) ==
  /\ task[t] = "aborting"
  /\ WaveIsOver(t)
  /\ IF \E n \in WaveNodes(t) : outcome[n] = "raised"
     THEN Becomes(t, "raised") /\ run' = "aborting"
     ELSE Becomes(t, "cancelled") /\ UNCHANGED run
  /\ UNCHANGED <<nodes, wave>>

CancelTask(t) ==
  /\ run = "aborting"
  /\ \/ task[t] = "waiting" /\ Becomes(t, "cancelled")
     \/ task[t] = "running" /\ Becomes(t, "aborting")
  /\ UNCHANGED <<nodes, wave, run>>

RunEnds ==
  /\ run # "ended"
  /\ \A t \in Tasks : task[t] \in {"returned", "raised", "cancelled"}
  /\ run' = "ended"
  /\ UNCHANGED <<nodes, wave, task>>

-----------------------------------------------------------------------------

Init ==
  /\ step    = [n \in AllNodes |-> "waiting"]
  /\ attempt = [n \in AllNodes |-> 0]
  /\ outcome = [n \in AllNodes |-> "none"]
  /\ worker  = [n \in AllNodes |-> "none"]
  /\ wave    = [t \in Tasks |-> 0]
  /\ task    = [t \in Tasks |-> "waiting"]
  /\ run     = "running"

PostEnds(n) == Answered(n) \/ Rejected(n) \/ Unavailable(n)

WorkerAwaited(n) == WorkerCollected(n) \/ WallTimeout(n)

NodeSteps ==
  \E n \in AllNodes :
    \/ StartPosting(n) \/ PostEnds(n) \/ Retry(n)
    \/ SyntaxErrorFound(n) \/ StartWorker(n) \/ WorkerAwaited(n) \/ WorkerReaped(n)
    \/ CancelSibling(n)

TaskSteps ==
  \E t \in Tasks :
    TakeTaskSlot(t) \/ NextWave(t) \/ TaskReturns(t) \/ TaskAborts(t) \/ CancelTask(t)

Next ==
  \/ NodeSteps
  \/ TaskSteps
  \/ RunEnds
  \/ \E n \in AllNodes : WorkerExits(n) \/ NodeTimeout(n)

Spec == Init /\ [][Next]_vars

(* The event loop goes on with something as long as there is anything: a     *)
(* POST ends by the client's timeout, a backoff by its sleep, the wait for a *)
(* worker by the wall timeout, and a slot that is free wakes a waiter.  No   *)
(* worker has to end by itself, and no node's own deadline has to come.      *)
FairSpec == Spec /\ WF_vars(NodeSteps \/ TaskSteps \/ RunEnds)

-----------------------------------------------------------------------------

(* Every variable holds a value of its kind; no node makes more than three   *)
(* POSTs, only harness nodes have workers, and no node moves before its wave *)
(* has begun.                                                                *)
TypeOK ==
  /\ step \in [AllNodes -> {"waiting", "posting", "backoff", "grading", "reaping", "done"}]
  /\ attempt \in [AllNodes -> 0 .. MaxAttempts]
  /\ outcome \in [AllNodes -> {"none", "succeeded", "failed", "raised", "cancelled"}]
  /\ \A n \in AllNodes : step[n] = "done" <=> outcome[n] # "none"
  /\ worker \in [AllNodes -> {"none", "alive", "reported", "broken", "killed"}]
  /\ \A n \in AgentNodes : worker[n] = "none"
  /\ \A t \in Tasks : wave[t] \in 0 .. Len(Waves[t])
  /\ task \in [Tasks -> {"waiting", "running", "aborting", "returned", "raised", "cancelled"}]
  /\ \A t \in Tasks : \A i \in wave[t] + 1 .. Len(Waves[t]) : \A n \in Waves[t][i] :
       step[n] = "waiting"
  /\ run \in {"running", "aborting", "ended"}

(* While nothing is being aborted, no more worker processes are alive, of    *)
(* all tasks together, than the sandbox semaphore has slots: a slot is free  *)
(* only once its worker is gone.  This needs harness nodes without           *)
(* timeout_seconds, as in the baselines.                                     *)
WorkersWithinSlots ==
  run = "running" /\ (\A t \in Tasks : task[t] # "aborting") =>
    Cardinality({n \in HarnessNodes : worker[n] = "alive"}) <= SandboxSlots

(* A task returns only with a result for each node of each of its waves,     *)
(* which is what commit_wave indexes; the others end because a node raised,  *)
(* in that task or in another, and then the command is aborted.  So a node's *)
(* own timeout or failure never takes another node along, and no task is     *)
(* left out of a command that ends well.                                     *)
WholeOrAborted ==
  /\ \A t \in Tasks : task[t] = "returned" =>
       \A i \in 1 .. wave[t] : \A n \in Waves[t][i] : outcome[n] \in {"succeeded", "failed"}
  /\ (\E t \in Tasks : task[t] \in {"raised", "cancelled"}) =>
       /\ \E n \in AllNodes : outcome[n] = "raised"
       /\ run # "running"

(* The command ends: retries are bounded, and no task or node keeps a slot   *)
(* that another one needs.                                                   *)
RunEndsEventually == <>(run = "ended")

=============================================================================
