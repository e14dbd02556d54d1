# A verification of the Orchestra runtime

`src/orchestra` runs graphs of LLM agents, public-test harnesses, transforms
and selectors on LiveCodeBench problems, one task per problem, survives being
killed, and grades what it froze. This directory models that program in TLA+,
checks the models with TLC on small instances, and proves with TLAPS, for every
value of the constants, the safety of each part: runtime and files, compiler,
nodes of a command, commands on a run directory, manifests and candidates.

Paths below are relative to the repository root; `PROJECT.json` maps every
definition to the lines it stands for and lists every run, mutant, hazard and
theorem.

## 1. The system

| component | state it keeps | operations |
|---|---|---|
| Graph IR (`ir/nodes.py`, `edges.py`, `graph.py`) | none (values) | `EdgeCondition.evaluate` |
| Graph compiler (`ir/compiler.py`) | locals of one call | `compile`: identifiers, components, edges, slots, waves, final producers, reachability |
| Scheduler (`runtime/scheduler.py`) | none | `resolve_input_ids`, `find_ready_nodes`, `impossible_nodes`, `can_finalize` |
| Wave committer (`runtime/committer.py`) | the `RuntimeState` it is handed, the artifact store | `commit_wave` |
| Runtime (`runtime/native_async.py`) | `RuntimeState` in memory | `execute`: start or resume, wave loop, commit, freeze, deadlock |
| Artifact store (`storage/artifacts.py`) | one file per artifact | `put`, `get` |
| Checkpoint store (`runtime/checkpoint.py`) | one file per task, replaced atomically | `save`, `load` (refuses drift) |
| Event log (`storage/events.py`) | an append-only file | `append` |
| Node execution (`executors/registry.py`, `agent.py`, `harness.py`, `runtime/limits.py`) | semaphores, awaiting tasks | `execute_safely`, `execute` |
| Model client (`llm/openai_compatible_async.py`) | attempt counter | `_post` with retries |
| Sandbox (`sandbox/lcb_official.py`, `lcb_worker.py`) | a worker process | start, wall timeout, kill, collect, grade |
| Docker sandbox (`sandbox/docker.py`) | one container after the other | compile, run each test |
| Selector, transforms (`executors/selector.py`, `transform.py`) | none | rank, select, freeze, unwrap a repair |
| Run command (`cli/run.py`) | the run directory | selection, `--force-rerun`, task semaphore, verdict files |
| Data and manifests (`adapters/livecodebench/loader.py`, `mapper.py`, `cli/prepare_lcb.py`) | data shards, manifest files, the private repository | load, sample, exclude |
| Evaluation command (`cli/evaluate.py`, `adapters/livecodebench/`) | `final_evaluation.json` per task, `predictions.json` | skip, grade, export |
| Telemetry summary (`telemetry/summary.py`, `cli/summarize.py`) | `summary.json` | add up artifacts, events and results |

How they interact. `run.py` compiles the graph and starts one `execute` per
task under a task semaphore. `execute` asks the scheduler for the ready nodes,
runs them concurrently in a `TaskGroup` through the registry, hands all results
to the committer, which stores artifacts and decides edges and skips, then logs
and saves one checkpoint per wave. Agents call the model under an LLM semaphore,
harness nodes start worker processes under a sandbox semaphore. Everything that
outlives a process is in the run directory, where `evaluate.py` finds it later,
or while the run goes on, and from which `summarize.py` makes its report.
`prepare_lcb.py`, `run.py` and `evaluate.py` each read the data shards for
themselves and share only question ids.

What is hard here:

- **Crashes and restarts.** Between any two file writes; artifacts, events and
  checkpoint are three files that must agree after any prefix.
- **Concurrency.** Nodes of a wave end, fail, time out and raise in any order;
  slots of three semaphores, shared by all tasks, are held across retries and
  workers; an exception climbs from a node through two TaskGroups and cancels
  whatever it meets. An evaluation may work beside a run.
- **Decisions that must last.** Conditional edges, skipped branches, failures,
  two producers of one answer: decided once, also across restarts.
- **Stale state.** Contracts edited between starts, grades of removed answers,
  artifacts and events of waves that a crash threw away.
- **Ambiguous names.** Question ids that occur in several records.
- **Boundaries.** No public tests, equal ranks, a wall-clock cap.

## 2. Modules

```
OrchestraIR                    nodes, edges, graphs, conditions
  Scheduler                    pure functions of scheduler.py
    WaveCommitter              commit_wave as a function
      NativeAsyncRuntime       execute over store, checkpoint and event log
        RuntimeProperties      its invariants; the refinement of DurableTask
          TelemetrySummary     what summarize.py makes of the files
            MCRuntime          instances (with BaselineGraphs)
          RuntimeProofs        theorems: memory, checkpoint and store; lineage
            DurabilityProofs     theorems: log, crashes, drift, branches, deadlock,
                                 DurableTask, the summary (with TelemetrySummary),
                                 what commands see (with TaskOutcomes)
      SchedulerProofs          lemmas about the functions of the two above
  DurableTask                  abstract: what a task promises whatever crashes
  BaselineGraphs               B0, B1, B2 of configs/graphs, and a mixed graph
  GraphCompiler                compile, block by block
    CompilerProperties         what acceptance is worth to scheduler and committer
      MCCompiler               the graphs that are compiled
      CompilerProofs           theorems (with SchedulerProofs)
NodeExecution                  the tasks of a command, their waves and nodes: slots,
  MCNodeExecution              retries, timeouts, workers, aborts
  NodeExecutionProofs          theorems
TaskOutcomes                   how a task looks to the commands
  Benchmark                    run and evaluate commands over one run directory
    MCBenchmark
    BenchmarkProofs            theorems
TaskManifests                  which records manifests, runs and evaluations mean
  MCTaskManifests
  ManifestProofs               theorems
CandidateSelection             what verdicts, repair, selection and final grade say of code
  CandidateProofs              theorems
```

### OrchestraIR, Scheduler, WaveCommitter

Pure, as in the code. A node is a record with its kind, its slots, and `rank`,
its place in the order of node ids, which `sorted()` uses. Payloads are members
of `SchemaPayloads`, reduced to the fields that conditions read. Executors
publish on the *first* output slot of a node; `PublishedSlot` keeps that.

### NativeAsyncRuntime

`pc` is the place in `execute`: `loop`, `running` (inside the `TaskGroup`),
`putting` (committer writes artifacts), `logging` (events), `saved`
(checkpoint written, its event not yet), `finishing`; and the ways out:
`returned`, `deadlocked`, `aborted`, `refused`, `down`. `rs` is the
`RuntimeState`; `store`, `checkpoint` and `events` are the files.

| action | code in `native_async.py` |
|---|---|
| `StartFresh`, `Resume`, `RefuseDrift` | 60-108, `CheckpointStore.load` |
| `BeginWave`, `EndLoop` | 111-158: one pass of skipping, ready nodes or the end |
| `NodeSucceeds`, `NodeFails`, `NodeRaises`, `WaveEnds` | 159-167 with `execute_safely` |
| `PutArtifact`, `CommitResults` | 168-170, `commit_wave` |
| `LogResult`, `SaveCheckpoint`, `LogCheckpoint` | 171-226 |
| `FreezeReturn` | 227-231 |
| `Crash` | any await or write; also the cancellation by another task's exception |
| `EditContracts` | outside the process |

A step ends where a file is written or a node awaited, since only there a
crash leaves something different behind. The artifact id is producer and start,
which stands for the fresh uuid of `create_artifact`.

### DurableTask

The promise, without process, wave, active edges or crash: nodes are decided in
batches by the declarative meaning of the graph, decisions are never revised,
the first answer ends the task. `RuntimeProperties` maps the files to it
(`Decision`, `Product`, `Answer`): crashes, restarts, memory and log are
stuttering, each `SaveCheckpoint` is one `Decide`.

### GraphCompiler

`stage` goes through the blocks of `compile` in their order; the first fault
rejects. The layering loop (one wave a step) and the reachability loop keep the
code's variables. `CompilerProperties` ties the compiler to the runtime:
`AcceptedGraphsDeliver` runs the scheduler's and the committer's own definitions
on what was accepted.

### TelemetrySummary

Operators over the files of NativeAsyncRuntime: which artifacts
`summarize.py` takes for the verdicts before and after repair, and which events
it adds up. The order of `created_at` is that of start and wave, as artifacts of
one wave are made together. It reads neither checkpoint nor state, so the property
relates its figures to the checkpoint: they differ by what crashes threw away, and
not more. What it says of verdicts is about any graph with two harness nodes of
which the second needs the first (`VerdictPairs`).

### NodeExecution

One invocation of `run.py` seen from inside: what each node awaits (`step`), its
POSTs (`attempt`), its worker process; each task's wave and its end; the
`TaskGroup` of the command. An exception goes from a node to the TaskGroup of its
wave (`task[t] = "aborting"`), out of `run_one` to that of the command
(`run = "aborting"`), and from there as a cancellation into the other tasks.
Outcomes correspond to `NativeAsyncRuntime`: `succeeded` is `NodeSucceeds`, `failed` is
`NodeFails`, `raised` is `NodeRaises`, a task that is cancelled is `Crash`. Which
waves a task comes to is a constant; whether it goes on to the next is open.

### Benchmark

Commands on one run directory, each of which may be killed: at most one `run`
and one `evaluate` at a time, which may overlap (`command` and `grader` are their
places in the code). A task's directory
keeps per file a status and a *generation*, the command under which its
checkpoint was first made. The runtime inside `CommitWave(q)` is an abstraction
of `NativeAsyncRuntime`: a checkpoint is missing, partial, dead or frozen, and
changes as the operators of `TaskOutcomes` say. That the runtime keeps to them is
the theorem `RuntimeServesCommands`; that a resume finds its artifacts is
`ResumeSafe`. `ForceRerun` removes files one by one, as
`shutil.rmtree` does. `graph_result.json`, `final_evaluation.json` and
`predictions.json` are written in place: a write is two steps, the first of which
truncates what was there (for the last, `ExportPredictions` and
`PredictionsWritten`), so that a kill or a reader finds them torn.
`ForceDuringEvaluation` says whether somebody forces a rerun while an evaluation
is going on; the checked instances say no (see section 5).

### CandidateSelection

The data side of the branch in which B1 and B2 end: draft, verdict, repair,
verdict, selection, final grade, each as the code computes it, with the external
checker reduced to how a program behaves on a test (`quick`, `slow`, `wrong`,
`error`, `late`, `hang`) and how long that takes, to the whole second. The
worker's start takes 0 up to `WorkerGraceSeconds`, and measured durations differ
by that noise. `backend` is the sandbox of the run: the official worker, Docker,
or Docker with a daemon that may refuse any container (the compiling one or a
test's) or never start it. Docker's durations count every container, the first
one as well, also where that fails (`CompileStepFailed`). `CacheWritable` says whether Python in the container can write
its cache; with the mounts that `docker.py` makes it cannot (section 6).

### TaskManifests

The data is any sequence of records per shard; a record is an id with a
difficulty and is told from others by its line. `Prepare`, `Run` and `Evaluate`
are the three commands, which read the shards through the same loader but with
other releases, filters and orders. `problem` and `private` remember which line
a question's statement and its private tests came from.

## 3. Runs

TLC finishes each passing run in less than two minutes.

| run | instance | distinct states | what it shows |
|---|---|---|---|
| `runtime_mixed` | graph `Mixed`, 2 nodes at once, 2 starts | 156 636 | nothing committed is lost, dangling, unexplained by the log or mixed with a dead branch; a crash costs one wave; the files implement `DurableTask` (`ImplementsDurableTask`) |
| `runtime_b2` | B2, 3 starts | 304 726 | of alternative branches at most one runs, a deadlock means a failure and is permanent; a summary is off by no more than what crashes threw away |
| `runtime_restarts` | B0, 3 starts, 2 contracts | 32 920 | no silent mixture of contracts; every start ends |
| `compiler` | all graphs on 3 nodes over 9 possible edges, B0-B2, 19 variants | 285 099 | accepted graphs can be indexed, waves are depths, the cycle verdict is exact, accepted graphs deliver |
| `benchmark` | 2 tasks, 1 slot, 5 commands, kills, evaluation during a run | 309 316 | grades match answers, are not recomputed, private tests only after freezing, predictions are written only when all is graded and are the graded answers once whole, commands end |
| `node_execution` | 3 tasks on 2 task slots, 3 agents, 2 harness nodes, 1 slot each, 1 timed agent | 960 435 | slots bound workers, tasks end whole or aborted, the command ends |
| `candidate_selection` | up to 2 public and 1 private test, 3 backends | 4 781 964 | verdicts are exact, repairs have a reason, no candidate that was measured in full loses to a worse one, the final grade is right |
| `task_manifests` | 2 shards of up to 2 records, 3 ids, 2 difficulties, 2 manifests | 117 993 | manifests can be run whole and are disjoint, answers are graded on their own tests |
| `drift_back`, `dead_branch`, `docker_verdict`, `stale_grade` | | | the disagreements of section 6 |

Each module has one type invariant, `TypeOK`, checked in its run.

Every property of a passing run has a mutant in `PROJECT.json`: an operator,
kept beside the definition it mutates and called "the mutated form" there, which
makes TLC find the property violated.

**Bounds.** `MaxBoots` 2 or 3: each wave of a start begins from what the
checkpoint holds, so two starts show every pair of crash point and resume;
three are needed for contracts edited away and back, and for what two crashes
leave in a summary. `Mixed` has what the
baselines lack (two sources for a slot, two conditions on one slot and a value
that meets neither, two answers in one wave, more ready nodes than slots, a slot
nobody publishes on). Three nodes with a parallel pair and two self-loops are
the least in which indegrees, waves and cycles can go wrong separately.
`MaxCommands` 5: run, evaluate, force-rerun, run and evaluate again, of which any
may overlap or be cut short. Two tasks compete for one slot. In `node_execution`
two harness nodes and three agents of different tasks compete for one slot each,
and a third task waits for a slot that another may give back by raising. Two
shards of two records let an id repeat within a shard, across releases and with
another difficulty, and the third id is that of the exclusion file; two manifests
are the least of which one can exclude the other. `MaxWorkerWallSeconds` 6 lets the cap bite for two and three tests
(2 + 1 seconds each, 1 second of grace) but still leaves two slow tests their time.
`ContainerSeconds` 1 lets a container's start be harmless to a quick test and cost a
slow one, with tests that may take 2 seconds.

`MCRuntime` keeps the general properties honest on the baselines: the assumptions
`BaselinesAnswer` and `BaselinesBranch`, which TLC evaluates, say that B0, B1 and B2
leave no verdict without a branch (so that `DeadlockMeansFailure` speaks of
failures), that the two ways out of B2's first harness node are alternatives (for
`OneBranchRuns`), and that its harness nodes are a pair (for `SummaryWithinCrashes`).

**Deadlock checking** is off: a command, a compilation, a wave and a task
really stop. Where stopping early would be wrong there is a liveness property
(`EveryStartEnds`, `CommandsEnd`, `RunEndsEventually`).

In `docker_verdict`, `stale_grade`, `dead_branch` and `drift_back` the violated
property is an invariant, so that no fairness is involved.

**Fairness.** Weak fairness on the steps of a running process (in `NodeExecution`
only on all of its steps together: the event loop goes on while anything can): `execute`,
`evaluate` and `run` are sequential code whose awaits all end by themselves
(httpx's timeout, the backoff's sleep, the worker's wall timeout, or
`asyncio.timeout`), and asyncio's semaphores wake their waiters. No fairness on
starting, killing, editing contracts, giving commands, a worker ending by itself
or a node's own deadline. Retries need no fairness assumption about success:
three attempts end in an exception.

## 4. Theorems

Every theorem below is of the form `Spec => []P` or `Spec => P`, with a `P` that a
run checks except where the text says what `P` is, and holds for every value of the constants that the assumptions
named in the modules allow; TLC evaluates those in every run. A theorem that
needs more says so as its hypothesis. No property is inductive by itself; each
section names the invariant that is.

### Runtime (`SchedulerProofs`, `RuntimeProofs`, `DurabilityProofs`)

For every graph that satisfies `IsGraph`, every `MaxParallel`, every set of
contracts and any number of crashes and restarts:

| theorem | property | hypothesis |
|---|---|---|
| `TypeCorrect` | `TypeOK` | |
| `ResumeSafe` | `ReferencedArtifactsStored` | |
| `CheckpointsQuiescent` | `CheckpointQuiescent` | |
| `AnswersFreeze` | `FrozenIffAnswered` | |
| `DecisionsStay` | `DecisionsAreFinal` | |
| `LineageCommitted` | `CommittedLineage` | |
| `LogExplains` | `CheckpointExplained` | |
| `CrashesCostOneWave` | `CrashCostsOneWave` | |
| `DriftIsNeverSilent` | `NoSilentDrift` | `TRUE \notin AllowDriftChoices` |
| `DeadlockStays` | `DeadlockIsForever` | |
| `FilesImplementDurableTask` | `ImplementsDurableTask` | |
| `OneBranchOnly` | `OneBranchRuns` | |
| `DeadlockNeedsFailure` | `DeadlockMeansFailure` | |
| `SummaryHolds` | `SummaryWithinCrashes` | |
| `RuntimeServesCommands` | `ServesCommands` (the operators of `TaskOutcomes`) | the graph has an entry node |

The argument starts from the files. The checkpoint is copied from memory, memory
is computed from results, and results name artifacts that are stored only
afterwards. `IInv` (in `RuntimeProperties`) adds what links them: `ResultsInv`
(results are of nodes of the wave, and complete when artifacts are put), `PutInv`
(what the loop over the results has passed is in the store), `LoopInv` (nodes run
in memory only inside a wave, and the loop goes on only without an answer),
`ExtendsInv` (memory agrees with the checkpoint on what that has decided, and the
checkpoint is not frozen while the loop runs), `SavedInv` (just after saving the
two are equal). `CommitWaveEffect` says what `commit_wave` does to a state, from
a lemma for each of its parts; each action has a lemma. `DecisionsStay`
follows since only `SaveCheckpoint` changes the checkpoint
(`OnlySaveChangesCheckpoint`), and there `ExtendsInv` holds.

`LineageInv` says that these states fit the *graph*. `StatesSound`: in memory and
checkpoint a conditional edge is active exactly if its source succeeded and its
condition holds of what that has on file, outputs descend from the outputs of the
same state, and a skipped node has a slot on which nothing can arrive. `WaveInv`:
the nodes of a wave had all of their inputs when it began, there are at most
`MaxParallel` of them, and what is put is what they made from these inputs.
`CommittedInv`: until the checkpoint is saved, memory is what the results say. It
rests on a fact about `put`: the id is new, because a node runs once in a start
unless its state is thrown away with the process (`PutIsNew`).

On these two stand, in `DurabilityProofs`, `EventInv` (a decision in memory has
its event, but for the results still to log), `OrphanInv` (the artifacts of this
start that no checkpoint names are of the wave that is being committed),
`ContractInv` (a state names artifacts of its own contracts only), `Doomed` (every
state that a later start can go on from has no node to run; it is stable, as the
functions of the scheduler depend on the checkpoint alone), and `AheadInv` and
`FedInv` for the refinement. In that, `SaveCheckpoint` is the one step that is
not a stutter: what memory has beyond the checkpoint is one wave (`AheadInv`), each
node of which got its inputs over edges whose conditions hold (`FedInv`), and the
skips that follow are those `DurableTask` asks for.

Branches: `ResolvedInv` says that a node that was started had all of its inputs and
still has, also when it has failed since, and `PayloadInv` that what is on file has
the schema it was published under. Two alternatives would then need one output
that meets both conditions. `DeadlockNeedsFailure` adds `UnansweredInv` (without an
answer nobody has published the final slot): when a task without failures is
stuck, the nodes that have succeeded are all that can run, and they would be an
execution to the end without an answer. `AlwaysAnswers` says that the graph has none.

The summary: `CountInv` splits the events into one per decision and those
that were lost, at most a wave for every start that has ended. `DatesInv` says
that of the files of one node the committed one is the last. `FilesInv` says that
every file, those of lost waves included, comes after the files of the nodes it
needs, and that its parents are of the committed draft once that is there: the
wave that ran twice read the same checkpoint. This last part (`Rooted`) leaves out
nodes with initial inputs only, since a start that was killed before its first
checkpoint had an initial artifact of its own; `VerdictPairs` asks accordingly that
the first harness node judges what another node has drafted.

What commands see: `StatusInv` ties the place in `execute` to the status of the
checkpoint. From `AheadInv`, a wave begins only where a node was ready, so the
checkpoint was not dead; the loop ends in a deadlock only if memory, which equals
the checkpoint there, leaves no node to run; and a frozen checkpoint is not touched.
Without an entry node the first start would end in a deadlock with no checkpoint
at all. `AcceptedHasEntry` shows that the compiler lets no such graph through.

### Compiler (`CompilerProofs`)

For any declarations, contracts and components: `CompilerTyped` (`TypeOK`),
`CyclesAreTold` (`CycleVerdictExact`), `WavesFollowDepth` (`WavesAreDepths`),
`AcceptedDelivers` (`AcceptedGraphsDeliver`), and `AcceptedCanRun`
(`AcceptedIsGraph`), which says that the assumption of the runtime's theorems holds
of every graph that the compiler lets through. `AcceptedCanRun` needs that
every node declares an output slot: `compile` does not check that, and
`next(iter(output_slots))` in `harness.py:96` raises where there is none.
`AcceptedHasEntry` says that an accepted graph has an entry node, by `EntriesInv`:
the set of them is not empty once the check for it has been passed.

`CompilerInv` is the loop invariant. `ChecksInv` says what each check that was
passed has established. `LayersInv` says that the indegree kept for a node counts
its edges from nodes not yet visited, that `current` has the nodes without any,
that no set of nodes that wait for each other has been visited (so that there
never is a cycle among visited nodes, and the rest of a loop that stops early
has one), and that the waves so far are depths. `AcceptedDelivers` follows
the scheduler and the committer over an accepted graph: as long as there is no
answer some pending node of least depth is ready.

### Nodes of a command (`NodeExecutionProofs`)

For any tasks, waves, retries and slots: `NodesTyped` (`TypeOK`),
`TasksWholeOrAborted` (`WholeOrAborted`), `SemaphoresHold` (no more nodes hold a
slot of a semaphore than it has) and `LivingWorkersWithinSlots`
(`WorkersWithinSlots`). The last needs `TimedNodes \cap HarnessNodes = {}`, as
section 5 explains. `TaskInv` has `WavesInv` (which nodes can have begun, and that
all of an earlier wave are done) and `BlameInv` (whatever is aborted or cancelled
goes back to a node that raised). `SlotsInv` counts the holders; `WorkerInv` says
that a living worker is that of a node which holds a slot, or was left behind by
a cancellation, after which the command is no longer running.

### Commands (`BenchmarkProofs`)

`BenchmarkTyped` (`TypeOK`) holds as it is. `GradesMatchAnswers`
(`EvaluationMatchesAnswer`), `PrivateTestsAfterFreeze` (`PrivateOnlyAfterFreeze`),
`GradedOnce` (`NoReevaluation`) and `PredictionsAreGraded` (`ExportedAsGraded`)
need what the `benchmark` run has: `ForceDuringEvaluation = FALSE` and
`"clearing" \notin KillPoints`. Without them the code does break the first
(`stale_grade` in section 6, and section 5). `PredictionsAreGraded` does not say
that an export happens at once: a kill inside it leaves `predictions.json` torn, and
the previous one is gone. `DirectoriesInv` says that the files
of a task are of one generation, up to files that are still to be cleared;
`GradesInv` says that what an evaluation has read so far is still so.

### Manifests (`ManifestProofs`)

For any number of ids, shards, records and manifests: `ManifestTyped`
(`TypeOK`), `ManifestsStayApart` (`ManifestsDisjoint`), `ManifestsCanRun`
(`ManifestsRunnable`), `OwnTestsGrade` (`GradedOnOwnTests`). `ManifestInv` says
that every line that was read for an id is the last one the whole release has for
it. The lemmas say what the loader's steps do to "the last record with an id":
concatenating shards, filtering and stable sorting keep it, and the
dictionary takes it.

### Candidates (`CandidateProofs`)

For any number of tests, any limits and any time that workers and containers take
to start: `CandidatesTyped` (`TypeOK`), `RepairsHaveReason` (`RepairHasReason`),
`CorrectCodeNotCutOff` (`CorrectCodeIsNeverCutOff`), and, if Docker's image lets
Python write its cache (`"docker" \in Backends => CacheWritable`; `docker_verdict`
shows that this is needed), `VerdictsExact` (`VerdictExact`), `FrozenIsBest`
(`FrozenCodeIsBest`) and `GradesAgree` (`GradeAgreesWithHarness`). `Told` is what
each kind of sandbox result says of the program it is about, `Judged` what the
verdict made of it says; `CandInv` says that each verdict kept judges the code it
is kept beside, that a repair follows a verdict that is no pass, that the frozen
code is what those verdicts choose, and that the grade is of the frozen code.

`FrozenIsBest` says four things, each with its limits. The frozen code is a candidate.
It compiles if a candidate does, with the official checker or with a healthy Docker
daemon that starts a container within a test's time (`CompileStepHolds`). It solves
the public tests if a candidate does to which the backend leaves the time for that
(`HasItsTime`). And it passes at least as many public tests as each candidate
that is measured in full (`MeasuredInFull`). "Passes" is as the backend counts
(`Solved`): the official checker stops at the first test that is not passed, Docker
goes on. Of a candidate that a tight cap may cut off, that a container's start may
cost a test, or that meets a failing daemon it says nothing, and a worse one can
then be frozen in its place. `CandidatesTyped` bounds durations: the worker's cap, or a test's time for each of `publicTests + 1`
containers. Both bounds are to the second; what it takes to kill a process that has
run out of time comes on top.

### How induction over data is done

Several of these need an induction over a number (a sum, a loop's count, the
depth of a node). The library's induction theorems take an operator as parameter,
which the provers cannot instantiate; the proofs take the least number for which
the claim fails instead, which exists as the naturals are well-founded
(`LeastNatural` and `FirstNodeExists` of `SchedulerProofs`, `LeastOf` and `UpTo` of
`CandidateProofs`). Recursive functions are shown to exist in the same way
(`SumExists`).

### Only model-checked

- Liveness: `EveryStartEnds`, `CommandsEnd`, `RunEndsEventually` (fairness and
  ENABLED are beyond the prover).
- What a recursive definition computes for every input, beyond the sums and
  depths above, and the instances themselves (that the baselines satisfy the
  assumptions is evaluated by TLC).

Every safety property of a passing run is the subject of a theorem.

## 5. What each part must get right

- *Runtime*: `ReferencedArtifactsStored`, `CheckpointQuiescent`,
  `FrozenIffAnswered`, `DecisionsAreFinal`, `CommittedLineage` (an answer's
  ancestors come from its own state, over edges whose conditions hold),
  `CrashCostsOneWave`, `CheckpointExplained` (the log does not lag behind the
  checkpoint), `NoSilentDrift`,
  `OneBranchRuns`, `DeadlockMeansFailure`, `DeadlockIsForever`, `EveryStartEnds`.
- *Compiler*: `AcceptedIsGraph`, `WavesAreDepths`, `CycleVerdictExact`,
  `AcceptedGraphsDeliver`.
- *Concurrency*: `WorkersWithinSlots`, `WholeOrAborted`, `RunEndsEventually`.
  `WorkersWithinSlots` is about a command of which nothing is being aborted (an
  abort leaves workers running), and needs harness nodes without `timeout_seconds`, as all
  baselines have them: a node's own time-out cancels the wait for its worker
  without killing it (`registry.py:42`, `lcb_official.py:137`).
- *Commands*: `EvaluationMatchesAnswer`, `PrivateOnlyAfterFreeze`,
  `NoReevaluation`, `ExportedAsGraded`, `CommandsEnd`.
  The first and the export need that `--force-rerun` is not killed while it
  removes files (section 6, `stale_grade`), and that nobody forces a rerun while
  an evaluation is grading: it would write the old answer's grade beside the new
  one (with `ForceDuringEvaluation = TRUE` and no kills TLC finds just that). Where a task has failed, evaluation
  ends there, as its `graph_result.json` is missing: no predictions are written.
  A torn `final_evaluation.json` ends it likewise, until somebody removes the file.
- *Candidates*: `VerdictExact`, `RepairHasReason`, `FrozenCodeIsBest`,
  `GradeAgreesWithHarness`, `CorrectCodeIsNeverCutOff`. With the shipped
  limits (6 s a test, 5 s of grace, a cap of 60 s) the last one covers programs
  with up to nine tests; with more, the cap may fail a program that is slow on
  each of them, as `cli/evaluate.py` counts public and private tests together.
  With Docker, exactness is for programs that leave a container's start its time,
  on a healthy daemon, in an image that lets Python write its cache.
  What `FrozenCodeIsBest` leaves out is in section 4.
- *Data*: `ManifestsRunnable`, `ManifestsDisjoint`, `GradedOnOwnTests`. The last
  rests on two facts a change could undo: `sorted` is stable, and both dicts keep
  the later of equal ids. It needs data that does not change in between.
- *Summary*: `SummaryWithinCrashes`.

## 6. Where code and documents disagree

`DOC` is `Stage1_LiveCodeBench_Unified_Runtime_Implementation.md`.

- `drift_back`: the checkpoint keeps the hash it was first made with. After one
  start with `--allow-config-drift`, editing the contracts back makes a later
  start without the flag resume a mixture (DOC:1687-1688).
- `dead_branch` (`EveryBranchCanActivate`): only the first component of a condition's path is checked
  (DOC:823).
- `stale_grade`: `--force-rerun` killed half-way can leave the old grade beside
  a new answer (DOC:1689).
- `docker_verdict`: the first container of `docker.py` compiles the code in a
  directory that is mounted read-only, where `py_compile` cannot write its cache;
  every program is then reported as not compiling, although `README.md:95` offers
  this backend as the stronger one.

Noticed without a run:

- One checkpoint per wave, so a crash after nodes have ended and before it makes
  them run again, where DOC:1684-1685 says never. `CrashCostsOneWave` is what
  holds instead.
- A node's own time-out leaves its worker running, where DOC:1938 lists "timeout
  kills child processes"; see `WorkersWithinSlots` above.
- `failed_node_count` of the summary is read from `graph_result.json`, which only
  a task that did not deadlock has; on the baselines every failure before the
  answer ends in a deadlock, so it counts none of them.
- "public-test pass rate after repair" (DOC:1570) counts a task that was never
  repaired if a crash made its first harness node run twice
  (`summary.py:47`); `SummaryWithinCrashes` states it up to that.
- A crash in the middle of an event leaves a line that makes every later
  `summarize` of the run directory fail (`storage/events.py:13`, `summary.py:56`).
- `README.md` describes a `--resume` flag that `cli/run.py` does not accept;
  resuming is what every start does.

## 7. Not modelled

- Decoding of test cases, prompts, parsers' text, YAML and environment files,
  usage figures, latencies: data or I/O without the control the properties are
  about. `load_visible` and the date and platform filters of the loader are
  called by no command; `merge_analysis_artifacts` and `identity_code` copy.
- The mock back ends: test doubles.
- Resource limits, privileges and environment of worker and container, and
  containers that outlive a killed client: the operating system's and Docker's.
- Two runs in one run directory at once, a changed experiment configuration in
  the same run directory, data files that change, an exclusion file that is not
  found, and a mock run resumed as a real one: listed as hazards, without a
  property.
- Torn lines of the event log (section 6), torn `run_manifest.json` and
  `summary.json` (both are written in place as well), and functional tests under Docker,
  which it refuses with an exception.
- Hashes and uuids are taken to be collision-free.

## 8. Plan

Done, in this order: the runtime and its files with their proofs, the compiler,
the commands, the candidates with both sandboxes, the tasks of a command from
inside, evaluation beside a run, the manifests, the summary; then the theorems
about each of them, those that relate two components included (compiler and
runtime, runtime and summary, runtime and commands). Left:

1. `Benchmark` takes from the runtime the statuses of a checkpoint. Its
   generations, and the artifacts that belong to one, follow from `ResumeSafe` and
   `DriftIsNeverSilent` by argument only; an instance of `Benchmark` with one
   runtime per task would make that a refinement.
2. `NodeExecution` and `NativeAsyncRuntime` meet in the outcomes of nodes
   (section 2), which is likewise an argument and not a theorem.
3. A changed configuration in one run directory, which ends a command in
   `CheckpointDriftError`, as part of `Benchmark`.
