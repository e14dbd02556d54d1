------------------------- MODULE CandidateSelection -------------------------
(***************************************************************************)
(* How one task of B1 comes to its answer and its grade: a draft is graded *)
(* on the public tests, repaired unless it passed, the repaired code is    *)
(* graded too, the selector takes the better one, and that is graded on    *)
(* the public and the private tests.  (The same nodes end B2.)             *)
(*                                                                         *)
(* NativeAsyncRuntime and NodeExecution show when nodes run and how they   *)
(* fail; here every node succeeds, and the subject is what the verdicts    *)
(* say of the code.  A program is deterministic: it behaves the same way   *)
(* on a test whenever it is run, but for the time it takes to be started.  *)
(* All times are in seconds.                                               *)
(***************************************************************************)
EXTENDS Integers, FiniteSets, SequencesExt

CONSTANTS
  MaxPublicTests,       \* bound of the model: the public tests a task has
  MaxPrivateTests,      \* bound of the model: the private tests it has
  PerTestSeconds,       \* sandbox.per_test_timeout_seconds
  WorkerGraceSeconds,   \* sandbox.worker_grace_seconds
  MaxWorkerWallSeconds, \* sandbox.max_worker_wall_seconds
  Backends,             \* the values of sandbox.backend (see DockerResults)
  ContainerSeconds,     \* what a container takes to start (the first: and to compile), at most
  CacheWritable,        \* whether sandbox.image lets Python cache byte code off /work
  None                  \* the output a node has not published yet

ASSUME TestsAssumption == MaxPublicTests \in Nat /\ MaxPrivateTests \in Nat
ASSUME LimitsAssumption ==
  /\ PerTestSeconds \in Nat \ {0}
  /\ WorkerGraceSeconds \in Nat
  /\ MaxWorkerWallSeconds \in Nat \ {0}
ASSUME BackendsAssumption ==
  /\ Backends \subseteq {"lcb_official", "docker", "docker_failing"}
  /\ ContainerSeconds \in Nat
  /\ CacheWritable \in BOOLEAN

VARIABLES
  backend,         \* the sandbox that grades the public tests
  publicTests,     \* how many public tests the task has
  initial,         \* the draft
  initialResult,   \* its PublicHarnessResultArtifact
  repaired,        \* the repaired code
  repairedResult,
  final,           \* the frozen code
  grade            \* [passed, private]: the verdict, and the final code on the private tests

vars == <<backend, publicTests, initial, initialResult, repaired, repairedResult, final, grade>>

-----------------------------------------------------------------------------
(* Programs, and check_correctness of the LiveCodeBench checkout: it runs    *)
(* the tests in order, stops after the first that is not passed, and stops a *)
(* program that takes more than PerTestSeconds, unless it escapes its alarm. *)

Passing == {"quick", "slow"}
Behaviours == Passing \cup {"wrong", "error", "late", "hang"}

Runs(n) == [1 .. n -> Behaviours]

Uncompilable == [compiles |-> FALSE, runs |-> << >>]
Programs(n) == {Uncompilable} \cup [compiles : {TRUE}, runs : Runs(n)]

Seconds ==
  [ quick |-> 1, slow |-> PerTestSeconds, wrong |-> 1, error |-> 1,
    late |-> PerTestSeconds + 1, hang |-> MaxWorkerWallSeconds + 1 ]

Failing(runs) == {i \in DOMAIN runs : runs[i] \notin Passing}

Checked(runs) == IF Failing(runs) = {} THEN runs ELSE SubSeq(runs, 1, Min(Failing(runs)))

Total(numbers) ==
  LET sum[i \in 0 .. Len(numbers)] == IF i = 0 THEN 0 ELSE sum[i - 1] + numbers[i]
  IN  sum[Len(numbers)]

CheckerSeconds(runs) ==
  LET checked == Checked(runs)
  IN  Total([i \in DOMAIN checked |-> Seconds[checked[i]]])

-----------------------------------------------------------------------------
(* The worker: its wall timeout, and what it reports of the public tests.    *)

(* The mutated forms: one test's allowance for all of them, and no cap. *)
FlatWallTimeout(n) == Min({MaxWorkerWallSeconds, PerTestSeconds + 1 + WorkerGraceSeconds})
UncappedWallTimeout(n) == (PerTestSeconds + 1) * Max({1, n}) + WorkerGraceSeconds

WorkerWallTimeout(n) ==
  Min({MaxWorkerWallSeconds, (PerTestSeconds + 1) * Max({1, n}) + WorkerGraceSeconds})

(* overhead: what the worker takes besides the checker, at most its grace. *)
CutOff(runs, overhead) == overhead + CheckerSeconds(runs) > WorkerWallTimeout(Len(runs))

Count(runs, behaviour) == Cardinality({i \in DOMAIN runs : runs[i] = behaviour})

NotCompiled ==
  [ compiled |-> FALSE, passed |-> 0, runtime_errors |-> 0, timeouts |-> 0,
    failed |-> 0, stderr |-> TRUE, duration |-> 0 ]

TimedOut(n) ==
  [ compiled |-> TRUE, passed |-> 0, runtime_errors |-> 0, timeouts |-> 1,
    failed |-> 0, stderr |-> TRUE, duration |-> WorkerWallTimeout(n) ]

Report(runs, noise) ==
  LET checked == Checked(runs)
      errors  == Count(checked, "error")
      lates   == Count(checked, "late")
  IN  [ compiled       |-> TRUE,
        passed         |-> Len(checked) - Cardinality(Failing(checked)),
        runtime_errors |-> errors,
        timeouts       |-> lates,
        failed         |-> IF Failing(runs) = {} THEN 0 ELSE Len(checked),
        stderr         |-> errors + lates > 0,
        duration       |-> CheckerSeconds(runs) + noise ]

OfficialResults(program) ==
  {IF CutOff(program.runs, pair[1]) THEN TimedOut(publicTests) ELSE Report(program.runs, pair[2]) :
          pair \in {p \in (0 .. WorkerGraceSeconds) \X (0 .. WorkerGraceSeconds) : p[2] <= p[1]}}

-----------------------------------------------------------------------------
(* DockerSandbox: one container compiles the code, then one runs each test,  *)
(* also after a test that failed.  Each has PerTestSeconds from the moment   *)
(* it is asked for, so that its start counts against what it is to run.      *)
(* With a failing daemon any of them may be refused (docker run exits with   *)
(* 125) or never start.  What goes wrong with the first container is         *)
(* reported as code that does not compile; and so is any code if Python      *)
(* cannot write its cache: py_compile puts it beside the source, and /work   *)
(* is mounted read-only, unless the image redirects it.                      *)

Starts ==
  0 .. ContainerSeconds \cup IF backend = "docker_failing" THEN {PerTestSeconds + 1} ELSE {}

InTime == {seconds \in Starts : seconds <= PerTestSeconds}

Refusals(runs) == IF backend = "docker_failing" THEN SUBSET (DOMAIN runs) ELSE {{}}

CompileStepFailed(timed_out, seconds) ==
  [NotCompiled EXCEPT !.runtime_errors = 1, !.timeouts = timed_out, !.duration = seconds]

CompileStepFailures ==
  {CompileStepFailed(1, PerTestSeconds) : first \in Starts \ InTime}
    \cup
  {CompileStepFailed(0, first) :
     first \in IF backend = "docker_failing" \/ ~ CacheWritable THEN InTime ELSE {}}

(* What each test's container takes if it is not stopped. *)
Takes(runs, starts, refused) ==
  [i \in DOMAIN runs |-> starts[i] + IF i \in refused THEN 0 ELSE Seconds[runs[i]]]

Overruns(takes) == {i \in DOMAIN takes : takes[i] > PerTestSeconds}

(* first: what the compile container took; the duration counts it too. *)
DockerReport(runs, first, takes, refused) ==
  LET late   == Overruns(takes)
      errors == {i \in (DOMAIN runs) \ late : i \in refused \/ runs[i] = "error"}
      failed == Failing(runs) \cup late \cup refused
  IN  [ compiled       |-> TRUE,
        passed         |-> Len(runs) - Cardinality(failed),
        runtime_errors |-> Cardinality(errors),
        timeouts       |-> Cardinality(late),
        failed         |-> IF failed = {} THEN 0 ELSE Min(failed),
        stderr         |-> FALSE,
        duration       |-> first + Total([i \in DOMAIN runs |-> Min({PerTestSeconds, takes[i]})]) ]

DockerReports(runs) ==
  {DockerReport(runs, first, Takes(runs, starts, refused), refused) :
     first \in InTime, starts \in [DOMAIN runs -> Starts], refused \in Refusals(runs)}

DockerResults(program) ==
  CompileStepFailures \cup IF CacheWritable THEN DockerReports(program.runs) ELSE {}

(* What the harness node gets: it compiles the code itself before it asks.   *)
SandboxResults(program) ==
  IF ~ program.compiles THEN {NotCompiled}
  ELSE IF backend = "lcb_official" THEN OfficialResults(program)
  ELSE DockerResults(program)

-----------------------------------------------------------------------------
(* The public harness, and the selector. *)

(* The mutated form: with no tests, no test is failed. *)
HarnessPassedUnavailable(result) ==
  /\ result.compiled
  /\ result.passed = publicTests
  /\ result.runtime_errors = 0
  /\ result.timeouts = 0

HarnessPassed(result) ==
  /\ publicTests > 0
  /\ result.compiled
  /\ result.passed = publicTests
  /\ result.runtime_errors = 0
  /\ result.timeouts = 0

(* The mutated form: an unavailable harness gives no reason. *)
WorkerErrors(result) == IF result.stderr THEN {"stderr"} ELSE {}

Errors(result) ==
  IF result.stderr THEN {"stderr"}
  ELSE IF publicTests = 0 THEN {"No public tests available"} ELSE {}

(* pass_ratio is kept as the count of passed tests: a task has one total. *)
HarnessResult(result) ==
  [ passed          |-> HarnessPassed(result),
    pass_ratio      |-> result.passed,
    compile_success |-> result.compiled,
    runtime_errors  |-> result.runtime_errors,
    timeouts        |-> result.timeouts,
    duration        |-> result.duration,
    failed          |-> result.failed,
    errors          |-> Errors(result) ]

(* The mutated form: errors count before whether the code compiles at all. *)
RankErrorsFirst(result) ==
  << result.pass_ratio, - result.runtime_errors, - result.timeouts,
     IF result.compile_success THEN 1 ELSE 0, - result.duration >>

Rank(result) ==
  << result.pass_ratio, IF result.compile_success THEN 1 ELSE 0,
     - result.runtime_errors, - result.timeouts, - result.duration >>

(* Tuples are compared lexicographically. *)
Beats(a, b) ==
  \E i \in DOMAIN a : a[i] > b[i] /\ \A j \in 1 .. i - 1 : a[j] = b[j]

Selected ==
  IF Beats(Rank(repairedResult), Rank(initialResult)) THEN repaired ELSE initial

-----------------------------------------------------------------------------
(* The nodes of B1, each as soon as its inputs are there. *)

DirectCoder ==
  /\ initial = None
  /\ initial' \in Programs(publicTests)
  /\ UNCHANGED <<backend, publicTests, initialResult, repaired, repairedResult, final, grade>>

PublicHarnessInitial ==
  /\ initial # None
  /\ initialResult = None
  /\ \E result \in SandboxResults(initial) : initialResult' = HarnessResult(result)
  /\ UNCHANGED <<backend, publicTests, initial, repaired, repairedResult, final, grade>>

FreezeInitial ==
  /\ initialResult # None
  /\ initialResult.passed
  /\ final = None
  /\ final' = initial
  /\ UNCHANGED <<backend, publicTests, initial, initialResult, repaired, repairedResult, grade>>

(* same_coder_repair, and repair_to_code, which unwraps what it revised. *)
SameCoderRepair ==
  /\ initialResult # None
  /\ ~ initialResult.passed
  /\ repaired = None
  /\ repaired' \in Programs(publicTests)
  /\ UNCHANGED <<backend, publicTests, initial, initialResult, repairedResult, final, grade>>

PublicHarnessRepaired ==
  /\ repaired # None
  /\ repairedResult = None
  /\ \E result \in SandboxResults(repaired) : repairedResult' = HarnessResult(result)
  /\ UNCHANGED <<backend, publicTests, initial, initialResult, repaired, final, grade>>

(* selector, and freeze_selected. *)
FreezeSelected ==
  /\ repairedResult # None
  /\ final = None
  /\ final' = Selected
  /\ UNCHANGED <<backend, publicTests, initial, initialResult, repaired, repairedResult, grade>>

(* The mutated form: all results are passes, also when there are none. *)
FinalPassedVacuously(program, private, overhead) ==
  LET runs == program.runs \o private
  IN  program.compiles /\ ~ CutOff(runs, overhead) /\ Failing(runs) = {}

FinalPassed(program, private, overhead) ==
  LET runs == program.runs \o private
  IN  program.compiles /\ ~ CutOff(runs, overhead) /\ runs # << >> /\ Failing(runs) = {}

PrivateRuns == UNION {Runs(n) : n \in 0 .. MaxPrivateTests}

EvaluateFrozenRun ==
  /\ final # None
  /\ grade = None
  /\ \E private \in PrivateRuns, overhead \in 0 .. WorkerGraceSeconds :
       grade' = [passed |-> FinalPassed(final, private, overhead), private |-> private]
  /\ UNCHANGED <<backend, publicTests, initial, initialResult, repaired, repairedResult, final>>

Init ==
  /\ backend \in Backends
  /\ publicTests \in 0 .. MaxPublicTests
  /\ initial = None /\ initialResult = None
  /\ repaired = None /\ repairedResult = None
  /\ final = None
  /\ grade = None

Next ==
  \/ DirectCoder \/ PublicHarnessInitial \/ FreezeInitial
  \/ SameCoderRepair \/ PublicHarnessRepaired \/ FreezeSelected
  \/ EvaluateFrozenRun

Spec == Init /\ [][Next]_vars

-----------------------------------------------------------------------------

(* No worker is reported to have run for longer than its cap, and none of    *)
(* the containers, of which there is one more than there are tests, for      *)
(* longer than a test may.  (To the second: what killing one takes is less.) *)
LongestDuration ==
  IF backend = "lcb_official" THEN MaxWorkerWallSeconds ELSE PerTestSeconds * (publicTests + 1)

HarnessResults ==
  [ passed : BOOLEAN, pass_ratio : 0 .. publicTests, compile_success : BOOLEAN,
    runtime_errors : 0 .. Max({1, publicTests}), timeouts : 0 .. Max({1, publicTests}),
    duration : 0 .. LongestDuration,
    failed : 0 .. publicTests, errors : SUBSET {"stderr", "No public tests available"} ]

(* Values are of their kinds, and durations within their limits.             *)
TypeOK ==
  /\ backend \in Backends
  /\ publicTests \in 0 .. MaxPublicTests
  /\ {initial, repaired, final} \subseteq {None} \cup Programs(publicTests)
  /\ {initialResult, repairedResult} \subseteq {None} \cup HarnessResults
  /\ grade = None \/ grade \in [passed : BOOLEAN, private : PrivateRuns]

(* The worker has time for n tests that each take all that a test may take. *)
FitsWorker(n) == PerTestSeconds * n + WorkerGraceSeconds <= MaxWorkerWallSeconds

SolvesPublic(program) ==
  publicTests > 0 /\ program.compiles /\ Failing(program.runs) = {}

(* The backend's own compile step never fails code that compiles (given an   *)
(* image in which Python can write its cache).                               *)
CompileStepHolds ==
  backend = "lcb_official" \/ (backend = "docker" /\ ContainerSeconds <= PerTestSeconds)

(* The backend leaves a program the time it may take: the worker's cap for   *)
(* all tests, or a healthy daemon's start-up beside each that it passes.     *)
HasItsTime(program) ==
  \/ backend = "lcb_official" /\ FitsWorker(publicTests)
  \/ /\ backend = "docker" /\ CompileStepHolds
     /\ \A i \in (DOMAIN program.runs) \ Failing(program.runs) :
          ContainerSeconds + Seconds[program.runs[i]] <= PerTestSeconds

(* How many public tests a program passes, as far as the backend runs them:  *)
(* the checker stops at the first that is not passed, Docker goes on.        *)
Solved(program) ==
  LET failing == Failing(program.runs)
  IN  IF backend = "lcb_official" /\ failing # {} THEN Min(failing) - 1
      ELSE Len(program.runs) - Cardinality(failing)

Graded == {<<initial, initialResult>>, <<repaired, repairedResult>>} \ {<<initial, None>>, <<repaired, None>>}

(* A candidate passes the public harness exactly when it solves the public   *)
(* tests, of which there must be one, whatever the start of a worker or of a *)
(* container takes; only where the backend does not leave it the time for    *)
(* that, or Docker itself fails, may it be failed instead.                   *)
VerdictExact ==
  \A candidate \in Graded :
    /\ candidate[2].passed => SolvesPublic(candidate[1])
    /\ SolvesPublic(candidate[1]) /\ HasItsTime(candidate[1]) => candidate[2].passed

(* The repair node is never asked to repair code without being told what is  *)
(* wrong with it: a compile error, a time-out, a failed test or an error.    *)
RepairHasReason ==
  repaired # None =>
    \/ ~ initialResult.compile_success
    \/ initialResult.timeouts > 0
    \/ initialResult.failed > 0
    \/ initialResult.errors # {}

(* A worker that takes its whole grace to start still reports the program.   *)
NeverCutOff(program) == \A overhead \in 0 .. WorkerGraceSeconds : ~ CutOff(program.runs, overhead)

(* The backend certainly reports every test that counts as Solved.           *)
MeasuredInFull(program) ==
  \/ backend = "lcb_official" /\ NeverCutOff(program)
  \/ backend = "docker" /\ HasItsTime(program)

(* Neither repair nor selection makes things worse.  The frozen code is one  *)
(* of the candidates, and                                                    *)
(*   - it compiles if a candidate does, with the official checker or with a  *)
(*     healthy daemon that starts a container within a test's time;          *)
(*   - it solves the public tests if a candidate does to which the backend   *)
(*     leaves the time for that;                                             *)
(*   - it passes, as the backend counts them, at least as many public tests  *)
(*     as each candidate that is measured in full: whose worker cannot be    *)
(*     cut off or, with a healthy daemon, each of whose passing tests has    *)
(*     the time for a container's start.                                     *)
(* Of a candidate that was cut off, stopped in a container or met a failing  *)
(* daemon nothing is said: a worse one may be frozen in its place.           *)
FrozenCodeIsBest ==
  final # None =>
    LET candidates == {initial, repaired} \ {None}
    IN  /\ final \in candidates
        /\ CompileStepHolds /\ (\E program \in candidates : program.compiles) => final.compiles
        /\ (\E program \in candidates : SolvesPublic(program) /\ HasItsTime(program)) =>
             SolvesPublic(final)
        /\ \A program \in candidates :
             MeasuredInFull(program) => Solved(final) >= Solved(program)

(* The two graders agree: where the final evaluation passes code, the public *)
(* harness had passed it (if there were public tests, and its backend left   *)
(* the time for them), and there was at least one test.                      *)
GradeAgreesWithHarness ==
  grade # None /\ grade.passed =>
    /\ publicTests + Len(grade.private) > 0
    /\ publicTests > 0 /\ HasItsTime(final) =>
         \E candidate \in Graded : candidate[1] = final /\ candidate[2].passed

(* Code that passes every test, each as slowly as it may, is never failed by *)
(* a worker's wall timeout, unless the cap leaves no time for that.          *)
CorrectCodeIsNeverCutOff ==
  grade # None /\ final.compiles =>
    LET runs == final.runs \o grade.private
    IN  runs # << >> /\ Failing(runs) = {} /\ FitsWorker(Len(runs)) => grade.passed
=============================================================================
