----------------------------- MODULE Benchmark -----------------------------
(***************************************************************************)
(* The two commands of a benchmark over one run directory: cli/run.py,     *)
(* which runs the tasks of the manifest under a task semaphore, and        *)
(* cli/evaluate.py, which grades what they froze.  At most one process of  *)
(* each is at work, but an evaluation may overlap a run.  Each may be      *)
(* killed.                                                                 *)
(*                                                                         *)
(* A task is seen through its directory.  What NativeAsyncRuntime does to  *)
(* it is kept at the grain of the status of its checkpoint (TaskOutcomes). *)
(* A checkpoint made afresh starts a new generation of artifacts; resuming *)
(* keeps it.                                                               *)
(* graph_result.json, final_evaluation.json and predictions.json are       *)
(* written in place: a kill leaves them torn, and the other process may    *)
(* find the first two so.                                                  *)
(***************************************************************************)
EXTENDS TaskOutcomes, Integers, FiniteSets, Sequences

CONSTANTS
  Manifest,     \* the question ids, in manifest order
  MaxTasks,     \* limits.max_parallel_benchmark_tasks
  Selections,   \* the sets of ids that --task-id and --limit select
  KillPoints,   \* in which phases a process may be killed
  ForceDuringEvaluation, \* whether a forced rerun may overlap an evaluation
  MaxCommands   \* bound of the model: how many commands are given

Tasks == {Manifest[i] : i \in DOMAIN Manifest}

ASSUME ManifestAssumption ==
  Manifest \in Seq(Tasks) /\ \A i, j \in DOMAIN Manifest : Manifest[i] = Manifest[j] => i = j
ASSUME MaxTasksAssumption == MaxTasks \in Nat \ {0}
ASSUME SelectionsAssumption == Selections \subseteq SUBSET Tasks
ASSUME ForceAssumption == ForceDuringEvaluation \in BOOLEAN
ASSUME MaxCommandsAssumption == MaxCommands \in Nat

VARIABLES
  command,      \* of cli/run.py: none, clearing or running
  commands,     \* how many commands have been given, to either
  progress,     \* task -> idle, queued, executing, writing or ended
  clearing,     \* what --force-rerun has still to remove: <<task, file>>
  grader,       \* of cli/evaluate.py: none, reading, checking, grading, writing or exporting
  answers,      \* the generations it has read so far, in manifest order
  disk,         \* task -> its directory
  predictions   \* the export: its status, and the generation it holds of each task

runner    == <<command, progress, clearing>>
evaluator == <<grader, answers>>
vars == <<command, commands, progress, clearing, grader, answers, disk, predictions>>

File(status, g) == [status |-> status, gen |-> g]

Missing == File("missing", 0)

EmptyDirectory ==
  [ checkpoint |-> Missing, artifacts |-> {}, graph_result |-> Missing,
    task_failure |-> Missing, evaluation |-> Missing ]

FileNames == DOMAIN EmptyDirectory

NoExport == [status |-> "missing", answers |-> << >>]

Write(q, name, content) == disk' = [disk EXCEPT ![q][name] = content]

-----------------------------------------------------------------------------
(* cli/run.py *)

GiveCommand ==
  /\ commands < MaxCommands
  /\ commands' = commands + 1
  /\ UNCHANGED <<disk, predictions>>

Queue(ids) == [q \in Tasks |-> IF q \in ids THEN "queued" ELSE "idle"]

Run ==
  /\ command = "none"
  /\ GiveCommand
  /\ command' = "running"
  /\ \E ids \in Selections : progress' = Queue(ids)
  /\ UNCHANGED <<clearing, evaluator>>

Present(ids) == {f \in ids \X FileNames : disk[f[1]][f[2]] # EmptyDirectory[f[2]]}

GiveForceRerun ==
  /\ command = "none"
  /\ grader = "none" \/ ForceDuringEvaluation
  /\ GiveCommand
  /\ command' = "clearing"
  /\ UNCHANGED evaluator

(* The mutated form: a forced rerun keeps the grade. *)
ForceRerunKeepingGrade ==
  /\ GiveForceRerun
  /\ \E ids \in Selections :
       /\ progress' = Queue(ids)
       /\ clearing' = Present(ids) \ (Tasks \X {"evaluation"})

(* --force-rerun: shutil.rmtree removes each selected directory file by file. *)
ForceRerun ==
  /\ GiveForceRerun
  /\ \E ids \in Selections :
       /\ progress' = Queue(ids)
       /\ clearing' = Present(ids)

RemoveFile ==
  /\ command = "clearing"
  /\ \E q \in Tasks, name \in FileNames :
       /\ <<q, name>> \in clearing
       /\ Write(q, name, EmptyDirectory[name])
       /\ clearing' = clearing \ {<<q, name>>}
  /\ UNCHANGED <<command, commands, progress, evaluator, predictions>>

Cleared ==
  /\ command = "clearing"
  /\ clearing = {}
  /\ command' = "running"
  /\ UNCHANGED <<commands, progress, clearing, evaluator, disk, predictions>>

-----------------------------------------------------------------------------
(* run_one: one task of the TaskGroup. *)

Executing == {q \in Tasks : progress[q] \in {"executing", "writing"}}

(* The mutated form: a task that failed never gives its slot back. *)
SlotHoldersWithFailed ==
  Executing \cup {q \in Tasks : progress[q] = "ended" /\ disk[q].checkpoint.status = "dead"}

SlotHolders == Executing

Becomes(q, state) ==
  /\ progress' = [progress EXCEPT ![q] = state]
  /\ UNCHANGED <<command, commands, clearing, evaluator, predictions>>

TaskStarts(q) ==
  /\ command = "running"
  /\ progress[q] = "queued"
  /\ Cardinality(SlotHolders) < MaxTasks
  /\ Becomes(q, "executing")
  /\ UNCHANGED disk

(* A resume reads back every artifact the checkpoint refers to. *)
Readable(q) ==
  disk[q].checkpoint # Missing => disk[q].checkpoint.gen \in disk[q].artifacts

CommitWave(q) ==
  /\ progress[q] = "executing"
  /\ Readable(q)
  /\ LET fresh == disk[q].checkpoint = Missing
         gen   == IF fresh THEN commands ELSE disk[q].checkpoint.gen
     IN  \E status \in AfterWave(disk[q].checkpoint.status) :
           /\ fresh \/ status # "partial"
           /\ disk' = [disk EXCEPT ![q].checkpoint = File(status, gen),
                                   ![q].artifacts  = @ \cup {gen}]
  /\ Becomes(q, "executing")

(* write_text truncates graph_result.json before it fills it. *)
TaskCompletes(q) ==
  /\ progress[q] = "executing"
  /\ Readable(q)
  /\ disk[q].checkpoint.status \in StatusWhen.returned
  /\ Write(q, "graph_result", File("torn", disk[q].checkpoint.gen))
  /\ Becomes(q, "writing")

ResultWritten(q) ==
  /\ progress[q] = "writing"
  /\ Write(q, "graph_result", File("valid", disk[q].checkpoint.gen))
  /\ Becomes(q, "ended")

(* The mutated form: a deadlocked graph returns its state as a result. *)
TaskFailsWithResult(q) ==
  /\ progress[q] = "executing"
  /\ Readable(q)
  /\ disk[q].checkpoint.status \in StatusWhen.deadlocked
  /\ disk' = [disk EXCEPT ![q].graph_result = File("valid", disk[q].checkpoint.gen),
                          ![q].task_failure = File("valid", disk[q].checkpoint.gen)]
  /\ Becomes(q, "ended")

(* No command reads task_failure.json, so it is written in one step. *)
TaskFails(q) ==
  /\ progress[q] = "executing"
  /\ Readable(q)
  /\ disk[q].checkpoint.status \in StatusWhen.deadlocked
  /\ Write(q, "task_failure", File("valid", disk[q].checkpoint.gen))
  /\ Becomes(q, "ended")

(* The mutated form: the state of the ended command lingers. *)
StopRunKeepingProgress ==
  /\ command' = "none"
  /\ progress' = progress
  /\ clearing' = {}
  /\ UNCHANGED <<commands, evaluator, disk, predictions>>

StopRun ==
  /\ command' = "none"
  /\ progress' = [q \in Tasks |-> "idle"]
  /\ clearing' = {}
  /\ UNCHANGED <<commands, evaluator, disk, predictions>>

(* Anything but GraphDeadlockError leaves the TaskGroup, which cancels the   *)
(* other tasks: an artifact that is missing, or a node that raises.          *)
TaskRaises(q) ==
  /\ progress[q] = "executing"
  /\ ~ Readable(q) \/ disk[q].checkpoint.status \in StatusWhen.aborted
  /\ StopRun

RunCompletes ==
  /\ command = "running"
  /\ \A q \in Tasks : progress[q] \in {"idle", "ended"}
  /\ StopRun

-----------------------------------------------------------------------------
(* cli/evaluate.py: the tasks of the whole manifest, one after the other. *)

(* run_manifest.json is there once a run has cleared what it had to. *)
Evaluate ==
  /\ commands > 0
  /\ command = "clearing" => ForceDuringEvaluation
  /\ grader = "none"
  /\ GiveCommand
  /\ grader' = "reading"
  /\ UNCHANGED <<runner, answers>>

StopEvaluation == grader' = "none" /\ answers' = << >>

At(phase) == grader = phase

(* The task whose answer has been read last. *)
Current == Manifest[Len(answers)]

LastRead == answers[Len(answers)]

(* The final code can be read: the result parses, and its artifact is there. *)
HasAnswer(q) ==
  disk[q].graph_result.status = "valid" /\ disk[q].graph_result.gen \in disk[q].artifacts

Grader(phase) ==
  /\ grader' = phase
  /\ UNCHANGED <<runner, commands, predictions>>

ReadAnswer ==
  /\ At("reading")
  /\ Len(answers) < Len(Manifest)
  /\ LET q == Manifest[Len(answers) + 1]
     IN  HasAnswer(q) /\ answers' = Append(answers, disk[q].graph_result.gen)
  /\ Grader("checking")
  /\ UNCHANGED disk

SkipEvaluated ==
  /\ At("checking")
  /\ disk[Current].evaluation.status = "valid"
  /\ Grader("reading")
  /\ UNCHANGED <<answers, disk>>

(* The mutated form: an existing grade is not looked for. *)
GradeAgain ==
  /\ At("checking")
  /\ Grader("grading")
  /\ UNCHANGED <<answers, disk>>

(* PRIVATE_EVALUATION_STARTED; the worker runs the private tests. *)
Grade ==
  /\ At("checking")
  /\ disk[Current].evaluation = Missing
  /\ Grader("grading")
  /\ UNCHANGED <<answers, disk>>

(* The answer was read before the worker ran, and is not looked at again. *)
WriteGrade ==
  /\ At("grading")
  /\ disk[Current] # EmptyDirectory
  /\ Write(Current, "evaluation", File("torn", LastRead))
  /\ Grader("writing")
  /\ UNCHANGED answers

GradeWritten ==
  /\ At("writing")
  /\ Write(Current, "evaluation", File("valid", LastRead))
  /\ Grader("reading")
  /\ UNCHANGED answers

CannotGrade ==
  \/ At("reading") /\ Len(answers) < Len(Manifest) /\ ~ HasAnswer(Manifest[Len(answers) + 1])
  \/ At("checking") /\ disk[Current].evaluation.status = "torn"
  \/ At("grading")

(* The mutated form: a task that cannot be graded is passed over. *)
EvaluatePastFailures ==
  /\ CannotGrade
  /\ Grader("reading")
  /\ answers' = IF At("reading") THEN Append(answers, 0) ELSE answers
  /\ UNCHANGED disk

(* A result or artifact that is missing, a file that does not parse, a       *)
(* worker that cannot be run or a directory that is gone ends the command.   *)
EvaluateRaises ==
  /\ CannotGrade
  /\ StopEvaluation
  /\ UNCHANGED <<runner, commands, disk, predictions>>

(* export_predictions: write_text truncates the file before it fills it.     *)
ExportPredictions ==
  /\ At("reading")
  /\ Len(answers) = Len(Manifest)
  /\ predictions' = [status |-> "torn", answers |-> << >>]
  /\ grader' = "exporting"
  /\ UNCHANGED <<runner, commands, answers, disk>>

PredictionsWritten ==
  /\ At("exporting")
  /\ predictions' =
       [ status  |-> "valid",
         answers |-> [q \in Tasks |-> answers[CHOOSE i \in DOMAIN Manifest : Manifest[i] = q]] ]
  /\ StopEvaluation
  /\ UNCHANGED <<runner, commands, disk>>

-----------------------------------------------------------------------------
(* A process is killed; what it was writing stays torn. *)

KillRun == command \in KillPoints /\ StopRun

KillEvaluation ==
  /\ grader # "none"
  /\ "evaluating" \in KillPoints
  /\ StopEvaluation
  /\ UNCHANGED <<runner, commands, disk, predictions>>

-----------------------------------------------------------------------------

Init ==
  /\ command = "none"
  /\ commands = 0
  /\ progress = [q \in Tasks |-> "idle"]
  /\ clearing = {}
  /\ grader = "none"
  /\ answers = << >>
  /\ disk = [q \in Tasks |-> EmptyDirectory]
  /\ predictions = NoExport

TaskSteps(q) ==
  CommitWave(q) \/ TaskCompletes(q) \/ ResultWritten(q) \/ TaskFails(q) \/ TaskRaises(q)

RunSteps == RemoveFile \/ Cleared \/ RunCompletes

EvaluateSteps ==
  \/ ReadAnswer \/ SkipEvaluated \/ Grade \/ WriteGrade \/ GradeWritten
  \/ EvaluateRaises \/ ExportPredictions \/ PredictionsWritten

Next ==
  \/ Run \/ ForceRerun \/ Evaluate
  \/ RunSteps
  \/ \E q \in Tasks : TaskStarts(q) \/ TaskSteps(q)
  \/ EvaluateSteps
  \/ KillRun \/ KillEvaluation

Spec == Init /\ [][Next]_vars

(* A command runs on until it ends: every await in it is under a timeout.    *)
(* Nobody has to give a command or kill one.                                 *)
FairSpec ==
  /\ Spec
  /\ WF_vars(RunSteps)
  /\ WF_vars(EvaluateSteps)
  /\ \A q \in Tasks : WF_vars(TaskStarts(q)) /\ WF_vars(TaskSteps(q))

-----------------------------------------------------------------------------

FileStates(statuses) == [status : statuses, gen : 0 .. MaxCommands]

TypeOK ==
  /\ command \in {"none", "clearing", "running"}
  /\ commands \in 0 .. MaxCommands
  /\ progress \in [Tasks -> {"idle", "queued", "executing", "writing", "ended"}]
  /\ command = "none" => \A q \in Tasks : progress[q] = "idle"
  /\ clearing \subseteq Tasks \X FileNames
  /\ grader \in {"none", "reading", "checking", "grading", "writing", "exporting"}
  /\ answers \in Seq(1 .. MaxCommands) /\ Len(answers) <= Len(Manifest)
  /\ disk \in [Tasks ->
       [ checkpoint   : FileStates(CheckpointStatuses),
         artifacts    : SUBSET (0 .. MaxCommands),
         graph_result : FileStates({"missing", "torn", "valid"}),
         task_failure : FileStates({"missing", "valid"}),
         evaluation   : FileStates({"missing", "torn", "valid"}) ]]
  /\ predictions \in [status : {"missing", "torn"}, answers : {<< >>}]
                  \cup [status : {"valid"}, answers : [Tasks -> 1 .. MaxCommands]]

(* A grade is the grade of the answer beside it: no rerun, forced or not,    *)
(* before the evaluation or during it, leaves the grade of an older answer   *)
(* to be counted for a newer one.                                            *)
EvaluationMatchesAnswer ==
  \A q \in Tasks :
    disk[q].evaluation.status = "valid" /\ disk[q].graph_result.status = "valid" =>
      disk[q].evaluation.gen = disk[q].graph_result.gen

(* Private tests are run only on what a frozen checkpoint holds, also while  *)
(* the run is still at work on other tasks (except between the moment a      *)
(* directory starts to be cleared and the end of that).                      *)
PrivateOnlyAfterFreeze ==
  command # "clearing" =>
    \A q \in Tasks :
      disk[q].evaluation # Missing \/ (At("grading") /\ q = Current) =>
        /\ disk[q].checkpoint.status = "frozen"
        /\ disk[q].evaluation # Missing =>
             disk[q].checkpoint.gen = disk[q].evaluation.gen

(* A valid grade is never computed a second time, whatever is rerun, unless  *)
(* --force-rerun removes it.                                                 *)
NoReevaluation ==
  [][\A q \in Tasks :
       disk[q].evaluation.status = "valid" /\ command # "clearing" =>
         disk'[q].evaluation = disk[q].evaluation]_vars

(* Every command comes to an end: no order in which tasks finish, fail or    *)
(* raise leaves one of them waiting for a slot of the semaphore.             *)
CommandsEnd ==
  /\ (command # "none") ~> (command = "none")
  /\ (grader # "none") ~> (grader = "none")

(* predictions.json is touched only when every task has its valid grade, and *)
(* once it is whole it holds of each task the answer that was graded,        *)
(* whatever was killed, failed or rerun before, and whatever the run did     *)
(* while the answers were read.  (A kill during the export leaves the file   *)
(* torn: it is never whole with a part of the tasks, or with other answers.) *)
ExportedAsGraded ==
  [][predictions' # predictions =>
       \A q \in Tasks :
         /\ disk[q].evaluation.status = "valid"
         /\ predictions'.status = "valid" =>
              predictions'.answers[q] = disk[q].evaluation.gen]_vars
=============================================================================
