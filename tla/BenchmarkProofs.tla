-------------------------- MODULE BenchmarkProofs --------------------------
(***************************************************************************)
(* The run directory between cli/run.py and cli/evaluate.py, for any       *)
(* manifest, selections and number of commands.  The kinds of the          *)
(* variables need no hypothesis.  That a grade belongs to the answer       *)
(* beside it needs two, as the code does: nobody kills a forced rerun      *)
(* while it clears, and none is given while an evaluation is at work.      *)
(***************************************************************************)
EXTENDS Benchmark, TLAPS

(* A file that is there is of a generation. *)
Sound(file) == IF file.status = "missing" THEN file = Missing ELSE file.gen > 0

(* What the kinds rest on: a file that is there is of a generation, a result *)
(* is being written only of a frozen checkpoint, who grades has read an      *)
(* answer, and who exports has read them all.                                *)
KindsInv ==
  /\ command # "none" => commands > 0
  /\ command = "clearing" => \A q \in Tasks : progress[q] \in {"idle", "queued"}
  /\ \A q \in Tasks : progress[q] = "writing" => disk[q].checkpoint.status = "frozen"
  /\ \A q \in Tasks : \A name \in FileNames \ {"artifacts"} : Sound(disk[q][name])
  /\ grader \in {"checking", "grading", "writing"} => Len(answers) > 0
  /\ grader = "none" => answers = << >>
  /\ grader = "exporting" => Len(answers) = Len(Manifest)

TypeInv == TypeOK /\ KindsInv

(* A directory that is not being cleared: everything in it is of the         *)
(* generation of its checkpoint, results and grades only of a frozen one.    *)
Whole(q) ==
  LET dir == disk[q]
  IN  /\ dir.checkpoint = Missing => dir = EmptyDirectory
      /\ dir.checkpoint # Missing => dir.artifacts = {dir.checkpoint.gen}
      /\ \A file \in {dir.graph_result, dir.evaluation} :
           file # Missing => dir.checkpoint.status = "frozen" /\ file.gen = dir.checkpoint.gen

(* A directory that is being cleared: what is still there is to be removed.  *)
Cleaning(q) ==
  /\ \A name \in FileNames : disk[q][name] # EmptyDirectory[name] => <<q, name>> \in clearing
  /\ disk[q].evaluation # Missing /\ disk[q].graph_result # Missing =>
       disk[q].evaluation.gen = disk[q].graph_result.gen

DirectoriesInv ==
  /\ \A q \in Tasks :
       IF command = "clearing" /\ progress[q] = "queued" THEN Cleaning(q) ELSE Whole(q)
  /\ \A q \in Tasks : \A name \in FileNames : <<q, name>> \in clearing =>
       command = "clearing" /\ progress[q] = "queued"

(* What the evaluation has read so far is the answer that is there, and all  *)
(* but the last one has its grade.                                           *)
GradesInv ==
  /\ grader # "none" => command # "clearing"
  /\ \A i \in DOMAIN answers :
       LET dir == disk[Manifest[i]]
       IN  /\ dir.checkpoint.status = "frozen" /\ dir.checkpoint.gen = answers[i]
           /\ i < Len(answers) \/ grader \in {"reading", "exporting"} =>
                dir.evaluation.status = "valid" /\ dir.evaluation.gen = answers[i]
  /\ grader = "grading" => disk[Current].evaluation = Missing
  /\ grader = "writing" => disk[Current].evaluation = File("torn", LastRead)

BenchmarkInv == TypeInv /\ DirectoriesInv /\ GradesInv

-----------------------------------------------------------------------------
(* Directories and their files. *)

Directory ==
  [ checkpoint   : FileStates(CheckpointStatuses),
    artifacts    : SUBSET (0 .. MaxCommands),
    graph_result : FileStates({"missing", "torn", "valid"}),
    task_failure : FileStates({"missing", "valid"}),
    evaluation   : FileStates({"missing", "torn", "valid"}) ]

(* What may be in the file of that name. *)
Fits(name, content) ==
  /\ name = "checkpoint"   => content \in FileStates(CheckpointStatuses)
  /\ name = "artifacts"    => content \in SUBSET (0 .. MaxCommands)
  /\ name = "graph_result" => content \in FileStates({"missing", "torn", "valid"})
  /\ name = "task_failure" => content \in FileStates({"missing", "valid"})
  /\ name = "evaluation"   => content \in FileStates({"missing", "torn", "valid"})

LEMMA Names ==
  FileNames = {"checkpoint", "artifacts", "graph_result", "task_failure", "evaluation"}
BY DEF FileNames, EmptyDirectory

LEMMA EmptyFits ==
  /\ EmptyDirectory \in Directory
  /\ \A name \in FileNames : Fits(name, EmptyDirectory[name])
  /\ \A name \in FileNames \ {"artifacts"} : EmptyDirectory[name] = Missing
  /\ EmptyDirectory.artifacts = {}
<1>1. \A S : "missing" \in S => Missing \in FileStates(S)
  BY MaxCommandsAssumption DEF Missing, File, FileStates
<1> QED BY <1>1, Names DEF EmptyDirectory, Directory, Fits, CheckpointStatuses

(* A write changes one file of one directory. *)
LEMMA FileWritten ==
  ASSUME disk \in [Tasks -> Directory], NEW q \in Tasks, NEW name \in FileNames, NEW content,
         Fits(name, content), Write(q, name, content)
  PROVE  /\ disk' \in [Tasks -> Directory]
         /\ disk'[q][name] = content
         /\ \A m \in FileNames \ {name} : disk'[q][m] = disk[q][m]
         /\ \A p \in Tasks \ {q} : disk'[p] = disk[p]
<1>1. disk[q] \in Directory
  OBVIOUS
<1>2. disk' = [disk EXCEPT ![q] = [disk[q] EXCEPT ![name] = content]]
  BY DEF Write
<1>3. DOMAIN disk[q] = FileNames
  BY <1>1, Names DEF Directory
<1>4. [disk[q] EXCEPT ![name] = content] \in Directory
  <2>1. CASE name = "checkpoint"
    BY <1>1, <2>1 DEF Directory, Fits
  <2>2. CASE name = "artifacts"
    BY <1>1, <2>2 DEF Directory, Fits
  <2>3. CASE name = "graph_result"
    BY <1>1, <2>3 DEF Directory, Fits
  <2>4. CASE name = "task_failure"
    BY <1>1, <2>4 DEF Directory, Fits
  <2>5. CASE name = "evaluation"
    BY <1>1, <2>5 DEF Directory, Fits
  <2> QED BY <2>1, <2>2, <2>3, <2>4, <2>5, Names
<1>5. disk'[q] = [disk[q] EXCEPT ![name] = content]
  BY <1>2
<1> QED BY <1>2, <1>3, <1>4, <1>5

(* The file of a generation, and the fields of a file of its kind. *)
LEMMA Files ==
  /\ \A s, g : File(s, g).status = s /\ File(s, g).gen = g
  /\ \A S, s : \A g \in 0 .. MaxCommands : s \in S => File(s, g) \in FileStates(S)
  /\ \A S : \A f \in FileStates(S) : f = File(f.status, f.gen) /\ f.status \in S
                                     /\ f.gen \in 0 .. MaxCommands
  /\ Missing = File("missing", 0) /\ Missing.status = "missing" /\ Missing.gen = 0
BY DEF File, FileStates, Missing

-----------------------------------------------------------------------------
(* The kinds of the variables. *)

(* What may be in predictions.json. *)
Exports ==
  [status : {"missing", "torn"}, answers : {<< >>}]
    \cup [status : {"valid"}, answers : [Tasks -> 1 .. MaxCommands]]

(* The kinds of everything but the directories. *)
CoreOK ==
  /\ command \in {"none", "clearing", "running"}
  /\ commands \in 0 .. MaxCommands
  /\ progress \in [Tasks -> {"idle", "queued", "executing", "writing", "ended"}]
  /\ command = "none" => \A q \in Tasks : progress[q] = "idle"
  /\ clearing \subseteq Tasks \X FileNames
  /\ grader \in {"none", "reading", "checking", "grading", "writing", "exporting"}
  /\ answers \in Seq(1 .. MaxCommands) /\ Len(answers) <= Len(Manifest)
  /\ predictions \in Exports

DiskInv ==
  /\ disk \in [Tasks -> Directory]
  /\ \A q \in Tasks : \A name \in FileNames \ {"artifacts"} : Sound(disk[q][name])

PhasesInv ==
  /\ command # "none" => commands > 0
  /\ command = "clearing" => \A q \in Tasks : progress[q] \in {"idle", "queued"}
  /\ \A q \in Tasks : progress[q] = "writing" => disk[q].checkpoint.status = "frozen"
  /\ grader \in {"checking", "grading", "writing"} => Len(answers) > 0
  /\ grader = "none" => answers = << >>
  /\ grader = "exporting" => Len(answers) = Len(Manifest)

LEMMA TypeInvParts == TypeInv <=> CoreOK /\ DiskInv /\ PhasesInv
BY DEF TypeInv, TypeOK, KindsInv, CoreOK, DiskInv, PhasesInv, Directory, Exports

(* A sound file of its kind keeps the directories sound. *)
LEMMA WriteSound ==
  ASSUME DiskInv, NEW q \in Tasks, NEW name \in FileNames, NEW content,
         Fits(name, content), name # "artifacts" => Sound(content), Write(q, name, content)
  PROVE  DiskInv'
<1>1. /\ disk' \in [Tasks -> Directory] /\ disk'[q][name] = content
      /\ \A m \in FileNames \ {name} : disk'[q][m] = disk[q][m]
      /\ \A p \in Tasks \ {q} : disk'[p] = disk[p]
  BY FileWritten DEF DiskInv
<1>2. ASSUME NEW p \in Tasks, NEW m \in FileNames \ {"artifacts"} PROVE Sound(disk'[p][m])
  BY <1>1 DEF DiskInv
<1> QED BY <1>1, <1>2 DEF DiskInv

(* The fields of a directory. *)
LEMMA Fields ==
  ASSUME DiskInv, NEW q \in Tasks
  PROVE  /\ disk[q].checkpoint.status \in {"missing", "partial", "dead", "frozen"}
         /\ disk[q].graph_result.status \in {"missing", "torn", "valid"}
         /\ disk[q].evaluation.status \in {"missing", "torn", "valid"}
         /\ disk[q].artifacts \subseteq 0 .. MaxCommands
         /\ \A file \in {disk[q].checkpoint, disk[q].graph_result, disk[q].evaluation} :
              /\ file = File(file.status, file.gen)
              /\ file.gen \in 0 .. MaxCommands
              /\ file = Missing \/ (file.status # "missing" /\ file.gen > 0)
              /\ file = Missing <=> file.status = "missing"
<1>1. disk[q] \in Directory
  BY DEF DiskInv
<1>2. /\ disk[q].checkpoint \in FileStates(CheckpointStatuses)
      /\ disk[q].graph_result \in FileStates({"missing", "torn", "valid"})
      /\ disk[q].evaluation \in FileStates({"missing", "torn", "valid"})
      /\ disk[q].artifacts \subseteq 0 .. MaxCommands
  BY <1>1 DEF Directory
<1>3. Sound(disk[q]["checkpoint"]) /\ Sound(disk[q]["graph_result"]) /\ Sound(disk[q]["evaluation"])
  BY Names DEF DiskInv
<1>4. /\ disk[q].checkpoint = File(disk[q].checkpoint.status, disk[q].checkpoint.gen)
      /\ disk[q].graph_result = File(disk[q].graph_result.status, disk[q].graph_result.gen)
      /\ disk[q].evaluation = File(disk[q].evaluation.status, disk[q].evaluation.gen)
  BY <1>2, Files
<1>5. /\ disk[q].checkpoint.gen \in 0 .. MaxCommands
      /\ disk[q].graph_result.gen \in 0 .. MaxCommands
      /\ disk[q].evaluation.gen \in 0 .. MaxCommands
  BY <1>2, Files
<1>6. /\ disk[q].checkpoint.status \in {"missing", "partial", "dead", "frozen"}
      /\ disk[q].graph_result.status \in {"missing", "torn", "valid"}
      /\ disk[q].evaluation.status \in {"missing", "torn", "valid"}
  BY <1>2, Files DEF CheckpointStatuses
<1> QED BY <1>2, <1>3, <1>4, <1>5, <1>6, Files DEF Sound

LEMMA CommandsTyped ==
  ASSUME CoreOK, GiveCommand
  PROVE  commands' \in 0 .. MaxCommands /\ commands' > 0 /\ disk' = disk /\ predictions' = predictions
BY MaxCommandsAssumption DEF CoreOK, GiveCommand

LEMMA TypeInit == Init => TypeInv
<1> SUFFICES ASSUME Init PROVE CoreOK /\ DiskInv /\ PhasesInv
  BY TypeInvParts
<1>1. CoreOK
  BY MaxCommandsAssumption, ManifestAssumption DEF Init, CoreOK, Exports, NoExport
<1>2. DiskInv
  <2>1. \A q \in Tasks : disk[q] = EmptyDirectory
    BY DEF Init
  <2>2. Sound(Missing)
    BY Files DEF Sound
  <2> QED BY <2>1, <2>2, EmptyFits DEF Init, DiskInv
<1>3. PhasesInv
  BY DEF Init, PhasesInv
<1> QED BY <1>1, <1>2, <1>3

(* The commands, and the steps of cli/run.py that write no file. *)
LEMMA RunTypes ==
  ASSUME TypeInv, Run \/ ForceRerun \/ Evaluate \/ Cleared \/ RunCompletes \/ KillRun
                  \/ \E q \in Tasks : TaskStarts(q) \/ TaskRaises(q)
  PROVE  TypeInv'
<1>1. CoreOK /\ DiskInv /\ PhasesInv
  BY TypeInvParts
<1>2. SUFFICES CoreOK' /\ DiskInv' /\ PhasesInv'
  BY DEF TypeInv, TypeOK, KindsInv, CoreOK, DiskInv, PhasesInv, Directory, Exports
<1>3. ASSUME disk' = disk PROVE DiskInv'
  BY <1>1, <1>3 DEF DiskInv
<1>4. \A ids \in Selections : ids \subseteq Tasks
  BY SelectionsAssumption
<1>5. CASE Run
  <2>1. /\ commands' \in 0 .. MaxCommands /\ commands' > 0 /\ disk' = disk
        /\ predictions' = predictions
    BY <1>1, <1>5, CommandsTyped DEF Run
  <2>2. PICK ids \in Selections : progress' = Queue(ids)
    BY <1>5 DEF Run
  <2>3. progress' \in [Tasks -> {"idle", "queued"}]
    BY <2>2 DEF Queue
  <2>4. command' = "running" /\ UNCHANGED <<clearing, evaluator>>
    BY <1>5 DEF Run
  <2>5. CoreOK' /\ PhasesInv'
    BY <1>1, <2>1, <2>3, <2>4 DEF CoreOK, PhasesInv, evaluator
  <2> QED BY <1>3, <2>1, <2>5
<1>6. CASE ForceRerun
  <2>1. /\ commands' \in 0 .. MaxCommands /\ commands' > 0 /\ disk' = disk
        /\ predictions' = predictions
    BY <1>1, <1>6, CommandsTyped DEF ForceRerun, GiveForceRerun
  <2>2. PICK ids \in Selections : progress' = Queue(ids) /\ clearing' = Present(ids)
    BY <1>6 DEF ForceRerun
  <2>3. progress' \in [Tasks -> {"idle", "queued"}] /\ clearing' \subseteq Tasks \X FileNames
    BY <1>4, <2>2 DEF Queue, Present
  <2>4. command' = "clearing" /\ UNCHANGED evaluator
    BY <1>6 DEF ForceRerun, GiveForceRerun
  <2>5. CoreOK' /\ PhasesInv'
    BY <1>1, <2>1, <2>3, <2>4 DEF CoreOK, PhasesInv, evaluator
  <2> QED BY <1>3, <2>1, <2>5
<1>7. CASE Evaluate
  <2>1. /\ commands' \in 0 .. MaxCommands /\ commands' > 0 /\ disk' = disk
        /\ predictions' = predictions
    BY <1>1, <1>7, CommandsTyped DEF Evaluate
  <2>2. CoreOK' /\ PhasesInv'
    BY <1>1, <1>7, <2>1 DEF Evaluate, CoreOK, PhasesInv, runner
  <2> QED BY <1>3, <2>1, <2>2
<1>8. CASE Cleared
  <2>1. disk' = disk /\ CoreOK' /\ PhasesInv'
    BY <1>1, <1>8 DEF Cleared, CoreOK, PhasesInv, evaluator
  <2> QED BY <1>3, <2>1
<1>9. CASE StopRun
  <2>1. disk' = disk /\ CoreOK' /\ PhasesInv'
    BY <1>1, <1>9 DEF StopRun, CoreOK, PhasesInv, evaluator
  <2> QED BY <1>3, <2>1
<1>10. ASSUME NEW q \in Tasks, TaskStarts(q) PROVE CoreOK' /\ DiskInv' /\ PhasesInv'
  <2>1. /\ progress' = [progress EXCEPT ![q] = "executing"] /\ command = "running"
        /\ UNCHANGED <<command, commands, clearing, evaluator, predictions, disk>>
    BY <1>10 DEF TaskStarts, Becomes
  <2>2. CoreOK' /\ PhasesInv'
    BY <1>1, <2>1 DEF CoreOK, PhasesInv, evaluator
  <2> QED BY <1>3, <2>1, <2>2
<1> QED BY <1>5, <1>6, <1>7, <1>8, <1>9, <1>10 DEF RunCompletes, KillRun, TaskRaises

LEMMA RemoveFileTypes ==
  ASSUME TypeInv, RemoveFile
  PROVE  TypeInv'
<1>1. CoreOK /\ DiskInv /\ PhasesInv
  BY TypeInvParts
<1>2. SUFFICES CoreOK' /\ DiskInv' /\ PhasesInv'
  BY DEF TypeInv, TypeOK, KindsInv, CoreOK, DiskInv, PhasesInv, Directory, Exports
<1>3. PICK q \in Tasks, name \in FileNames : /\ Write(q, name, EmptyDirectory[name])
                                             /\ clearing' = clearing \ {<<q, name>>}
  BY DEF RemoveFile
<1>4. UNCHANGED <<command, commands, progress, evaluator, predictions>> /\ command = "clearing"
  BY DEF RemoveFile
<1>5. DiskInv'
  BY <1>1, <1>3, WriteSound, EmptyFits, Files DEF Sound
<1>6. CoreOK' /\ PhasesInv'
  BY <1>1, <1>3, <1>4 DEF CoreOK, PhasesInv, evaluator
<1> QED BY <1>5, <1>6

(* The steps of a task that write a file. *)
LEMMA TaskTypes ==
  ASSUME TypeInv, NEW q \in Tasks,
         CommitWave(q) \/ TaskCompletes(q) \/ ResultWritten(q) \/ TaskFails(q)
  PROVE  TypeInv'
<1>1. CoreOK /\ DiskInv /\ PhasesInv
  BY TypeInvParts
<1>2. SUFFICES CoreOK' /\ DiskInv' /\ PhasesInv'
  BY DEF TypeInv, TypeOK, KindsInv, CoreOK, DiskInv, PhasesInv, Directory, Exports
<1>3. PICK state \in {"executing", "writing", "ended"} : Becomes(q, state)
  BY DEF CommitWave, TaskCompletes, ResultWritten, TaskFails
<1>4. /\ progress' = [progress EXCEPT ![q] = state]
      /\ UNCHANGED <<command, commands, clearing, evaluator, predictions>>
  BY <1>3 DEF Becomes
<1>5. progress[q] \in {"executing", "writing"}
  BY DEF CommitWave, TaskCompletes, ResultWritten, TaskFails
<1>6. command = "running" /\ commands \in 1 .. MaxCommands
  BY <1>1, <1>5 DEF CoreOK, PhasesInv
<1>7. CoreOK'
  BY <1>1, <1>4, <1>6 DEF CoreOK, evaluator
<1>8. /\ disk[q].checkpoint.status \in {"missing", "partial", "dead", "frozen"}
      /\ disk[q].checkpoint.status # "missing" => disk[q].checkpoint.gen \in 1 .. MaxCommands
  BY <1>1, Fields
<1>9. CASE CommitWave(q)
  <2> DEFINE gen == IF disk[q].checkpoint = Missing THEN commands ELSE disk[q].checkpoint.gen
  <2>1. PICK status \in {"partial", "dead", "frozen"} :
          disk' = [disk EXCEPT ![q].checkpoint = File(status, gen), ![q].artifacts = @ \cup {gen}]
    BY <1>9 DEF CommitWave, AfterWave
  <2>2. gen \in 1 .. MaxCommands
    BY <1>1, <1>6, <1>8, Fields
  <2> HIDE DEF gen
  <2>3. /\ disk[q] \in Directory
        /\ Sound(disk[q]["graph_result"]) /\ Sound(disk[q]["evaluation"])
        /\ Sound(disk[q]["task_failure"])
    BY <1>1, Names DEF DiskInv
  <2>4. disk'[q] = [disk[q] EXCEPT !.checkpoint = File(status, gen), !.artifacts = @ \cup {gen}]
    BY <1>1, <2>1 DEF DiskInv
  <2>5. File(status, gen) \in FileStates(CheckpointStatuses)
    BY <2>2, Files DEF CheckpointStatuses
  <2>6. disk'[q] \in Directory
    <3>1. disk[q].artifacts \cup {gen} \in SUBSET (0 .. MaxCommands)
      BY <1>1, <2>2, Fields
    <3> QED BY <2>3, <2>4, <2>5, <3>1 DEF Directory
  <2>7. disk' \in [Tasks -> Directory] /\ \A p \in Tasks \ {q} : disk'[p] = disk[p]
    BY <1>1, <2>1, <2>4, <2>6 DEF DiskInv
  <2>8. \A name \in FileNames \ {"artifacts"} : Sound(disk'[q][name])
    <3>1. /\ disk'[q]["checkpoint"] = File(status, gen)
          /\ disk'[q]["graph_result"] = disk[q]["graph_result"]
          /\ disk'[q]["evaluation"] = disk[q]["evaluation"]
          /\ disk'[q]["task_failure"] = disk[q]["task_failure"]
      BY <2>3, <2>4 DEF Directory
    <3>2. Sound(File(status, gen))
      BY <2>2, Files DEF Sound
    <3> QED BY <2>3, <3>1, <3>2, Names
  <2>9. DiskInv'
    BY <1>1, <2>7, <2>8 DEF DiskInv
  <2>10. PhasesInv'
    <3>1. state = "executing"
      BY <1>1, <1>4, <1>9 DEF CommitWave, Becomes, CoreOK
    <3> QED BY <1>1, <1>4, <1>6, <2>7, <3>1 DEF CoreOK, PhasesInv, evaluator
  <2> QED BY <1>7, <2>9, <2>10
<1>10. ASSUME NEW name \in {"graph_result", "task_failure"}, NEW status \in {"torn", "valid"},
              name = "task_failure" => status = "valid",
              disk[q].checkpoint.status # "missing",
              Write(q, name, File(status, disk[q].checkpoint.gen)),
              state = "writing" => disk[q].checkpoint.status = "frozen"
       PROVE  CoreOK' /\ DiskInv' /\ PhasesInv'
  <2> DEFINE file == File(status, disk[q].checkpoint.gen)
  <2>1. /\ name = "graph_result" => file \in FileStates({"missing", "torn", "valid"})
        /\ name = "task_failure" => file \in FileStates({"missing", "valid"})
    BY <1>8, <1>10, Files
  <2>2. Sound(file)
    BY <1>8, <1>10, Files DEF Sound
  <2>3. Fits(name, file) /\ name \in FileNames
    BY <2>1, Names DEF Fits
  <2>4. DiskInv'
    BY <1>1, <1>10, <2>2, <2>3, WriteSound
  <2>5. \A p \in Tasks : disk'[p].checkpoint = disk[p].checkpoint
    <3>1. /\ \A m \in FileNames \ {name} : disk'[q][m] = disk[q][m]
          /\ \A p \in Tasks \ {q} : disk'[p] = disk[p]
      BY <1>1, <1>10, <2>3, FileWritten DEF DiskInv
    <3>2. disk'[q]["checkpoint"] = disk[q]["checkpoint"]
      BY <3>1, Names
    <3> QED BY <3>1, <3>2
  <2>6. PhasesInv'
    BY <1>1, <1>4, <1>6, <1>10, <2>5 DEF CoreOK, PhasesInv, evaluator
  <2> QED BY <1>7, <2>4, <2>6
<1>11. CASE TaskCompletes(q)
  <2>1. /\ disk[q].checkpoint.status = "frozen"
        /\ Write(q, "graph_result", File("torn", disk[q].checkpoint.gen))
    BY <1>11 DEF TaskCompletes, StatusWhen
  <2> QED BY <1>10, <2>1
<1>12. CASE ResultWritten(q)
  <2>1. /\ disk[q].checkpoint.status = "frozen"
        /\ Write(q, "graph_result", File("valid", disk[q].checkpoint.gen))
    BY <1>1, <1>12 DEF ResultWritten, PhasesInv
  <2> QED BY <1>10, <2>1
<1>13. CASE TaskFails(q)
  <2>1. /\ disk[q].checkpoint.status = "dead"
        /\ Write(q, "task_failure", File("valid", disk[q].checkpoint.gen))
    BY <1>13 DEF TaskFails, StatusWhen
  <2>2. state # "writing"
    BY <1>1, <1>4, <1>13 DEF TaskFails, Becomes, CoreOK
  <2> QED BY <1>10, <2>1, <2>2
<1> QED BY <1>9, <1>11, <1>12, <1>13

LEMMA SequenceElements ==
  ASSUME NEW S, NEW s \in Seq(S)
  PROVE  Len(s) \in Nat /\ DOMAIN s = 1 .. Len(s) /\ \A i \in 1 .. Len(s) : s[i] \in S
OBVIOUS

LEMMA AnswersTyped ==
  ASSUME CoreOK
  PROVE  /\ Len(answers) \in Nat /\ DOMAIN answers = 1 .. Len(answers)
         /\ \A i \in 1 .. Len(answers) : answers[i] \in 1 .. MaxCommands
         /\ Len(Manifest) \in Nat /\ DOMAIN Manifest = 1 .. Len(Manifest)
         /\ Len(answers) <= Len(Manifest)
<1>1. answers \in Seq(1 .. MaxCommands) /\ Len(answers) <= Len(Manifest)
  BY DEF CoreOK
<1> QED BY <1>1, SequenceElements, ManifestAssumption

(* The task at work in the evaluation, and the answer read of it. *)
LEMMA CurrentTyped ==
  ASSUME CoreOK, Len(answers) > 0
  PROVE  /\ Len(answers) \in DOMAIN Manifest /\ Len(answers) \in DOMAIN answers
         /\ Current \in Tasks /\ LastRead \in 1 .. MaxCommands
<1>1. Len(answers) \in 1 .. Len(answers) /\ Len(answers) \in 1 .. Len(Manifest)
  BY AnswersTyped
<1>2. Current \in Tasks
  BY <1>1, AnswersTyped DEF Current, Tasks
<1> QED BY <1>1, <1>2, AnswersTyped DEF LastRead

LEMMA EvaluateTypes ==
  ASSUME TypeInv, EvaluateSteps \/ KillEvaluation
  PROVE  TypeInv'
<1>1. CoreOK /\ DiskInv /\ PhasesInv
  BY TypeInvParts
<1>2. SUFFICES CoreOK' /\ DiskInv' /\ PhasesInv'
  BY DEF TypeInv, TypeOK, KindsInv, CoreOK, DiskInv, PhasesInv, Directory, Exports
<1>3. ASSUME disk' = disk PROVE DiskInv'
  BY <1>1, <1>3 DEF DiskInv
<1>4. CASE ReadAnswer
  <2> DEFINE q == Manifest[Len(answers) + 1]
             g == disk[q].graph_result.gen
  <2>1. /\ Len(answers) < Len(Manifest) /\ HasAnswer(q) /\ answers' = Append(answers, g)
        /\ Grader("checking") /\ disk' = disk
    BY <1>4 DEF ReadAnswer
  <2>2. Len(answers) \in Nat /\ Len(Manifest) \in Nat /\ DOMAIN Manifest = 1 .. Len(Manifest)
    BY <1>1, ManifestAssumption DEF CoreOK
  <2>3. Len(answers) + 1 \in DOMAIN Manifest
    BY <2>1, <2>2
  <2>4. q \in Tasks
    BY <2>3 DEF Tasks
  <2>5. g \in 1 .. MaxCommands
    BY <1>1, <2>1, <2>4, Fields, Files DEF HasAnswer
  <2> HIDE DEF g, q
  <2>6. /\ answers' \in Seq(1 .. MaxCommands) /\ Len(answers') = Len(answers) + 1
    BY <1>1, <2>1, <2>5 DEF CoreOK
  <2>7. CoreOK' /\ PhasesInv'
    BY <1>1, <2>1, <2>2, <2>6 DEF CoreOK, PhasesInv, Grader, runner
  <2> QED BY <1>3, <2>1, <2>7
<1>5. CASE SkipEvaluated \/ Grade
  <2>1. disk' = disk /\ answers' = answers /\ At("checking")
        /\ (Grader("reading") \/ Grader("grading"))
    BY <1>5 DEF SkipEvaluated, Grade
  <2>2. CoreOK' /\ PhasesInv'
    BY <1>1, <2>1 DEF CoreOK, PhasesInv, Grader, runner, At
  <2> QED BY <1>3, <2>1, <2>2
<1>6. CASE WriteGrade \/ GradeWritten
  <2>1. grader \in {"grading", "writing"} /\ answers' = answers
        /\ (Grader("writing") \/ Grader("reading"))
    BY <1>6 DEF WriteGrade, GradeWritten, At
  <2>2. PICK status \in {"torn", "valid"} : Write(Current, "evaluation", File(status, LastRead))
    BY <1>6 DEF WriteGrade, GradeWritten
  <2>3. Len(answers) > 0 /\ Current \in Tasks /\ LastRead \in 1 .. MaxCommands
    BY <1>1, <2>1, CurrentTyped DEF PhasesInv
  <2> DEFINE file == File(status, LastRead)
  <2>4. file \in FileStates({"missing", "torn", "valid"}) /\ Sound(file)
    BY <2>3, Files DEF Sound
  <2>5. Fits("evaluation", file) /\ "evaluation" \in FileNames
    BY <2>4, Names DEF Fits
  <2>6. DiskInv'
    BY <1>1, <2>2, <2>3, <2>4, <2>5, WriteSound
  <2>7. \A q \in Tasks : disk'[q].checkpoint = disk[q].checkpoint
    <3>1. /\ \A m \in FileNames \ {"evaluation"} : disk'[Current][m] = disk[Current][m]
          /\ \A p \in Tasks \ {Current} : disk'[p] = disk[p]
      BY <1>1, <2>2, <2>3, <2>5, FileWritten DEF DiskInv
    <3>2. disk'[Current]["checkpoint"] = disk[Current]["checkpoint"]
      BY <3>1, Names
    <3> QED BY <3>1, <3>2
  <2>8. CoreOK' /\ PhasesInv'
    BY <1>1, <2>1, <2>3, <2>7 DEF CoreOK, PhasesInv, Grader, runner
  <2> QED BY <2>6, <2>8
<1>7. ASSUME StopEvaluation, UNCHANGED <<runner, commands, disk>>,
             predictions' \in Exports
      PROVE  CoreOK' /\ DiskInv' /\ PhasesInv'
  <2>1. CoreOK' /\ PhasesInv'
    <3>1. Len(Manifest) \in Nat
      BY ManifestAssumption
    <3>2. grader' = "none" /\ answers' = << >> /\ answers' \in Seq(1 .. MaxCommands)
          /\ Len(answers') = 0
      BY <1>7 DEF StopEvaluation
    <3> QED BY <1>1, <1>7, <3>1, <3>2 DEF CoreOK, PhasesInv, runner
  <2> QED BY <1>3, <1>7, <2>1
<1>8. CASE EvaluateRaises \/ KillEvaluation
  BY <1>1, <1>7, <1>8 DEF EvaluateRaises, KillEvaluation, CoreOK
<1>9. CASE ExportPredictions
  <2>1. /\ Len(answers) = Len(Manifest) /\ predictions' = [status |-> "torn", answers |-> << >>]
        /\ grader' = "exporting" /\ UNCHANGED <<runner, commands, answers, disk>>
    BY <1>9 DEF ExportPredictions
  <2>2. grader = "reading"
    BY <1>9 DEF ExportPredictions, At
  <2>3. predictions' \in Exports
    BY <2>1 DEF Exports
  <2>4. CoreOK' /\ PhasesInv'
    BY <1>1, <2>1, <2>2, <2>3 DEF CoreOK, PhasesInv, runner
  <2> QED BY <1>3, <2>1, <2>4
<1>10. CASE PredictionsWritten
  <2> DEFINE exported ==
        [q \in Tasks |-> answers[CHOOSE i \in DOMAIN Manifest : Manifest[i] = q]]
  <2>1. /\ predictions' = [status |-> "valid", answers |-> exported]
        /\ At("exporting") /\ StopEvaluation /\ UNCHANGED <<runner, commands, disk>>
    BY <1>10 DEF PredictionsWritten
  <2>2. ASSUME NEW q \in Tasks
        PROVE  answers[CHOOSE i \in DOMAIN Manifest : Manifest[i] = q] \in 1 .. MaxCommands
    <3>1. (CHOOSE i \in DOMAIN Manifest : Manifest[i] = q) \in DOMAIN Manifest
      BY DEF Tasks
    <3> QED BY <1>1, <2>1, <3>1, AnswersTyped DEF PhasesInv, At
  <2>3. exported \in [Tasks -> 1 .. MaxCommands]
    BY <2>2
  <2> HIDE DEF exported
  <2>4. predictions' \in Exports
    BY <2>1, <2>3 DEF Exports
  <2> QED BY <1>7, <2>1, <2>4
<1> QED BY <1>4, <1>5, <1>6, <1>8, <1>9, <1>10 DEF EvaluateSteps

LEMMA TypeStep == TypeInv /\ [Next]_vars => TypeInv'
<1> SUFFICES ASSUME TypeInv, [Next]_vars PROVE TypeInv'
  OBVIOUS
<1>1. CASE UNCHANGED vars
  BY <1>1 DEF vars, TypeInv, TypeOK, KindsInv
<1>2. CASE Next
  BY <1>2, RunTypes, RemoveFileTypes, TaskTypes, EvaluateTypes DEF Next, RunSteps, TaskSteps
<1> QED BY <1>1, <1>2

(* Every variable and every file keeps its kind, whatever is killed and      *)
(* whichever commands overlap (cli/run.py, cli/evaluate.py).                 *)
THEOREM BenchmarkTyped == Spec => []TypeOK
<1>1. TypeInv => TypeOK
  BY DEF TypeInv
<1> QED BY <1>1, TypeInit, TypeStep, PTL DEF Spec

-----------------------------------------------------------------------------
(* The directories: what a command that does not clear works on is whole.    *)

SafeInv == DirectoriesInv /\ GradesInv

LEMMA InvParts ==
  ASSUME TypeInv
  PROVE  /\ CoreOK /\ DiskInv /\ PhasesInv
         /\ Len(answers) \in Nat /\ DOMAIN answers = 1 .. Len(answers)
         /\ Len(Manifest) \in Nat /\ DOMAIN Manifest = 1 .. Len(Manifest)
         /\ Len(answers) <= Len(Manifest)
         /\ \A i \in DOMAIN answers : Manifest[i] \in Tasks
<1>1. CoreOK /\ DiskInv /\ PhasesInv
  BY TypeInvParts
<1>2. \A i \in DOMAIN Manifest : Manifest[i] \in Tasks
  BY DEF Tasks
<1> QED BY <1>1, <1>2, AnswersTyped

LEMMA AllWhole ==
  ASSUME DirectoriesInv, command # "clearing"
  PROVE  \A q \in Tasks : Whole(q)
BY DEF DirectoriesInv

LEMMA NothingCleared ==
  ASSUME TypeInv, DirectoriesInv, command # "clearing"
  PROVE  clearing = {}
<1>1. clearing \subseteq Tasks \X FileNames
  BY TypeInvParts DEF CoreOK
<1>2. \A q \in Tasks, name \in FileNames : <<q, name>> \notin clearing
  BY DEF DirectoriesInv
<1> QED BY <1>1, <1>2

(* A file written, field by field. *)
LEMMA FieldsWritten ==
  ASSUME DiskInv, NEW q \in Tasks, NEW name \in FileNames, NEW content,
         Fits(name, content), Write(q, name, content)
  PROVE  /\ name # "checkpoint" => disk'[q].checkpoint = disk[q].checkpoint
         /\ name # "artifacts" => disk'[q].artifacts = disk[q].artifacts
         /\ disk'[q].graph_result = IF name = "graph_result" THEN content ELSE disk[q].graph_result
         /\ disk'[q].evaluation = IF name = "evaluation" THEN content ELSE disk[q].evaluation
         /\ \A p \in Tasks \ {q} : disk'[p] = disk[p]
<1>1. /\ disk'[q][name] = content
      /\ \A m \in FileNames \ {name} : disk'[q][m] = disk[q][m]
      /\ \A p \in Tasks \ {q} : disk'[p] = disk[p]
  BY FileWritten DEF DiskInv
<1>2. /\ name # "checkpoint" => disk'[q]["checkpoint"] = disk[q]["checkpoint"]
      /\ name # "artifacts" => disk'[q]["artifacts"] = disk[q]["artifacts"]
      /\ name # "graph_result" => disk'[q]["graph_result"] = disk[q]["graph_result"]
      /\ name # "evaluation" => disk'[q]["evaluation"] = disk[q]["evaluation"]
  BY <1>1, Names
<1> QED BY <1>1, <1>2

(* A directory without its files is the empty one. *)
LEMMA EmptyIsWhole ==
  ASSUME NEW dir \in Directory, \A name \in FileNames : dir[name] = EmptyDirectory[name]
  PROVE  dir = EmptyDirectory
<1>1. /\ dir["checkpoint"] = EmptyDirectory["checkpoint"]
      /\ dir["artifacts"] = EmptyDirectory["artifacts"]
      /\ dir["graph_result"] = EmptyDirectory["graph_result"]
      /\ dir["task_failure"] = EmptyDirectory["task_failure"]
      /\ dir["evaluation"] = EmptyDirectory["evaluation"]
  BY Names
<1> QED BY <1>1 DEF Directory, EmptyDirectory

(* The evaluation goes on undisturbed by a step that keeps the checkpoints   *)
(* and grades of what it has read.                                           *)
LEMMA GradesKept ==
  ASSUME TypeInv, GradesInv, UNCHANGED evaluator,
         grader # "none" => command' # "clearing",
         \A i \in DOMAIN answers : LET q == Manifest[i]
                                   IN  /\ disk'[q].checkpoint = disk[q].checkpoint
                                       /\ disk'[q].evaluation = disk[q].evaluation
  PROVE  GradesInv'
<1>1. grader' = grader /\ answers' = answers
  BY DEF evaluator
<1>2. grader \in {"grading", "writing"} => Len(answers) \in DOMAIN answers
  <2>1. grader \in {"grading", "writing"} => Len(answers) > 0
    BY InvParts DEF PhasesInv
  <2> QED BY <2>1, InvParts
<1>3. /\ grader = "grading" => disk'[Current].evaluation = Missing
      /\ grader = "writing" => disk'[Current].evaluation = File("torn", LastRead)
  BY <1>2 DEF GradesInv, Current
<1>4. \A i \in DOMAIN answers :
        LET dir == disk'[Manifest[i]]
        IN  /\ dir.checkpoint.status = "frozen" /\ dir.checkpoint.gen = answers[i]
            /\ i < Len(answers) \/ grader \in {"reading", "exporting"} =>
                 dir.evaluation.status = "valid" /\ dir.evaluation.gen = answers[i]
  BY DEF GradesInv
<1> QED BY <1>1, <1>3, <1>4 DEF GradesInv, Current, LastRead

(* No grader, no answers. *)
LEMMA NoGrades ==
  ASSUME grader' = "none", answers' = << >>
  PROVE  GradesInv'
<1>1. DOMAIN answers' = {}
  OBVIOUS
<1> QED BY <1>1 DEF GradesInv

-----------------------------------------------------------------------------
(* The steps. *)

LEMMA SafeInit == Init => SafeInv
<1> SUFFICES ASSUME Init PROVE SafeInv
  OBVIOUS
<1>1. \A q \in Tasks : Whole(q)
  BY DEF Init, Whole, EmptyDirectory
<1>2. DirectoriesInv
  BY <1>1 DEF Init, DirectoriesInv
<1>3. GradesInv
  <2>1. DOMAIN answers = {} /\ grader = "none"
    BY DEF Init
  <2> QED BY <2>1 DEF GradesInv
<1> QED BY <1>2, <1>3 DEF SafeInv

(* A step of a command that does not clear, into directories that are whole. *)
LEMMA StaysWhole ==
  ASSUME TypeInv, SafeInv, command # "clearing", command' # "clearing",
         clearing' \subseteq clearing, \A q \in Tasks : Whole(q)'
  PROVE  DirectoriesInv'
<1>1. clearing' = {}
  BY NothingCleared DEF SafeInv
<1> QED BY <1>1 DEF DirectoriesInv

LEMMA CommandsSafe ==
  ASSUME TypeInv, SafeInv, ForceDuringEvaluation = FALSE, Run \/ ForceRerun \/ Evaluate
  PROVE  SafeInv'
<1>1. disk' = disk
  BY DEF Run, ForceRerun, GiveForceRerun, Evaluate, GiveCommand
<1>2. SafeInv => DirectoriesInv /\ GradesInv
  BY DEF SafeInv
<1>3. CASE Run
  <2>1. command = "none" /\ command' = "running" /\ clearing' = clearing /\ UNCHANGED evaluator
    BY <1>3 DEF Run
  <2>2. \A q \in Tasks : Whole(q)'
    BY <1>1, <1>2, <2>1, AllWhole DEF Whole
  <2>3. DirectoriesInv'
    BY <2>1, <2>2, StaysWhole
  <2>4. GradesInv'
    BY <1>1, <1>2, <2>1, GradesKept
  <2> QED BY <2>3, <2>4 DEF SafeInv
<1>4. CASE ForceRerun
  <2>1. command = "none" /\ grader = "none" /\ command' = "clearing" /\ UNCHANGED evaluator
    BY <1>4 DEF ForceRerun, GiveForceRerun
  <2>2. PICK ids \in Selections : progress' = Queue(ids) /\ clearing' = Present(ids)
    BY <1>4 DEF ForceRerun
  <2>3. ids \subseteq Tasks
    BY SelectionsAssumption
  <2>4. ASSUME NEW q \in Tasks
        PROVE  IF progress'[q] = "queued" THEN Cleaning(q)' ELSE Whole(q)'
    <3>1. Whole(q)
      BY <1>2, <2>1, AllWhole
    <3>2. Whole(q)'
      BY <1>1, <3>1 DEF Whole
    <3>3. CASE progress'[q] = "queued"
      <4>1. q \in ids
        BY <2>2, <2>4, <3>3 DEF Queue
      <4>2. ASSUME NEW name \in FileNames, disk[q][name] # EmptyDirectory[name]
            PROVE  <<q, name>> \in clearing'
        BY <2>2, <4>1, <4>2 DEF Present
      <4>3. disk[q].evaluation # Missing /\ disk[q].graph_result # Missing =>
              disk[q].evaluation.gen = disk[q].graph_result.gen
        BY <3>1 DEF Whole
      <4> QED BY <1>1, <3>3, <4>2, <4>3 DEF Cleaning
    <3> QED BY <3>2, <3>3
  <2>5. ASSUME NEW q \in Tasks, NEW name \in FileNames, <<q, name>> \in clearing'
        PROVE  progress'[q] = "queued"
    <3>1. <<q, name>> \in ids \X FileNames
      BY <2>2, <2>5 DEF Present
    <3> QED BY <2>2, <3>1 DEF Queue
  <2>6. DirectoriesInv'
    BY <2>1, <2>4, <2>5 DEF DirectoriesInv
  <2>7. GradesInv'
    BY <2>1, NoGrades DEF evaluator, TypeInv, KindsInv
  <2> QED BY <2>6, <2>7 DEF SafeInv
<1>5. CASE Evaluate
  <2>1. /\ command # "clearing" /\ UNCHANGED runner
        /\ grader = "none" /\ grader' = "reading" /\ answers' = answers
    BY <1>5 DEF Evaluate
  <2>2. answers' = << >> /\ DOMAIN answers' = {}
    <3>1. answers = << >>
      BY <2>1 DEF TypeInv, KindsInv
    <3> QED BY <2>1, <3>1
  <2>3. \A q \in Tasks : Whole(q)'
    BY <1>1, <1>2, <2>1, AllWhole DEF Whole
  <2>4. DirectoriesInv'
    BY <2>1, <2>3, StaysWhole DEF runner
  <2>5. GradesInv'
    BY <2>1, <2>2 DEF GradesInv, runner
  <2> QED BY <2>4, <2>5 DEF SafeInv
<1> QED BY <1>3, <1>4, <1>5

LEMMA RemoveFileSafe ==
  ASSUME TypeInv, SafeInv, RemoveFile
  PROVE  SafeInv'
<1>1. DiskInv /\ DirectoriesInv
  BY InvParts DEF SafeInv
<1>2. PICK q \in Tasks, name \in FileNames :
        /\ <<q, name>> \in clearing
        /\ Write(q, name, EmptyDirectory[name])
        /\ clearing' = clearing \ {<<q, name>>}
  BY DEF RemoveFile
<1>3. UNCHANGED <<command, progress, evaluator>> /\ command = "clearing"
  BY DEF RemoveFile
<1>4. progress[q] = "queued" /\ Cleaning(q)
  BY <1>1, <1>2 DEF DirectoriesInv
<1>5. Fits(name, EmptyDirectory[name])
  BY EmptyFits
<1>6. /\ disk'[q][name] = EmptyDirectory[name]
      /\ \A m \in FileNames \ {name} : disk'[q][m] = disk[q][m]
      /\ \A p \in Tasks \ {q} : disk'[p] = disk[p]
  BY <1>1, <1>2, <1>5, FileWritten DEF DiskInv
<1>7. /\ disk'[q].graph_result = IF name = "graph_result" THEN EmptyDirectory[name]
                                                          ELSE disk[q].graph_result
      /\ disk'[q].evaluation = IF name = "evaluation" THEN EmptyDirectory[name]
                                                      ELSE disk[q].evaluation
  BY <1>1, <1>2, <1>5, FieldsWritten
<1>8. ASSUME NEW p \in Tasks
      PROVE  IF command = "clearing" /\ progress[p] = "queued" THEN Cleaning(p)' ELSE Whole(p)'
  <2>1. CASE p # q
    <3>1. disk'[p] = disk[p]
      BY <1>6, <2>1
    <3>2. \A m \in FileNames : <<p, m>> \in clearing => <<p, m>> \in clearing'
      BY <1>2, <2>1
    <3> QED BY <1>1, <1>3, <3>1, <3>2 DEF DirectoriesInv, Cleaning, Whole
  <2>2. CASE p = q
    <3>1. ASSUME NEW m \in FileNames, disk'[q][m] # EmptyDirectory[m]
          PROVE  <<q, m>> \in clearing'
      <4>1. m # name /\ disk[q][m] # EmptyDirectory[m]
        BY <1>6, <3>1
      <4> QED BY <1>2, <1>4, <4>1 DEF Cleaning
    <3>2. disk'[q].evaluation # Missing /\ disk'[q].graph_result # Missing =>
            disk'[q].evaluation.gen = disk'[q].graph_result.gen
      <4>1. name \in {"graph_result", "evaluation"} => EmptyDirectory[name] = Missing
        BY EmptyFits, Names
      <4> QED BY <1>4, <1>7, <4>1 DEF Cleaning
    <3> QED BY <1>3, <1>4, <2>2, <3>1, <3>2 DEF Cleaning
  <2> QED BY <2>1, <2>2
<1>9. DirectoriesInv'
  BY <1>1, <1>2, <1>3, <1>8 DEF DirectoriesInv
<1>10. GradesInv'
  <2>1. grader = "none"
    BY <1>3 DEF SafeInv, GradesInv
  <2> QED BY <1>3, <2>1, NoGrades DEF evaluator, TypeInv, KindsInv
<1> QED BY <1>9, <1>10 DEF SafeInv

LEMMA ClearedSafe ==
  ASSUME TypeInv, SafeInv, Cleared
  PROVE  SafeInv'
<1>1. DiskInv /\ DirectoriesInv /\ GradesInv
  BY InvParts DEF SafeInv
<1>2. /\ command = "clearing" /\ clearing = {} /\ command' = "running" /\ clearing' = clearing
      /\ UNCHANGED <<progress, evaluator, disk>>
  BY DEF Cleared
<1>3. ASSUME NEW q \in Tasks PROVE Whole(q)'
  <2>1. CASE progress[q] = "queued"
    <3>1. \A name \in FileNames : disk[q][name] = EmptyDirectory[name]
      BY <1>1, <1>2, <2>1 DEF DirectoriesInv, Cleaning
    <3>2. disk[q] = EmptyDirectory
      BY <1>1, <3>1, EmptyIsWhole DEF DiskInv
    <3> QED BY <1>2, <3>2 DEF Whole, EmptyDirectory
  <2>2. CASE progress[q] # "queued"
    BY <1>1, <1>2, <2>2 DEF DirectoriesInv, Whole
  <2> QED BY <2>1, <2>2
<1>4. DirectoriesInv'
  BY <1>2, <1>3 DEF DirectoriesInv
<1>5. GradesInv'
  BY <1>1, <1>2, GradesKept
<1> QED BY <1>4, <1>5 DEF SafeInv

LEMMA StopRunSafe ==
  ASSUME TypeInv, SafeInv, StopRun, command # "clearing"
  PROVE  SafeInv'
<1>1. DirectoriesInv /\ GradesInv
  BY DEF SafeInv
<1>2. command' = "none" /\ clearing' = {} /\ disk' = disk /\ UNCHANGED evaluator
  BY DEF StopRun
<1>3. \A q \in Tasks : Whole(q)'
  BY <1>1, <1>2, AllWhole DEF Whole
<1>4. DirectoriesInv'
  BY <1>2, <1>3, StaysWhole
<1>5. GradesInv'
  BY <1>1, <1>2, GradesKept
<1> QED BY <1>4, <1>5 DEF SafeInv

LEMMA TasksSafe ==
  ASSUME TypeInv, SafeInv, NEW q \in Tasks,
         \/ TaskStarts(q) \/ CommitWave(q) \/ TaskCompletes(q) \/ ResultWritten(q) \/ TaskFails(q)
  PROVE  SafeInv'
<1>1. DirectoriesInv /\ GradesInv /\ CoreOK /\ DiskInv /\ PhasesInv
  BY InvParts DEF SafeInv
<1>2. command = "running"
  BY <1>1 DEF TaskStarts, CommitWave, TaskCompletes, ResultWritten, TaskFails, CoreOK, PhasesInv
<1>3. UNCHANGED <<command, clearing, evaluator>>
  BY DEF TaskStarts, CommitWave, TaskCompletes, ResultWritten, TaskFails, Becomes
<1>4. \A p \in Tasks : Whole(p)
  BY <1>1, <1>2, AllWhole
<1>5. \A i \in DOMAIN answers : Manifest[i] \in Tasks /\ disk[Manifest[i]].checkpoint.status = "frozen"
  BY <1>1, InvParts DEF GradesInv
(* It is enough that q's directory stays whole, and keeps its grade and a    *)
(* frozen checkpoint.                                                        *)
<1>6. ASSUME \A p \in Tasks \ {q} : disk'[p] = disk[p], Whole(q)',
             disk'[q].evaluation = disk[q].evaluation,
             disk[q].checkpoint.status = "frozen" => disk'[q].checkpoint = disk[q].checkpoint
      PROVE  SafeInv'
  <2>1. \A p \in Tasks : Whole(p)'
    <3>1. \A p \in Tasks \ {q} : Whole(p)'
      BY <1>4, <1>6 DEF Whole
    <3> QED BY <1>6, <3>1
  <2>2. DirectoriesInv'
    BY <1>2, <1>3, <2>1, StaysWhole
  <2>3. \A i \in DOMAIN answers : /\ disk'[Manifest[i]].checkpoint = disk[Manifest[i]].checkpoint
                                  /\ disk'[Manifest[i]].evaluation = disk[Manifest[i]].evaluation
    BY <1>5, <1>6
  <2>4. GradesInv'
    BY <1>1, <1>2, <1>3, <2>3, GradesKept
  <2> QED BY <2>2, <2>4 DEF SafeInv
<1>7. CASE TaskStarts(q)
  <2>1. disk' = disk
    BY <1>7 DEF TaskStarts
  <2> QED BY <1>4, <1>6, <2>1 DEF Whole
<1>8. CASE CommitWave(q)
  <2> DEFINE gen == IF disk[q].checkpoint = Missing THEN commands ELSE disk[q].checkpoint.gen
  <2>1. PICK status \in {"partial", "dead", "frozen"} :
          disk' = [disk EXCEPT ![q].checkpoint = File(status, gen), ![q].artifacts = @ \cup {gen}]
    BY <1>8 DEF CommitWave, AfterWave
  <2>2. disk[q].checkpoint.status \in {"missing", "partial"}
    BY <1>8 DEF CommitWave, AfterWave, Unsettled
  <2>3. disk[q] \in Directory
    BY <1>1 DEF DiskInv
  <2>4. disk[q].artifacts = IF disk[q].checkpoint = Missing THEN {} ELSE {gen}
    BY <1>4, EmptyFits DEF Whole
  <2>5. disk[q].graph_result = Missing /\ disk[q].evaluation = Missing
    <3>1. disk[q].checkpoint = Missing => disk[q] = EmptyDirectory
      BY <1>4 DEF Whole
    <3>2. \A file \in {disk[q].graph_result, disk[q].evaluation} : file = Missing
      BY <1>4, <2>2 DEF Whole
    <3> QED BY <3>2
  <2> HIDE DEF gen
  <2>6. disk'[q] = [disk[q] EXCEPT !.checkpoint = File(status, gen), !.artifacts = @ \cup {gen}]
        /\ \A p \in Tasks \ {q} : disk'[p] = disk[p]
    BY <1>1, <2>1 DEF DiskInv
  <2>7. /\ disk'[q].checkpoint = File(status, gen)
        /\ disk'[q].artifacts = disk[q].artifacts \cup {gen}
        /\ disk'[q].graph_result = disk[q].graph_result
        /\ disk'[q].evaluation = disk[q].evaluation
    BY <2>3, <2>6 DEF Directory
  <2>8. disk'[q].artifacts = {gen}
    BY <2>4, <2>7
  <2>9. disk'[q].checkpoint # Missing /\ disk'[q].checkpoint.gen = gen
    BY <2>7, Files
  <2>10. Whole(q)'
    BY <2>5, <2>7, <2>8, <2>9 DEF Whole
  <2> QED BY <1>6, <2>2, <2>6, <2>7, <2>10
<1>9. CASE TaskCompletes(q) \/ ResultWritten(q)
  <2>1. PICK status \in {"torn", "valid"} :
          Write(q, "graph_result", File(status, disk[q].checkpoint.gen))
    BY <1>9 DEF TaskCompletes, ResultWritten
  <2>2. disk[q].checkpoint.status = "frozen"
    BY <1>1, <1>9 DEF TaskCompletes, StatusWhen, ResultWritten, PhasesInv
  <2> DEFINE file == File(status, disk[q].checkpoint.gen)
  <2>3. Fits("graph_result", file) /\ "graph_result" \in FileNames
    BY <1>1, Fields, Files, Names DEF Fits
  <2>4. /\ disk'[q].checkpoint = disk[q].checkpoint /\ disk'[q].artifacts = disk[q].artifacts
        /\ disk'[q].graph_result = file /\ disk'[q].evaluation = disk[q].evaluation
        /\ \A p \in Tasks \ {q} : disk'[p] = disk[p]
    BY <1>1, <2>1, <2>3, FieldsWritten
  <2>5. file.gen = disk[q].checkpoint.gen /\ disk[q].checkpoint # Missing
    BY <2>2, Files
  <2>6. Whole(q)'
    BY <1>4, <2>2, <2>4, <2>5 DEF Whole
  <2> QED BY <1>6, <2>4, <2>6
<1>10. CASE TaskFails(q)
  <2> DEFINE file == File("valid", disk[q].checkpoint.gen)
  <2>1. Write(q, "task_failure", file) /\ disk[q].checkpoint.status = "dead"
    BY <1>10 DEF TaskFails, StatusWhen
  <2>2. Fits("task_failure", file) /\ "task_failure" \in FileNames
    BY <1>1, Fields, Files, Names DEF Fits
  <2>3. /\ disk'[q].checkpoint = disk[q].checkpoint /\ disk'[q].artifacts = disk[q].artifacts
        /\ disk'[q].graph_result = disk[q].graph_result /\ disk'[q].evaluation = disk[q].evaluation
        /\ \A p \in Tasks \ {q} : disk'[p] = disk[p]
    BY <1>1, <2>1, <2>2, FieldsWritten
  <2>4. disk[q].checkpoint # Missing
    BY <2>1, Files
  <2>5. Whole(q)'
    BY <1>4, <2>3, <2>4 DEF Whole
  <2> QED BY <1>6, <2>3, <2>5
<1> QED BY <1>7, <1>8, <1>9, <1>10

LEMMA EvaluateSafe ==
  ASSUME TypeInv, SafeInv, EvaluateSteps \/ KillEvaluation
  PROVE  SafeInv'
<1>1. DirectoriesInv /\ GradesInv /\ CoreOK /\ DiskInv /\ PhasesInv
  BY InvParts DEF SafeInv
<1>2. UNCHANGED <<command, progress, clearing>>
  BY DEF EvaluateSteps, KillEvaluation, ReadAnswer, SkipEvaluated, Grade, WriteGrade, GradeWritten,
         EvaluateRaises, ExportPredictions, PredictionsWritten, Grader, runner
<1>3. grader # "none"
  BY DEF EvaluateSteps, KillEvaluation, ReadAnswer, SkipEvaluated, Grade, WriteGrade, GradeWritten,
         EvaluateRaises, CannotGrade, ExportPredictions, PredictionsWritten, At
<1>4. command # "clearing"
  BY <1>1, <1>3 DEF GradesInv
<1>5. \A q \in Tasks : Whole(q)
  BY <1>1, <1>4, AllWhole
<1>6. /\ Len(answers) \in Nat /\ DOMAIN answers = 1 .. Len(answers)
      /\ Len(Manifest) \in Nat /\ DOMAIN Manifest = 1 .. Len(Manifest)
      /\ Len(answers) <= Len(Manifest)
      /\ \A i \in DOMAIN Manifest : Manifest[i] \in Tasks
  BY InvParts DEF Tasks
<1>7. ASSUME disk' = disk PROVE DirectoriesInv'
  <2>1. \A q \in Tasks : Whole(q)'
    BY <1>5, <1>7 DEF Whole
  <2> QED BY <1>2, <1>4, <2>1, StaysWhole
<1>8. CASE ReadAnswer
  <2> DEFINE n == Len(answers) + 1
             q == Manifest[n]
             g == disk[q].graph_result.gen
  <2>1. /\ At("reading") /\ Len(answers) < Len(Manifest) /\ HasAnswer(q)
        /\ answers' = Append(answers, g) /\ grader' = "checking" /\ disk' = disk
    BY <1>8 DEF ReadAnswer, Grader
  <2>2. q \in Tasks
    BY <1>6, <2>1
  <2>3. disk[q].checkpoint.status = "frozen" /\ disk[q].checkpoint.gen = g
    <3>1. disk[q].graph_result # Missing
      BY <2>1, Files DEF HasAnswer
    <3> QED BY <1>5, <2>2, <3>1 DEF Whole
  <2>4. /\ DOMAIN answers' = 1 .. n /\ Len(answers') = n /\ answers'[n] = g
        /\ \A i \in DOMAIN answers : answers'[i] = answers[i]
    <3> HIDE DEF g
    <3>1. answers \in Seq(1 .. MaxCommands)
      BY <1>1 DEF CoreOK
    <3> QED BY <1>6, <2>1, <3>1
  <2>5. ASSUME NEW i \in DOMAIN answers'
        PROVE  /\ disk'[Manifest[i]].checkpoint.status = "frozen"
               /\ disk'[Manifest[i]].checkpoint.gen = answers'[i]
               /\ i < Len(answers') => /\ disk'[Manifest[i]].evaluation.status = "valid"
                                       /\ disk'[Manifest[i]].evaluation.gen = answers'[i]
    <3>1. CASE i = n
      BY <1>6, <2>1, <2>3, <2>4, <3>1
    <3>2. CASE i # n
      <4>1. i \in DOMAIN answers
        BY <1>6, <2>4, <3>2
      <4> QED BY <1>1, <2>1, <2>4, <4>1 DEF GradesInv, At
    <3> QED BY <3>1, <3>2
  <2>6. GradesInv'
    BY <1>2, <1>4, <2>1, <2>5 DEF GradesInv
  <2> QED BY <1>7, <2>1, <2>6 DEF SafeInv
<1>9. ASSUME At("checking") \/ At("grading") \/ At("writing")
      PROVE  /\ Len(answers) \in DOMAIN answers /\ Current \in Tasks
             /\ disk[Current].checkpoint.status = "frozen"
             /\ disk[Current].checkpoint.gen = LastRead
             /\ \A i \in DOMAIN answers : i < Len(answers) => Manifest[i] # Current
  <2>1. Len(answers) > 0
    BY <1>1, <1>9 DEF PhasesInv, At
  <2>2. Len(answers) \in DOMAIN answers /\ Len(answers) \in DOMAIN Manifest
    BY <1>6, <2>1
  <2>3. ASSUME NEW i \in DOMAIN answers, i < Len(answers) PROVE Manifest[i] # Current
    <3>1. i \in DOMAIN Manifest /\ i # Len(answers)
      BY <1>6, <2>3
    <3> QED BY <2>2, <3>1, ManifestAssumption DEF Current
  <2> QED BY <1>1, <1>6, <2>2, <2>3 DEF GradesInv, Current, LastRead
<1>10. CASE SkipEvaluated
  <2>1. /\ At("checking") /\ disk[Current].evaluation.status = "valid"
        /\ grader' = "reading" /\ answers' = answers /\ disk' = disk
    BY <1>10 DEF SkipEvaluated, Grader
  <2>2. disk[Current].evaluation.gen = LastRead
    <3>1. disk[Current].evaluation # Missing
      BY <2>1, Files
    <3> QED BY <1>5, <1>9, <2>1, <3>1 DEF Whole
  <2>3. \A i \in DOMAIN answers : disk[Manifest[i]].evaluation.status = "valid"
                                  /\ disk[Manifest[i]].evaluation.gen = answers[i]
    <3> SUFFICES ASSUME NEW i \in DOMAIN answers
                 PROVE  disk[Manifest[i]].evaluation.status = "valid"
                        /\ disk[Manifest[i]].evaluation.gen = answers[i]
      OBVIOUS
    <3>1. CASE i < Len(answers)
      BY <1>1, <3>1 DEF GradesInv
    <3>2. CASE i = Len(answers)
      BY <2>1, <2>2, <3>2 DEF Current, LastRead
    <3> QED BY <1>6, <3>1, <3>2
  <2>4. GradesInv'
    BY <1>1, <1>2, <1>4, <2>1, <2>3 DEF GradesInv
  <2> QED BY <1>7, <2>1, <2>4 DEF SafeInv
<1>11. CASE Grade
  <2>1. /\ At("checking") /\ disk[Current].evaluation = Missing
        /\ grader' = "grading" /\ answers' = answers /\ disk' = disk
    BY <1>11 DEF Grade, Grader
  <2>2. GradesInv'
    BY <1>1, <1>2, <1>4, <2>1 DEF GradesInv, Current, At
  <2> QED BY <1>7, <2>1, <2>2 DEF SafeInv
<1>12. CASE WriteGrade \/ GradeWritten
  <2>1. PICK status \in {"torn", "valid"} :
          /\ Write(Current, "evaluation", File(status, LastRead))
          /\ grader' = IF status = "torn" THEN "writing" ELSE "reading"
    BY <1>12 DEF WriteGrade, GradeWritten, Grader
  <2>2. answers' = answers /\ (At("grading") \/ At("writing"))
    BY <1>12 DEF WriteGrade, GradeWritten
  <2> DEFINE file == File(status, LastRead)
  <2>3. LastRead \in 0 .. MaxCommands
    BY <1>9, <2>2, Fields, InvParts
  <2>4. Fits("evaluation", file) /\ "evaluation" \in FileNames
    BY <2>3, Files, Names DEF Fits
  <2>5. /\ disk'[Current].checkpoint = disk[Current].checkpoint
        /\ disk'[Current].artifacts = disk[Current].artifacts
        /\ disk'[Current].graph_result = disk[Current].graph_result
        /\ disk'[Current].evaluation = file
        /\ \A p \in Tasks \ {Current} : disk'[p] = disk[p]
    BY <1>1, <1>9, <2>1, <2>2, <2>4, FieldsWritten
  <2>6. file.status = status /\ file.gen = LastRead
    BY Files
  <2>7. ASSUME NEW q \in Tasks PROVE Whole(q)'
    <3>1. CASE q = Current
      <4>1. disk[Current].checkpoint # Missing
        BY <1>9, <2>2, Files
      <4> QED BY <1>5, <1>9, <2>2, <2>5, <2>6, <3>1, <4>1 DEF Whole
    <3>2. CASE q # Current
      BY <1>5, <2>5, <3>2 DEF Whole
    <3> QED BY <3>1, <3>2
  <2>8. DirectoriesInv'
    BY <1>2, <1>4, <2>7, StaysWhole
  <2>9. ASSUME NEW i \in DOMAIN answers
        PROVE  /\ disk'[Manifest[i]].checkpoint.status = "frozen"
               /\ disk'[Manifest[i]].checkpoint.gen = answers[i]
               /\ i < Len(answers) \/ status = "valid" =>
                    /\ disk'[Manifest[i]].evaluation.status = "valid"
                    /\ disk'[Manifest[i]].evaluation.gen = answers[i]
    <3>1. CASE i = Len(answers)
      BY <1>6, <1>9, <2>2, <2>5, <2>6, <3>1 DEF Current, LastRead
    <3>2. CASE i < Len(answers)
      <4>1. Manifest[i] \in Tasks \ {Current}
        BY <1>6, <1>9, <2>2, <3>2
      <4> QED BY <1>1, <2>5, <3>2, <4>1 DEF GradesInv
    <3> QED BY <1>6, <3>1, <3>2
  <2>10. GradesInv'
    BY <1>2, <1>4, <2>1, <2>2, <2>5, <2>9 DEF GradesInv, Current, LastRead
  <2> QED BY <2>8, <2>10 DEF SafeInv
<1>13. CASE ExportPredictions
  <2>1. At("reading") /\ grader' = "exporting" /\ answers' = answers /\ disk' = disk
    BY <1>13 DEF ExportPredictions
  <2>2. GradesInv'
    BY <1>1, <1>2, <1>4, <2>1 DEF GradesInv, At
  <2> QED BY <1>7, <2>1, <2>2 DEF SafeInv
<1>14. CASE EvaluateRaises \/ PredictionsWritten \/ KillEvaluation
  <2>1. disk' = disk /\ grader' = "none" /\ answers' = << >>
    BY <1>14 DEF EvaluateRaises, PredictionsWritten, KillEvaluation, StopEvaluation
  <2> QED BY <1>7, <2>1, NoGrades DEF SafeInv
<1> QED BY <1>8, <1>10, <1>11, <1>12, <1>13, <1>14 DEF EvaluateSteps

LEMMA SafeStep ==
  ASSUME ForceDuringEvaluation = FALSE, "clearing" \notin KillPoints
  PROVE  TypeInv /\ SafeInv /\ [Next]_vars => SafeInv'
<1> SUFFICES ASSUME TypeInv, SafeInv, [Next]_vars PROVE SafeInv'
  OBVIOUS
<1>1. CASE UNCHANGED vars
  BY <1>1 DEF vars, SafeInv, DirectoriesInv, Cleaning, Whole, GradesInv, Current, LastRead
<1>2. CASE Run \/ ForceRerun \/ Evaluate
  BY <1>2, CommandsSafe
<1>3. CASE RemoveFile \/ Cleared
  BY <1>3, RemoveFileSafe, ClearedSafe
<1>4. CASE RunCompletes \/ KillRun
  BY <1>4, StopRunSafe DEF RunCompletes, KillRun
<1>5. ASSUME NEW q \in Tasks, TaskRaises(q) PROVE SafeInv'
  BY <1>5, StopRunSafe DEF TaskRaises, TypeInv, KindsInv
<1>6. ASSUME NEW q \in Tasks,
             TaskStarts(q) \/ CommitWave(q) \/ TaskCompletes(q) \/ ResultWritten(q) \/ TaskFails(q)
      PROVE  SafeInv'
  BY <1>6, TasksSafe
<1>7. CASE EvaluateSteps \/ KillEvaluation
  BY <1>7, EvaluateSafe
<1> QED BY <1>1, <1>2, <1>3, <1>4, <1>5, <1>6, <1>7 DEF Next, RunSteps, TaskSteps

-----------------------------------------------------------------------------
(* What the invariant gives. *)

(* With no kill inside a forced rerun's clearing and none given during an    *)
(* evaluation, every directory that is not being cleared is of one           *)
(* generation, and the evaluation's answers are those that are there.        *)
THEOREM BenchmarkInvariance ==
  ASSUME ForceDuringEvaluation = FALSE, "clearing" \notin KillPoints
  PROVE  Spec => []BenchmarkInv
<1>1. TypeInv /\ SafeInv /\ [Next]_vars => SafeInv'
  BY SafeStep
<1>2. TypeInv /\ SafeInv <=> BenchmarkInv
  BY DEF BenchmarkInv, SafeInv
<1> QED BY <1>1, <1>2, TypeInit, TypeStep, SafeInit, PTL DEF Spec

(* Then a valid grade is the grade of the valid result beside it             *)
(* (cli/run.py rmtree, cli/evaluate.py).                                     *)
THEOREM GradesMatchAnswers ==
  ASSUME ForceDuringEvaluation = FALSE, "clearing" \notin KillPoints
  PROVE  Spec => []EvaluationMatchesAnswer
<1>1. BenchmarkInv => EvaluationMatchesAnswer
  <2> SUFFICES ASSUME BenchmarkInv, NEW q \in Tasks,
                      disk[q].evaluation.status = "valid", disk[q].graph_result.status = "valid"
               PROVE  disk[q].evaluation.gen = disk[q].graph_result.gen
    BY DEF EvaluationMatchesAnswer
  <2>1. disk[q].evaluation # Missing /\ disk[q].graph_result # Missing
    BY Files
  <2> QED BY <2>1 DEF BenchmarkInv, DirectoriesInv, Cleaning, Whole
<1> QED BY <1>1, BenchmarkInvariance, PTL

(* Then private tests run, and a grade stands, only on a frozen checkpoint,  *)
(* and it is of the generation of that checkpoint (cli/evaluate.py).         *)
THEOREM PrivateTestsAfterFreeze ==
  ASSUME ForceDuringEvaluation = FALSE, "clearing" \notin KillPoints
  PROVE  Spec => []PrivateOnlyAfterFreeze
<1>1. BenchmarkInv => PrivateOnlyAfterFreeze
  <2> SUFFICES ASSUME BenchmarkInv, command # "clearing", NEW q \in Tasks,
                      disk[q].evaluation # Missing \/ (At("grading") /\ q = Current)
               PROVE  /\ disk[q].checkpoint.status = "frozen"
                      /\ disk[q].evaluation # Missing =>
                           disk[q].checkpoint.gen = disk[q].evaluation.gen
    BY DEF PrivateOnlyAfterFreeze
  <2>1. Whole(q)
    BY AllWhole DEF BenchmarkInv
  <2>2. CASE disk[q].evaluation # Missing
    BY <2>1, <2>2 DEF Whole
  <2>3. CASE disk[q].evaluation = Missing
    <3>1. Len(answers) \in DOMAIN answers
      BY <2>3, InvParts DEF BenchmarkInv, PhasesInv, At
    <3> QED BY <2>3, <3>1 DEF BenchmarkInv, GradesInv, At, Current
  <2> QED BY <2>2, <2>3
<1> QED BY <1>1, BenchmarkInvariance, PTL

(* Then a valid grade stays as it is until a forced rerun removes it.        *)
THEOREM GradedOnce ==
  ASSUME ForceDuringEvaluation = FALSE, "clearing" \notin KillPoints
  PROVE  Spec => NoReevaluation
<1> DEFINE Kept ==
      \A q \in Tasks : disk[q].evaluation.status = "valid" /\ command # "clearing" =>
                         disk'[q].evaluation = disk[q].evaluation
<1>1. BenchmarkInv /\ [Next]_vars => [Kept]_vars
  <2> SUFFICES ASSUME BenchmarkInv, Next, NEW q \in Tasks,
                      disk[q].evaluation.status = "valid", command # "clearing"
               PROVE  disk'[q].evaluation = disk[q].evaluation
    OBVIOUS
  <2>1. TypeInv /\ CoreOK /\ DiskInv /\ PhasesInv /\ GradesInv
    BY InvParts DEF BenchmarkInv
  <2>2. disk[q] \in Directory
    BY <2>1 DEF DiskInv
  <2>3. CASE disk' = disk
    BY <2>3
  <2>4. ASSUME NEW p \in Tasks, CommitWave(p) PROVE disk'[q].evaluation = disk[q].evaluation
    <3> DEFINE gen == IF disk[p].checkpoint = Missing THEN commands ELSE disk[p].checkpoint.gen
    <3>1. PICK status \in {"partial", "dead", "frozen"} :
            disk' = [disk EXCEPT ![p].checkpoint = File(status, gen), ![p].artifacts = @ \cup {gen}]
      BY <2>4 DEF CommitWave, AfterWave
    <3> HIDE DEF gen
    <3> QED BY <2>1, <2>2, <3>1 DEF DiskInv, Directory
  <2>5. ASSUME NEW p \in Tasks, NEW name \in {"graph_result", "task_failure"}, NEW content,
               Write(p, name, content)
        PROVE  disk'[q].evaluation = disk[q].evaluation
    BY <2>1, <2>2, <2>5 DEF Write, DiskInv, Directory
  <2>6. CASE WriteGrade \/ GradeWritten
    <3>1. q # Current
      BY <2>1, <2>6, Files DEF GradesInv, WriteGrade, GradeWritten, At
    <3>2. PICK content : Write(Current, "evaluation", content)
      BY <2>6 DEF WriteGrade, GradeWritten
    <3>3. disk' = [disk EXCEPT ![Current] = [disk[Current] EXCEPT !["evaluation"] = content]]
      BY <3>2 DEF Write
    <3> HIDE <3>2
    <3> QED BY <2>1, <3>1, <3>3 DEF DiskInv
  <2>7. ASSUME NEW p \in Tasks, TaskStarts(p) \/ TaskSteps(p)
        PROVE  disk'[q].evaluation = disk[q].evaluation
    <3>1. CASE TaskStarts(p) \/ TaskRaises(p)
      BY <2>3, <3>1 DEF TaskStarts, TaskRaises, StopRun
    <3>2. CASE TaskCompletes(p) \/ ResultWritten(p) \/ TaskFails(p)
      BY <2>5, <3>2 DEF TaskCompletes, ResultWritten, TaskFails
    <3> QED BY <2>4, <2>7, <3>1, <3>2 DEF TaskSteps
  <2>8. CASE Run \/ ForceRerun \/ Evaluate \/ RunSteps \/ KillRun \/ KillEvaluation
    BY <2>3, <2>8 DEF Run, ForceRerun, GiveForceRerun, Evaluate, GiveCommand, RunSteps, RemoveFile,
                      Cleared, RunCompletes, KillRun, StopRun, KillEvaluation
  <2>9. CASE EvaluateSteps
    BY <2>3, <2>6, <2>9 DEF EvaluateSteps, ReadAnswer, SkipEvaluated, Grade, EvaluateRaises,
                            ExportPredictions, PredictionsWritten
  <2> QED BY <2>7, <2>8, <2>9 DEF Next
<1> QED BY <1>1, BenchmarkInvariance, PTL DEF Spec, NoReevaluation

(* Then predictions.json is touched only when every task has its valid       *)
(* grade, and what it holds once it is whole are the answers that were       *)
(* graded; a kill inside the export leaves it torn (exporter.py, called by *)
(* cli/evaluate.py).                                                         *)
THEOREM PredictionsAreGraded ==
  ASSUME ForceDuringEvaluation = FALSE, "clearing" \notin KillPoints
  PROVE  Spec => ExportedAsGraded
<1> DEFINE Graded ==
      predictions' # predictions =>
        \A q \in Tasks : /\ disk[q].evaluation.status = "valid"
                         /\ predictions'.status = "valid" =>
                              predictions'.answers[q] = disk[q].evaluation.gen
<1>1. BenchmarkInv /\ [Next]_vars => [Graded]_vars
  <2> SUFFICES ASSUME BenchmarkInv, Next, predictions' # predictions, NEW q \in Tasks
               PROVE  /\ disk[q].evaluation.status = "valid"
                      /\ predictions'.status = "valid" =>
                           predictions'.answers[q] = disk[q].evaluation.gen
    OBVIOUS
  <2>1. ExportPredictions \/ PredictionsWritten
    BY DEF Next, Run, ForceRerun, GiveForceRerun, Evaluate, GiveCommand, RunSteps, RemoveFile,
           Cleared, RunCompletes, KillRun, StopRun, KillEvaluation, TaskStarts, TaskSteps,
           CommitWave, TaskCompletes, ResultWritten, TaskFails, TaskRaises, Becomes,
           EvaluateSteps, ReadAnswer, SkipEvaluated, Grade, WriteGrade, GradeWritten,
           EvaluateRaises, Grader
  <2>2. grader \in {"reading", "exporting"} /\ Len(answers) = Len(Manifest)
    BY <2>1, InvParts DEF ExportPredictions, PredictionsWritten, At, BenchmarkInv, PhasesInv
  <2> DEFINE i == CHOOSE j \in DOMAIN Manifest : Manifest[j] = q
  <2>3. i \in DOMAIN Manifest /\ Manifest[i] = q
    BY DEF Tasks
  <2>4. i \in DOMAIN answers
    BY <2>2, <2>3, InvParts DEF BenchmarkInv
  <2>5. predictions'.status = "valid" => predictions'.answers[q] = answers[i]
    <3>1. CASE ExportPredictions
      BY <3>1 DEF ExportPredictions
    <3>2. CASE PredictionsWritten
      <4>1. predictions'.answers = [p \in Tasks |-> answers[CHOOSE j \in DOMAIN Manifest : Manifest[j] = p]]
        BY <3>2 DEF PredictionsWritten
      <4> QED BY <4>1
    <3> QED BY <2>1, <3>1, <3>2
  <2> HIDE DEF i
  <2> QED BY <2>2, <2>3, <2>4, <2>5 DEF BenchmarkInv, GradesInv
<1> QED BY <1>1, BenchmarkInvariance, PTL DEF Spec, ExportedAsGraded
=============================================================================
