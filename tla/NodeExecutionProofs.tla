------------------------ MODULE NodeExecutionProofs ------------------------
(***************************************************************************)
(* The task groups and the semaphores of NodeExecution, for any tasks,     *)
(* waves and limits.  An invariant of the tasks (which nodes are over, and *)
(* whose fault an abort is) and one of the workers (who holds a slot of    *)
(* the sandbox semaphore) give the properties.                             *)
(***************************************************************************)
EXTENDS NodeExecution, FiniteSetTheorems, TLAPS

Steps == {"waiting", "posting", "backoff", "grading", "reaping", "done"}

Outcomes == {"none", "succeeded", "failed", "raised", "cancelled"}

Ended == {"returned", "raised", "cancelled"}

(* The node n may act: it is in the wave its task is at, and the task is not *)
(* over.                                                                     *)
InTurn(n) ==
  /\ n \in WaveNodes(TaskOf(n))
  /\ task[TaskOf(n)] \in {"running", "aborting"}

(* The waves before the current one are over, and the current one too once   *)
(* the task has ended.                                                       *)
WavesInv ==
  /\ wave \in [Tasks -> Nat]
  /\ \A t \in Tasks : task[t] = "waiting" => wave[t] = 0
  /\ \A t \in Tasks : \A i \in 1 .. wave[t] : \A n \in Waves[t][i] :
       i < wave[t] \/ task[t] \notin {"running", "aborting"} => step[n] = "done"

(* Who aborts has a reason: a node of its own, or the command, which has one. *)
BlameInv ==
  /\ \A n \in AllNodes : outcome[n] \in {"raised", "cancelled"} =>
       task[TaskOf(n)] \in {"aborting", "raised", "cancelled"}
  /\ \A t \in Tasks : task[t] = "aborting" =>
       run = "aborting" \/ \E n \in WaveNodes(t) : outcome[n] = "raised"
  /\ \A t \in Tasks : task[t] \in {"raised", "cancelled"} => run # "running"
  /\ run = "aborting" \/ (\E t \in Tasks : task[t] \in {"raised", "cancelled"}) =>
       \E n \in AllNodes : outcome[n] = "raised"

RetryInv == \A n \in AllNodes : step[n] = "backoff" => attempt[n] < MaxAttempts

TaskInv == TypeOK /\ WavesInv /\ BlameInv /\ RetryInv

-----------------------------------------------------------------------------
(* The waves. *)

(* A node is of one task and of one wave. *)
LEMMA TaskOfNode ==
  ASSUME NEW n \in AllNodes
  PROVE  /\ TaskOf(n) \in Tasks
         /\ \E i \in DOMAIN Waves[TaskOf(n)] : n \in Waves[TaskOf(n)][i]
         /\ \A t \in Tasks : \A i, j \in DOMAIN Waves[t] :
              n \in Waves[t][i] => /\ TaskOf(n) = t
                                   /\ n \in Waves[t][j] => j = i
<1>1. PICK t \in Tasks : \E i \in DOMAIN Waves[t] :
        /\ n \in Waves[t][i]
        /\ \A u \in Tasks : \A j \in DOMAIN Waves[u] : n \in Waves[u][j] => u = t /\ j = i
  BY WavesAssumption
<1>2. TaskOf(n) = t
  BY <1>1 DEF TaskOf
<1> QED BY <1>1, <1>2

LEMMA WavesTyped ==
  ASSUME NEW t \in Tasks
  PROVE  /\ Len(Waves[t]) \in Nat /\ DOMAIN Waves[t] = 1 .. Len(Waves[t])
         /\ Len(Waves[t]) > 0
         /\ \A i \in DOMAIN Waves[t] : Waves[t][i] \subseteq AllNodes
BY WavesAssumption

(* A node that is at work, or that its wave has reached and that is not      *)
(* done, is in turn.                                                         *)
LEMMA ActorInTurn ==
  ASSUME TaskInv, NEW n \in AllNodes, step[n] # "done", step[n] # "waiting" \/ Begun(n)
  PROVE  InTurn(n)
<1> DEFINE t == TaskOf(n)
<1>1. t \in Tasks /\ \E i \in DOMAIN Waves[t] : n \in Waves[t][i]
  BY TaskOfNode
<1>2. PICK i \in DOMAIN Waves[t] : n \in Waves[t][i]
  BY <1>1
<1>3. DOMAIN Waves[t] = 1 .. Len(Waves[t]) /\ wave[t] \in 0 .. Len(Waves[t])
  BY <1>1, WavesTyped DEF TaskInv, TypeOK
<1>4. i <= wave[t]
  <2>1. CASE step[n] # "waiting"
    <3>1. i \notin wave[t] + 1 .. Len(Waves[t])
      BY <1>1, <1>2, <2>1 DEF TaskInv, TypeOK
    <3> QED BY <1>2, <1>3, <3>1
  <2>2. CASE Begun(n)
    <3>1. wave[t] # 0 /\ n \in Waves[t][wave[t]]
      BY <2>2 DEF Begun, WaveNodes
    <3>2. wave[t] = i
      BY <1>1, <1>2, <1>3, <3>1, TaskOfNode
    <3> QED BY <1>3, <3>2
  <2> QED BY <2>1, <2>2
<1>5. i = wave[t] /\ task[t] \in {"running", "aborting"}
  <2>1. i \in 1 .. wave[t]
    BY <1>2, <1>3, <1>4
  <2>2. ~ (i < wave[t] \/ task[t] \notin {"running", "aborting"})
    BY <1>1, <1>2, <2>1 DEF TaskInv, WavesInv
  <2> QED BY <1>3, <1>4, <2>2
<1> QED BY <1>2, <1>3, <1>5 DEF InTurn, WaveNodes

-----------------------------------------------------------------------------
(* The steps of a node. *)

Workers == {"none", "alive", "reported", "broken", "killed"}

(* A node in turn goes to step s with outcome o, a POSTs made and worker w. *)
Moves(n, s, o, a, w) ==
  /\ InTurn(n) /\ step[n] # "done"
  /\ step'    = [step EXCEPT ![n] = s]
  /\ outcome' = [outcome EXCEPT ![n] = o]
  /\ attempt' = [attempt EXCEPT ![n] = a]
  /\ worker'  = [worker EXCEPT ![n] = w]
  /\ s = "done" <=> o # "none"
  /\ s = "backoff" => a < MaxAttempts
  /\ n \in AgentNodes => w = "none"
  /\ o = "cancelled" => task[TaskOf(n)] = "aborting"
  /\ task' = IF o = "raised" THEN [task EXCEPT ![TaskOf(n)] = "aborting"] ELSE task
  /\ UNCHANGED <<wave, run>>

Moved(n) ==
  \E s \in Steps, o \in Outcomes, a \in 0 .. MaxAttempts, w \in Workers : Moves(n, s, o, a, w)

(* The actions of one node but the end of its worker process. *)
NodeAct(n) ==
  \/ StartPosting(n) \/ Answered(n) \/ Rejected(n) \/ Unavailable(n) \/ Retry(n)
  \/ SyntaxErrorFound(n) \/ StartWorker(n) \/ WorkerCollected(n) \/ WallTimeout(n)
  \/ WorkerReaped(n) \/ CancelSibling(n) \/ NodeTimeout(n)

LEMMA ActsMove ==
  ASSUME TaskInv, NEW n \in AllNodes, NodeAct(n)
  PROVE  Moved(n)
<1> USE DEF command
<1>1. /\ step[n] \in Steps /\ outcome[n] \in Outcomes
      /\ attempt[n] \in 0 .. MaxAttempts /\ worker[n] \in Workers
      /\ n \in AgentNodes => worker[n] = "none"
      /\ step[n] = "done" <=> outcome[n] # "none"
  BY DEF TaskInv, TypeOK, Steps, Outcomes, Workers
<1>2. /\ [step EXCEPT ![n] = step[n]] = step /\ [outcome EXCEPT ![n] = outcome[n]] = outcome
      /\ [attempt EXCEPT ![n] = attempt[n]] = attempt /\ [worker EXCEPT ![n] = worker[n]] = worker
  BY DEF TaskInv, TypeOK
<1>3. step[n] # "done"
  BY DEF NodeAct, StartPosting, Answered, Rejected, Unavailable, Retry, SyntaxErrorFound,
         StartWorker, WorkerCollected, WallTimeout, WorkerReaped, CancelSibling, NodeTimeout
<1>4. step[n] # "waiting" \/ Begun(n)
  BY DEF NodeAct, StartPosting, Answered, Rejected, Unavailable, Retry, SyntaxErrorFound,
         StartWorker, WorkerCollected, WallTimeout, WorkerReaped, CancelSibling, NodeTimeout
<1>5. InTurn(n)
  BY <1>3, <1>4, ActorInTurn
<1>6. outcome[n] = "none"
  BY <1>1, <1>3
<1>7. SUFFICES \E s \in Steps, o \in Outcomes, a \in 0 .. MaxAttempts, w \in Workers :
                 Moves(n, s, o, a, w)
  BY DEF Moved
<1>8. CASE StartPosting(n)
  <2>1. Moves(n, "posting", "none", 1, worker[n])
    BY <1>1, <1>2, <1>3, <1>5, <1>6, <1>8 DEF StartPosting, Moves
  <2> QED BY <1>1, <2>1 DEF Steps, Outcomes, MaxAttempts
<1>9. CASE Answered(n)
  <2>1. PICK o \in {"succeeded", "failed"} : Settle(n, o)
    BY <1>9 DEF Answered
  <2>2. Moves(n, "done", o, attempt[n], worker[n])
    BY <1>1, <1>2, <1>3, <1>5, <1>9, <2>1 DEF Answered, Settle, Moves
  <2> QED BY <1>1, <2>2 DEF Steps, Outcomes
<1>10. CASE Rejected(n)
  <2>1. Moves(n, "done", "raised", attempt[n], worker[n])
    BY <1>1, <1>2, <1>3, <1>5, <1>10 DEF Rejected, Raise, Settle, Moves
  <2> QED BY <1>1, <2>1 DEF Steps, Outcomes
<1>11. CASE Unavailable(n)
  <2>1. CASE attempt[n] < MaxAttempts
    <3>1. Moves(n, "backoff", "none", attempt[n], worker[n])
      BY <1>1, <1>2, <1>3, <1>5, <1>6, <1>11, <2>1 DEF Unavailable, Moves
    <3> QED BY <1>1, <3>1 DEF Steps, Outcomes
  <2>2. CASE ~ (attempt[n] < MaxAttempts)
    <3>1. Moves(n, "done", "raised", attempt[n], worker[n])
      BY <1>1, <1>2, <1>3, <1>5, <1>11, <2>2 DEF Unavailable, Raise, Settle, Moves
    <3> QED BY <1>1, <3>1 DEF Steps, Outcomes
  <2> QED BY <2>1, <2>2
<1>12. CASE Retry(n)
  <2>1. attempt[n] < MaxAttempts
    BY <1>12 DEF TaskInv, RetryInv, Retry
  <2>2. Moves(n, "posting", "none", attempt[n] + 1, worker[n])
    BY <1>1, <1>2, <1>3, <1>5, <1>6, <1>12, <2>1 DEF Retry, Moves
  <2>3. attempt[n] + 1 \in 0 .. MaxAttempts
    BY <1>1, <2>1 DEF MaxAttempts
  <2> QED BY <1>1, <2>2, <2>3 DEF Steps, Outcomes
<1>13. CASE SyntaxErrorFound(n) \/ WorkerReaped(n)
  <2>1. Moves(n, "done", "succeeded", attempt[n], worker[n])
    BY <1>1, <1>2, <1>3, <1>5, <1>13 DEF SyntaxErrorFound, WorkerReaped, Settle, Moves
  <2> QED BY <1>1, <2>1 DEF Steps, Outcomes
<1>14. CASE StartWorker(n)
  <2>1. n \notin AgentNodes
    BY <1>14, KindsAssumption DEF StartWorker
  <2>2. Moves(n, "grading", "none", attempt[n], "alive")
    BY <1>1, <1>2, <1>3, <1>5, <1>6, <1>14, <2>1 DEF StartWorker, Moves
  <2> QED BY <1>1, <2>2 DEF Steps, Outcomes, Workers
<1>15. CASE WorkerCollected(n)
  <2>1. CASE worker[n] = "reported"
    <3>1. Moves(n, "done", "succeeded", attempt[n], worker[n])
      BY <1>1, <1>2, <1>3, <1>5, <1>15, <2>1 DEF WorkerCollected, Settle, Moves
    <3> QED BY <1>1, <3>1 DEF Steps, Outcomes
  <2>2. CASE worker[n] = "broken"
    <3>1. Moves(n, "done", "raised", attempt[n], worker[n])
      BY <1>1, <1>2, <1>3, <1>5, <1>15, <2>2 DEF WorkerCollected, Raise, Settle, Moves
    <3> QED BY <1>1, <3>1 DEF Steps, Outcomes
  <2> QED BY <1>15, <2>1, <2>2 DEF WorkerCollected
<1>16. CASE WallTimeout(n)
  <2> DEFINE w == IF worker[n] = "alive" THEN "killed" ELSE worker[n]
  <2>1. Moves(n, "reaping", "none", attempt[n], w)
    BY <1>1, <1>2, <1>3, <1>5, <1>6, <1>16 DEF WallTimeout, Moves
  <2>2. w \in Workers
    BY <1>1 DEF Workers
  <2> QED BY <1>1, <2>1, <2>2 DEF Steps, Outcomes
<1>17. CASE CancelSibling(n)
  <2>1. Moves(n, "done", "cancelled", attempt[n], worker[n])
    BY <1>1, <1>2, <1>3, <1>5, <1>17 DEF CancelSibling, Settle, Moves
  <2> QED BY <1>1, <2>1 DEF Steps, Outcomes
<1>18. CASE NodeTimeout(n)
  <2>1. Moves(n, "done", "failed", attempt[n], worker[n])
    BY <1>1, <1>2, <1>3, <1>5, <1>18 DEF NodeTimeout, Settle, Moves
  <2> QED BY <1>1, <2>1 DEF Steps, Outcomes
<1> QED
  BY <1>8, <1>9, <1>10, <1>11, <1>12, <1>13, <1>14, <1>15, <1>16, <1>17, <1>18 DEF NodeAct

(* A step of a node keeps the invariant of the tasks. *)
LEMMA MovesKeep ==
  ASSUME TaskInv, NEW n \in AllNodes, Moved(n)
  PROVE  TaskInv'
<1> DEFINE t == TaskOf(n)
<1>1. PICK s \in Steps, o \in Outcomes, a \in 0 .. MaxAttempts, w \in Workers :
        Moves(n, s, o, a, w)
  BY DEF Moved
<1>2. t \in Tasks /\ wave[t] \in DOMAIN Waves[t] /\ n \in Waves[t][wave[t]]
  <2>1. t \in Tasks /\ wave[t] \in 0 .. Len(Waves[t]) /\ DOMAIN Waves[t] = 1 .. Len(Waves[t])
    BY TaskOfNode, WavesTyped DEF TaskInv, TypeOK
  <2>2. wave[t] # 0 /\ n \in Waves[t][wave[t]]
    BY <1>1 DEF Moves, InTurn, WaveNodes
  <2> QED BY <2>1, <2>2, WavesTyped
(* The moving node is in no other wave, of its task or of another. *)
<1>3. \A u \in Tasks : \A i \in DOMAIN Waves[u] : n \in Waves[u][i] => u = t /\ i = wave[t]
  BY <1>2, TaskOfNode
<1>4. \A u \in Tasks : /\ wave[u] \in 0 .. Len(Waves[u])
                       /\ DOMAIN Waves[u] = 1 .. Len(Waves[u])
                       /\ \A i \in DOMAIN Waves[u] : Waves[u][i] \subseteq AllNodes
  BY WavesTyped DEF TaskInv, TypeOK
<1>5. /\ step'[n] = s /\ outcome'[n] = o
      /\ \A m \in AllNodes : m # n => step'[m] = step[m] /\ outcome'[m] = outcome[m]
                                      /\ attempt'[m] = attempt[m]
      /\ attempt'[n] = a
  BY <1>1 DEF Moves, TaskInv, TypeOK
<1>6. /\ task[t] \in {"running", "aborting"}
      /\ o = "raised" => task'[t] = "aborting"
      /\ o # "raised" => task'[t] = task[t]
      /\ \A u \in Tasks : u # t => task'[u] = task[u]
  BY <1>1, <1>2 DEF Moves, InTurn, TaskInv, TypeOK
<1>7. wave' = wave /\ run' = run
  BY <1>1 DEF Moves
<1>8. TypeOK'
  <2>1. /\ step' \in [AllNodes -> Steps] /\ outcome' \in [AllNodes -> Outcomes]
        /\ attempt' \in [AllNodes -> 0 .. MaxAttempts] /\ worker' \in [AllNodes -> Workers]
    BY <1>1 DEF Moves, TaskInv, TypeOK, Steps, Outcomes, Workers
  <2>2. \A m \in AllNodes : step'[m] = "done" <=> outcome'[m] # "none"
    BY <1>1, <1>5 DEF Moves, TaskInv, TypeOK
  <2>3. \A m \in AgentNodes : worker'[m] = "none"
    BY <1>1 DEF Moves, TaskInv, TypeOK, AllNodes
  <2>4. task' \in [Tasks -> {"waiting", "running", "aborting", "returned", "raised", "cancelled"}]
    BY <1>1, <1>2 DEF Moves, TaskInv, TypeOK
  <2>5. \A u \in Tasks : \A i \in wave'[u] + 1 .. Len(Waves[u]) : \A m \in Waves[u][i] :
          step'[m] = "waiting"
    <3> SUFFICES ASSUME NEW u \in Tasks, NEW i \in wave[u] + 1 .. Len(Waves[u]),
                        NEW m \in Waves[u][i]
                 PROVE  step'[m] = "waiting"
      BY <1>7
    <3>1. i \in DOMAIN Waves[u] /\ i # wave[u] /\ m \in AllNodes
      BY <1>4
    <3>2. m # n
      BY <1>3, <3>1
    <3> QED BY <1>5, <3>1, <3>2 DEF TaskInv, TypeOK
  <2> QED BY <1>4, <1>7, <2>1, <2>2, <2>3, <2>4, <2>5 DEF TypeOK, TaskInv, Steps, Outcomes, Workers
<1>9. WavesInv'
  <2>1. ASSUME NEW u \in Tasks, task'[u] = "waiting"
        PROVE  wave'[u] = 0
    BY <1>6, <1>7, <2>1 DEF TaskInv, WavesInv
  <2>2. ASSUME NEW u \in Tasks, NEW i \in 1 .. wave'[u], NEW m \in Waves[u][i],
               i < wave'[u] \/ task'[u] \notin {"running", "aborting"}
        PROVE  step'[m] = "done"
    <3>1. i \in DOMAIN Waves[u] /\ i \in 1 .. wave[u] /\ m \in AllNodes
      BY <1>4, <1>7
    <3>2. m # n
      <4> SUFFICES ASSUME m = n PROVE FALSE
        OBVIOUS
      <4>1. u = t /\ i = wave[t]
        BY <1>3, <3>1
      <4> QED BY <1>4, <1>6, <1>7, <2>2, <4>1
    <3>3. i < wave[u] \/ task[u] \notin {"running", "aborting"}
      BY <1>6, <1>7, <2>2
    <3> QED BY <1>5, <3>1, <3>2, <3>3 DEF TaskInv, WavesInv
  <2>3. wave' \in [Tasks -> Nat]
    BY <1>7 DEF TaskInv, WavesInv
  <2> QED BY <2>1, <2>2, <2>3 DEF WavesInv
<1>10. \A m \in AllNodes : outcome[m] = "raised" => outcome'[m] = "raised"
  <2>1. outcome[n] = "none"
    BY <1>1 DEF Moves, TaskInv, TypeOK
  <2> QED BY <1>5, <2>1
<1>11. BlameInv'
  <2>1. ASSUME NEW m \in AllNodes, outcome'[m] \in {"raised", "cancelled"}
        PROVE  task'[TaskOf(m)] \in {"aborting", "raised", "cancelled"}
    <3>1. CASE m = n
      BY <1>1, <1>5, <1>6, <2>1, <3>1 DEF Moves
    <3>2. CASE m # n
      <4>1. TaskOf(m) \in Tasks /\ task[TaskOf(m)] \in {"aborting", "raised", "cancelled"}
        BY <1>5, <2>1, <3>2, TaskOfNode DEF TaskInv, BlameInv
      <4> QED BY <1>6, <4>1
    <3> QED BY <3>1, <3>2
  <2>2. ASSUME NEW u \in Tasks, task'[u] = "aborting"
        PROVE  run' = "aborting" \/ \E m \in WaveNodes(u)' : outcome'[m] = "raised"
    <3>1. WaveNodes(u)' = WaveNodes(u) /\ WaveNodes(u) \subseteq AllNodes
      BY <1>4, <1>7 DEF WaveNodes
    <3>2. CASE task[u] = "aborting"
      BY <1>7, <1>10, <3>1, <3>2 DEF TaskInv, BlameInv
    <3>3. CASE task[u] # "aborting"
      <4>1. u = t /\ o = "raised"
        BY <1>6, <2>2, <3>3
      <4>2. n \in WaveNodes(u)
        BY <1>1, <4>1 DEF Moves, InTurn
      <4> QED BY <1>5, <3>1, <4>1, <4>2
    <3> QED BY <3>2, <3>3
  <2>3. \A u \in Tasks : task'[u] \in {"raised", "cancelled"} => task[u] = task'[u]
    BY <1>6
  <2>4. \A u \in Tasks : task'[u] \in {"raised", "cancelled"} => run' # "running"
    BY <1>7, <2>3 DEF TaskInv, BlameInv
  <2>5. run' = "aborting" \/ (\E u \in Tasks : task'[u] \in {"raised", "cancelled"}) =>
          \E m \in AllNodes : outcome'[m] = "raised"
    BY <1>7, <1>10, <2>3 DEF TaskInv, BlameInv
  <2> QED BY <2>1, <2>2, <2>4, <2>5 DEF BlameInv
<1>12. RetryInv'
  BY <1>1, <1>5 DEF Moves, TaskInv, RetryInv
<1> QED BY <1>8, <1>9, <1>11, <1>12 DEF TaskInv

-----------------------------------------------------------------------------
(* The steps of the tasks and of the command. *)

LEMMA TaskInvInit == Init => TaskInv
<1> SUFFICES ASSUME Init PROVE TaskInv
  OBVIOUS
<1>1. TypeOK
  <2>1. \A t \in Tasks : wave[t] = 0 /\ 0 \in 0 .. Len(Waves[t])
    BY WavesTyped DEF Init
  <2>2. \A t \in Tasks : \A i \in wave[t] + 1 .. Len(Waves[t]) : \A n \in Waves[t][i] :
          step[n] = "waiting"
    <3>1. \A t \in Tasks : \A i \in 1 .. Len(Waves[t]) : Waves[t][i] \subseteq AllNodes
      BY WavesTyped
    <3> QED BY <2>1, <3>1 DEF Init
  <2> QED BY <2>1, <2>2 DEF Init, TypeOK, MaxAttempts, AllNodes
<1>2. WavesInv
  BY DEF Init, WavesInv
<1>3. BlameInv
  BY TaskOfNode DEF Init, BlameInv
<1>4. RetryInv
  BY DEF Init, RetryInv
<1> QED BY <1>1, <1>2, <1>3, <1>4 DEF TaskInv

Statuses == {"waiting", "running", "aborting", "returned", "raised", "cancelled"}

(* A step that only ends tasks, begins a wave or ends the command.           *)
LEMMA TaskStepsType ==
  ASSUME TaskInv, UNCHANGED nodes, wave' \in [Tasks -> Nat],
         \A t \in Tasks : wave'[t] \in wave[t] .. Len(Waves[t]),
         task' \in [Tasks -> Statuses], run' \in {"running", "aborting", "ended"}
  PROVE  TypeOK' /\ RetryInv'
<1>1. \A t \in Tasks : wave[t] \in Nat /\ Len(Waves[t]) \in Nat
  BY WavesTyped DEF TaskInv, TypeOK
<1>2. \A t \in Tasks : wave'[t] \in 0 .. Len(Waves[t])
  BY <1>1
<1>3. \A t \in Tasks : \A i \in wave'[t] + 1 .. Len(Waves[t]) : i \in wave[t] + 1 .. Len(Waves[t])
  BY <1>1
<1>4. RetryInv'
  BY DEF nodes, TaskInv, RetryInv
<1>5. \A t \in Tasks : \A i \in wave'[t] + 1 .. Len(Waves[t]) : \A n \in Waves[t][i] :
        step'[n] = "waiting"
  BY <1>3 DEF nodes, TaskInv, TypeOK
<1>6. TypeOK'
  BY <1>2, <1>5 DEF nodes, TaskInv, TypeOK, Statuses
<1> QED BY <1>4, <1>6

LEMMA TakeTaskSlotKeeps ==
  ASSUME TaskInv, NEW t \in Tasks, TakeTaskSlot(t)
  PROVE  TaskInv'
<1>1. /\ task[t] = "waiting" /\ wave[t] = 0
      /\ task' = [task EXCEPT ![t] = "running"] /\ wave' = [wave EXCEPT ![t] = 1]
      /\ UNCHANGED <<nodes, run>>
  BY DEF TakeTaskSlot, Becomes, TaskInv, WavesInv
<1>2. /\ task'[t] = "running" /\ wave'[t] = 1
      /\ \A u \in Tasks : u # t => task'[u] = task[u] /\ wave'[u] = wave[u]
      /\ wave' \in [Tasks -> Nat] /\ task' \in [Tasks -> Statuses]
  BY <1>1 DEF TaskInv, TypeOK, WavesInv, Statuses
<1>3. \A u \in Tasks : /\ wave[u] \in 0 .. Len(Waves[u])
                       /\ Len(Waves[u]) \in Nat /\ Len(Waves[u]) > 0
  BY WavesTyped DEF TaskInv, TypeOK
<1>4. \A u \in Tasks : wave'[u] \in wave[u] .. Len(Waves[u])
  BY <1>1, <1>2, <1>3
<1>5. UNCHANGED nodes /\ run' \in {"running", "aborting", "ended"}
  BY <1>1 DEF TaskInv, TypeOK
<1>6. TypeOK' /\ RetryInv'
  BY <1>2, <1>4, <1>5, TaskStepsType
<1>7. WavesInv'
  BY <1>1, <1>2 DEF nodes, TaskInv, WavesInv
<1>8. BlameInv'
  <2>1. \A u \in Tasks : task'[u] \in {"aborting", "raised", "cancelled"} <=>
                           task[u] \in {"aborting", "raised", "cancelled"}
    BY <1>1, <1>2
  <2>2. \A u \in Tasks : task'[u] \in {"aborting", "raised", "cancelled"} =>
                           task'[u] = task[u] /\ wave'[u] = wave[u]
    BY <1>1, <1>2
  <2>3. \A n \in AllNodes : TaskOf(n) \in Tasks
    BY TaskOfNode
  <2>4. \A n \in AllNodes : outcome'[n] \in {"raised", "cancelled"} =>
          task'[TaskOf(n)] \in {"aborting", "raised", "cancelled"}
    BY <1>1, <2>1, <2>3 DEF nodes, TaskInv, BlameInv
  <2>5. \A u \in Tasks : task'[u] = "aborting" =>
          run' = "aborting" \/ \E n \in WaveNodes(u)' : outcome'[n] = "raised"
    BY <1>1, <2>2 DEF nodes, WaveNodes, TaskInv, BlameInv
  <2>6. \A u \in Tasks : task'[u] \in {"raised", "cancelled"} =>
          task[u] \in {"raised", "cancelled"} /\ run' # "running"
    BY <1>1, <2>2 DEF TaskInv, BlameInv
  <2>7. run' = "aborting" \/ (\E u \in Tasks : task'[u] \in {"raised", "cancelled"}) =>
          \E n \in AllNodes : outcome'[n] = "raised"
    BY <1>1, <2>6 DEF nodes, TaskInv, BlameInv
  <2> QED BY <2>4, <2>5, <2>6, <2>7 DEF BlameInv
<1> QED BY <1>6, <1>7, <1>8 DEF TaskInv

LEMMA NextWaveKeeps ==
  ASSUME TaskInv, NEW t \in Tasks, NextWave(t)
  PROVE  TaskInv'
<1>1. /\ task[t] = "running" /\ WaveIsOver(t) /\ wave[t] < Len(Waves[t])
      /\ wave' = [wave EXCEPT ![t] = @ + 1]
      /\ UNCHANGED <<nodes, task, run>>
  BY DEF NextWave
<1>2. \A u \in Tasks : wave[u] \in 0 .. Len(Waves[u]) /\ Len(Waves[u]) \in Nat
  BY WavesTyped DEF TaskInv, TypeOK
<1>3. /\ wave'[t] = wave[t] + 1 /\ \A u \in Tasks : u # t => wave'[u] = wave[u]
      /\ wave' \in [Tasks -> Nat]
  BY <1>1 DEF TaskInv, WavesInv
<1>4. TypeOK' /\ RetryInv'
  <2>1. \A u \in Tasks : wave'[u] \in wave[u] .. Len(Waves[u])
    BY <1>1, <1>2, <1>3
  <2>2. UNCHANGED nodes /\ task' \in [Tasks -> Statuses] /\ run' \in {"running", "aborting", "ended"}
    BY <1>1 DEF TaskInv, TypeOK, Statuses
  <2> QED BY <1>3, <2>1, <2>2, TaskStepsType
<1>5. WavesInv'
  <2>1. \A u \in Tasks : task'[u] = "waiting" => wave'[u] = 0
    BY <1>1, <1>3 DEF TaskInv, WavesInv
  <2>2. ASSUME NEW u \in Tasks, NEW i \in 1 .. wave'[u], NEW n \in Waves[u][i],
               i < wave'[u] \/ task'[u] \notin {"running", "aborting"}
        PROVE  step'[n] = "done"
    <3>1. CASE u # t
      BY <1>1, <1>3, <2>2, <3>1 DEF nodes, TaskInv, WavesInv
    <3>2. CASE u = t /\ i = wave[t]
      <4>1. n \in WaveNodes(t)
        BY <3>2 DEF WaveNodes
      <4> QED BY <1>1, <4>1 DEF WaveIsOver, nodes
    <3>3. CASE u = t /\ i # wave[t]
      <4>1. i \in 1 .. wave[t] /\ i < wave[t]
        BY <1>1, <1>2, <1>3, <2>2, <3>3
      <4> QED BY <1>1, <3>3, <4>1 DEF nodes, TaskInv, WavesInv
    <3> QED BY <3>1, <3>2, <3>3
  <2> QED BY <1>3, <2>1, <2>2 DEF WavesInv
<1>6. BlameInv'
  <2>1. \A u \in Tasks : task'[u] = "aborting" => WaveNodes(u)' = WaveNodes(u)
    BY <1>1, <1>3 DEF WaveNodes
  <2>2. step' = step /\ outcome' = outcome /\ task' = task /\ run' = run
    BY <1>1 DEF nodes
  <2> QED BY <2>1, <2>2 DEF TaskInv, BlameInv
<1> QED BY <1>4, <1>5, <1>6 DEF TaskInv

(* Task t goes to status s, which needs what is assumed of s.                *)
LEMMA StatusKeeps ==
  ASSUME TaskInv, NEW t \in Tasks, NEW s \in Statuses \ {"waiting", "running"},
         task[t] \in {"waiting", "running", "aborting"},
         task' = [task EXCEPT ![t] = s],
         UNCHANGED <<nodes, wave>>, run' \in {run, "aborting"},
         s = "returned" => task[t] = "running",
         s # "aborting" => WaveIsOver(t),
         s # "returned" => run' = "aborting" /\ \E n \in AllNodes : outcome[n] = "raised",
         run' # run => \E n \in AllNodes : outcome[n] = "raised"
  PROVE  TaskInv'
<1>1. /\ step' = step /\ outcome' = outcome /\ attempt' = attempt /\ worker' = worker
      /\ wave' = wave
  BY DEF nodes
<1>2. task'[t] = s /\ \A u \in Tasks : u # t => task'[u] = task[u]
  BY DEF TaskInv, TypeOK
<1>3. \A u \in Tasks : wave[u] \in 0 .. Len(Waves[u]) /\ Len(Waves[u]) \in Nat
  BY WavesTyped DEF TaskInv, TypeOK
<1>4. TypeOK' /\ RetryInv'
  <2>1. task' \in [Tasks -> Statuses] /\ run' \in {"running", "aborting", "ended"}
    BY DEF TaskInv, TypeOK, Statuses
  <2>2. wave' \in [Tasks -> Nat] /\ \A u \in Tasks : wave'[u] \in wave[u] .. Len(Waves[u])
    BY <1>1, <1>3 DEF TaskInv, WavesInv
  <2> QED BY <2>1, <2>2, TaskStepsType
<1>5. WavesInv'
  <2>1. ASSUME NEW u \in Tasks, NEW i \in 1 .. wave'[u], NEW n \in Waves[u][i],
               i < wave'[u] \/ task'[u] \notin {"running", "aborting"}
        PROVE  step'[n] = "done"
    <3>1. CASE u # t
      BY <1>1, <1>2, <2>1, <3>1 DEF TaskInv, WavesInv
    <3>2. CASE u = t /\ i < wave[t]
      BY <1>1, <2>1, <3>2 DEF TaskInv, WavesInv
    <3>3. CASE u = t /\ ~ (i < wave[t])
      <4>1. i = wave[t] /\ wave[t] # 0
        BY <1>1, <1>3, <3>3
      <4>2. s # "aborting"
        BY <1>1, <1>2, <2>1, <3>3
      <4>3. n \in WaveNodes(t)
        BY <3>3, <4>1 DEF WaveNodes
      <4> QED BY <1>1, <4>2, <4>3 DEF WaveIsOver
    <3> QED BY <3>1, <3>2, <3>3
  <2>2. \A u \in Tasks : task'[u] = "waiting" => wave'[u] = 0
    BY <1>1, <1>2 DEF TaskInv, WavesInv
  <2> QED BY <1>1, <2>1, <2>2 DEF TaskInv, WavesInv
<1>6. BlameInv'
  <2>1. \A n \in AllNodes : outcome'[n] \in {"raised", "cancelled"} =>
          task'[TaskOf(n)] \in {"aborting", "raised", "cancelled"}
    <3> SUFFICES ASSUME NEW n \in AllNodes, outcome[n] \in {"raised", "cancelled"}
                 PROVE  task'[TaskOf(n)] \in {"aborting", "raised", "cancelled"}
      BY <1>1
    <3>1. TaskOf(n) \in Tasks /\ task[TaskOf(n)] \in {"aborting", "raised", "cancelled"}
      BY TaskOfNode DEF TaskInv, BlameInv
    <3> QED BY <1>2, <3>1 DEF Statuses
  <2>2. \A u \in Tasks : task'[u] = "aborting" =>
          run' = "aborting" \/ \E n \in WaveNodes(u)' : outcome'[n] = "raised"
    <3> SUFFICES ASSUME NEW u \in Tasks, task'[u] = "aborting"
                 PROVE  run' = "aborting" \/ \E n \in WaveNodes(u) : outcome[n] = "raised"
      BY <1>1 DEF WaveNodes
    <3>1. CASE u = t
      BY <1>2, <3>1
    <3>2. CASE u # t
      BY <1>2, <3>2 DEF TaskInv, BlameInv
    <3> QED BY <3>1, <3>2
  <2>3. ASSUME NEW u \in Tasks, task'[u] \in {"raised", "cancelled"}
        PROVE  run' # "running" /\ \E n \in AllNodes : outcome[n] = "raised"
    <3>1. CASE u = t
      BY <1>2, <2>3, <3>1
    <3>2. CASE u # t
      <4>1. task[u] \in {"raised", "cancelled"}
        BY <1>2, <2>3, <3>2
      <4> QED BY <4>1 DEF TaskInv, BlameInv
    <3> QED BY <3>1, <3>2
  <2>4. run' = "aborting" => \E n \in AllNodes : outcome[n] = "raised"
    BY DEF TaskInv, BlameInv
  <2> QED BY <1>1, <2>1, <2>2, <2>3, <2>4 DEF BlameInv
<1> QED BY <1>4, <1>5, <1>6 DEF TaskInv

LEMMA TaskEndsKeep ==
  ASSUME TaskInv, NEW t \in Tasks, TaskReturns(t) \/ TaskAborts(t) \/ CancelTask(t)
  PROVE  TaskInv'
<1>1. CASE TaskReturns(t)
  <2>1. /\ task[t] = "running" /\ WaveIsOver(t) /\ task' = [task EXCEPT ![t] = "returned"]
        /\ UNCHANGED <<nodes, wave>> /\ run' = run
    BY <1>1 DEF TaskReturns, Becomes
  <2> QED BY <2>1, StatusKeeps DEF Statuses
<1>2. CASE TaskAborts(t)
  <2>1. task[t] = "aborting" /\ WaveIsOver(t) /\ UNCHANGED <<nodes, wave>>
    BY <1>2 DEF TaskAborts
  <2>2. CASE \E n \in WaveNodes(t) : outcome[n] = "raised"
    <3>1. task' = [task EXCEPT ![t] = "raised"] /\ run' = "aborting"
      BY <1>2, <2>2 DEF TaskAborts, Becomes
    <3>2. WaveNodes(t) \subseteq AllNodes
      BY WavesTyped DEF WaveNodes, TaskInv, TypeOK
    <3>3. \E n \in AllNodes : outcome[n] = "raised"
      BY <2>2, <3>2
    <3> QED BY <2>1, <3>1, <3>3, StatusKeeps DEF Statuses
  <2>3. CASE ~ \E n \in WaveNodes(t) : outcome[n] = "raised"
    <3>1. task' = [task EXCEPT ![t] = "cancelled"] /\ run' = run
      BY <1>2, <2>3 DEF TaskAborts, Becomes
    <3>2. run = "aborting" /\ \E n \in AllNodes : outcome[n] = "raised"
      BY <2>1, <2>3 DEF TaskInv, BlameInv
    <3> QED BY <2>1, <3>1, <3>2, StatusKeeps DEF Statuses
  <2> QED BY <2>2, <2>3
<1>3. CASE CancelTask(t)
  <2>1. run = "aborting" /\ run' = run /\ UNCHANGED <<nodes, wave>>
    BY <1>3 DEF CancelTask
  <2>2. \E n \in AllNodes : outcome[n] = "raised"
    BY <2>1 DEF TaskInv, BlameInv
  <2>3. CASE task[t] = "waiting" /\ task' = [task EXCEPT ![t] = "cancelled"]
    <3>1. WaveIsOver(t)
      BY <2>3 DEF WaveIsOver, WaveNodes, TaskInv, WavesInv
    <3> QED BY <2>1, <2>2, <2>3, <3>1, StatusKeeps DEF Statuses
  <2>4. CASE task[t] = "running" /\ task' = [task EXCEPT ![t] = "aborting"]
    BY <2>1, <2>2, <2>4, StatusKeeps DEF Statuses
  <2> QED BY <1>3, <2>3, <2>4 DEF CancelTask, Becomes
<1> QED BY <1>1, <1>2, <1>3

LEMMA RunEndsKeeps ==
  ASSUME TaskInv, RunEnds
  PROVE  TaskInv'
<1>1. /\ run' = "ended" /\ UNCHANGED <<nodes, wave, task>>
      /\ \A t \in Tasks : task[t] \in {"returned", "raised", "cancelled"}
  BY DEF RunEnds
<1>2. TypeOK' /\ WavesInv' /\ RetryInv'
  BY <1>1 DEF nodes, TaskInv, TypeOK, WavesInv, RetryInv
<1>3. BlameInv'
  BY <1>1 DEF nodes, TaskInv, BlameInv
<1> QED BY <1>2, <1>3 DEF TaskInv

LEMMA WorkerExitsKeeps ==
  ASSUME TaskInv, NEW n \in AllNodes, WorkerExits(n)
  PROVE  TaskInv'
<1>1. PICK how \in {"reported", "broken"} : worker' = [worker EXCEPT ![n] = how]
  BY DEF WorkerExits
<1>2. worker[n] = "alive" /\ UNCHANGED <<step, attempt, outcome, command>>
  BY DEF WorkerExits
<1>3. n \notin AgentNodes
  BY <1>2 DEF TaskInv, TypeOK
<1>4. /\ worker' \in [AllNodes -> Workers]
      /\ \A m \in AgentNodes : worker'[m] = "none"
  BY <1>1, <1>3 DEF TaskInv, TypeOK, AllNodes, Workers
<1>5. TypeOK'
  BY <1>2, <1>4 DEF command, TaskInv, TypeOK, Workers
<1>6. WavesInv' /\ BlameInv' /\ RetryInv'
  BY <1>2 DEF command, WaveNodes, TaskInv, WavesInv, BlameInv, RetryInv
<1> QED BY <1>5, <1>6 DEF TaskInv

(* Every step is one of these. *)
LEMMA StepsOfNext ==
  ASSUME Next
  PROVE  \/ \E n \in AllNodes : NodeAct(n) \/ WorkerExits(n)
         \/ \E t \in Tasks : TakeTaskSlot(t) \/ NextWave(t) \/ TaskReturns(t)
                             \/ TaskAborts(t) \/ CancelTask(t)
         \/ RunEnds
BY DEF Next, NodeSteps, TaskSteps, PostEnds, WorkerAwaited, NodeAct

LEMMA TaskInvStep == TaskInv /\ [Next]_vars => TaskInv'
<1> SUFFICES ASSUME TaskInv, [Next]_vars PROVE TaskInv'
  OBVIOUS
<1>1. ASSUME NEW n \in AllNodes, NodeAct(n) PROVE TaskInv'
  BY <1>1, ActsMove, MovesKeep
<1>2. ASSUME NEW n \in AllNodes, WorkerExits(n) PROVE TaskInv'
  BY <1>2, WorkerExitsKeeps
<1>3. ASSUME NEW t \in Tasks, TakeTaskSlot(t) PROVE TaskInv'
  BY <1>3, TakeTaskSlotKeeps
<1>4. ASSUME NEW t \in Tasks, NextWave(t) PROVE TaskInv'
  BY <1>4, NextWaveKeeps
<1>5. ASSUME NEW t \in Tasks, TaskReturns(t) \/ TaskAborts(t) \/ CancelTask(t) PROVE TaskInv'
  BY <1>5, TaskEndsKeep
<1>6. CASE RunEnds
  BY <1>6, RunEndsKeeps
<1>7. CASE UNCHANGED vars
  BY <1>7 DEF vars, WaveNodes, TaskInv, TypeOK, WavesInv, BlameInv, RetryInv
<1> QED BY <1>1, <1>2, <1>3, <1>4, <1>5, <1>6, <1>7, StepsOfNext

(* In every state of every behaviour the waves before a task's own are over, *)
(* no retry is granted after the third attempt, and who is cancelled has     *)
(* another's exception to blame.                                             *)
THEOREM TaskInvariance == Spec => []TaskInv
<1>1. Init => TaskInv
  BY TaskInvInit
<1>2. TaskInv /\ [Next]_vars => TaskInv'
  BY TaskInvStep
<1> QED BY <1>1, <1>2, PTL DEF Spec

(* Every variable keeps its kind: no node makes more than MaxAttempts POSTs, *)
(* only harness nodes get a worker process, and no node moves before its     *)
(* wave has begun (native_async.py, executors/agent.py, lcb_official.py).    *)
THEOREM NodesTyped == Spec => []TypeOK
<1>1. TaskInv => TypeOK
  BY DEF TaskInv
<1> QED BY <1>1, TaskInvariance, PTL

(* A task returns with a result of each of its nodes, or the whole command   *)
(* is aborted and some node's exception is the reason (native_async.py,      *)
(* cli/run.py).                                                              *)
THEOREM TasksWholeOrAborted == Spec => []WholeOrAborted
<1>1. TaskInv => WholeOrAborted
  <2> SUFFICES ASSUME TaskInv PROVE WholeOrAborted
    OBVIOUS
  <2>1. ASSUME NEW t \in Tasks, task[t] = "returned", NEW i \in 1 .. wave[t],
               NEW n \in Waves[t][i]
        PROVE  outcome[n] \in {"succeeded", "failed"}
    <3>1. i \in DOMAIN Waves[t] /\ n \in AllNodes
      BY WavesTyped DEF TaskInv, TypeOK
    <3>2. TaskOf(n) = t
      BY <3>1, TaskOfNode
    <3>3. step[n] = "done"
      BY <2>1 DEF TaskInv, WavesInv
    <3>4. outcome[n] \notin {"raised", "cancelled"}
      BY <2>1, <3>1, <3>2 DEF TaskInv, BlameInv
    <3> QED BY <3>1, <3>3, <3>4 DEF TaskInv, TypeOK
  <2>2. (\E t \in Tasks : task[t] \in {"raised", "cancelled"}) =>
          (\E n \in AllNodes : outcome[n] = "raised") /\ run # "running"
    BY DEF TaskInv, BlameInv
  <2> QED BY <2>1, <2>2 DEF WholeOrAborted
<1> QED BY <1>1, TaskInvariance, PTL

-----------------------------------------------------------------------------
(* The slots of the semaphores and the worker processes. *)

(* No more nodes are behind a semaphore than it has slots. *)
SlotsInv ==
  /\ IsFiniteSet(Holding(AgentNodes)) /\ Cardinality(Holding(AgentNodes)) <= LLMSlots
  /\ IsFiniteSet(Holding(HarnessNodes)) /\ Cardinality(Holding(HarnessNodes)) <= SandboxSlots

(* A living worker is that of a node which holds a slot, or was left behind  *)
(* by a cancellation.                                                        *)
WorkerInv ==
  \A n \in HarnessNodes : worker[n] = "alive" => step[n] = "grading" \/ outcome[n] = "cancelled"

HoldingSteps == {"posting", "backoff", "grading", "reaping"}

(* What a set of holders without new ones keeps. *)
LEMMA FewerHolders ==
  ASSUME NEW kind, NEW slots \in Nat, IsFiniteSet(Holding(kind)),
         Cardinality(Holding(kind)) <= slots, Holding(kind)' \subseteq Holding(kind)
  PROVE  IsFiniteSet(Holding(kind)') /\ Cardinality(Holding(kind)') <= slots
<1>1. /\ IsFiniteSet(Holding(kind)') /\ Cardinality(Holding(kind)') <= Cardinality(Holding(kind))
      /\ Cardinality(Holding(kind)) \in Nat /\ Cardinality(Holding(kind)') \in Nat
  BY FS_Subset, FS_CardinalityType
<1> QED BY <1>1

(* What one more holder does when a slot is free. *)
LEMMA OneMoreHolder ==
  ASSUME NEW kind, NEW slots \in Nat, NEW n, IsFiniteSet(Holding(kind)),
         Cardinality(Holding(kind)) < slots, Holding(kind)' \subseteq Holding(kind) \cup {n}
  PROVE  IsFiniteSet(Holding(kind)') /\ Cardinality(Holding(kind)') <= slots
<1> DEFINE H == Holding(kind)
<1>1. Cardinality(H) \in Nat
  BY FS_CardinalityType
<1>2. IsFiniteSet(H \cup {n}) /\ Cardinality(H \cup {n}) <= Cardinality(H) + 1
  BY <1>1, FS_AddElement
<1>3. /\ IsFiniteSet(H') /\ Cardinality(H') <= Cardinality(H \cup {n})
      /\ Cardinality(H \cup {n}) \in Nat /\ Cardinality(H') \in Nat
  BY <1>2, FS_Subset, FS_CardinalityType
<1> QED BY <1>1, <1>2, <1>3

(* Only StartPosting and StartWorker take a slot, each its own node's.       *)
LEMMA WhoTakesASlot ==
  ASSUME TaskInv, NEW n \in AllNodes, NodeAct(n), NEW m \in AllNodes,
         step'[m] \in HoldingSteps, step[m] \notin HoldingSteps
  PROVE  m = n /\ (StartPosting(n) \/ StartWorker(n))
<1>1. \A k \in AllNodes : k # n => step'[k] = step[k]
  <2>1. PICK s \in Steps, o \in Outcomes, a \in 0 .. MaxAttempts, w \in Workers :
          Moves(n, s, o, a, w)
    BY ActsMove DEF Moved
  <2> QED BY <2>1 DEF Moves, TaskInv, TypeOK
<1>2. m = n
  BY <1>1
<1>3. step \in [AllNodes -> Steps]
  BY DEF TaskInv, TypeOK, Steps
<1>4. CASE Answered(n) \/ Rejected(n) \/ SyntaxErrorFound(n) \/ WorkerCollected(n)
           \/ WorkerReaped(n) \/ CancelSibling(n) \/ NodeTimeout(n)
  <2>1. step'[n] = "done"
    BY <1>3, <1>4 DEF Answered, Rejected, SyntaxErrorFound, WorkerCollected, WorkerReaped,
                      CancelSibling, NodeTimeout, Raise, Settle
  <2> QED BY <1>2, <2>1 DEF HoldingSteps
<1>5. CASE Unavailable(n) \/ Retry(n) \/ WallTimeout(n)
  <2>1. step[n] \in {"posting", "backoff", "grading"}
    BY <1>5 DEF Unavailable, Retry, WallTimeout
  <2> QED BY <1>2, <2>1 DEF HoldingSteps
<1> QED BY <1>2, <1>4, <1>5 DEF NodeAct

LEMMA SlotsStep == TaskInv /\ SlotsInv /\ [Next]_vars => SlotsInv'
<1> SUFFICES ASSUME TaskInv, SlotsInv, [Next]_vars PROVE SlotsInv'
  OBVIOUS
<1>1. LLMSlots \in Nat /\ SandboxSlots \in Nat
  BY SlotsAssumption
<1>2. ASSUME step' = step PROVE SlotsInv'
  BY <1>2 DEF SlotsInv, Holding
<1>3. ASSUME NEW n \in AllNodes, NodeAct(n) PROVE SlotsInv'
  <2>1. \A kind \in SUBSET AllNodes : \A m \in Holding(kind)' \ Holding(kind) :
          m \in kind /\ m = n /\ (StartPosting(n) \/ StartWorker(n))
    <3> SUFFICES ASSUME NEW kind \in SUBSET AllNodes, NEW m \in Holding(kind)' \ Holding(kind)
                 PROVE  m \in kind /\ m = n /\ (StartPosting(n) \/ StartWorker(n))
      OBVIOUS
    <3>1. m \in kind /\ step'[m] \in HoldingSteps /\ step[m] \notin HoldingSteps
      BY DEF Holding, HoldingSteps
    <3> QED BY <1>3, <3>1, WhoTakesASlot
  <2>2. /\ StartPosting(n) => n \notin HarnessNodes
        /\ StartWorker(n) => n \notin AgentNodes
    BY KindsAssumption DEF StartPosting, StartWorker
  <2>3. IsFiniteSet(Holding(AgentNodes)') /\ Cardinality(Holding(AgentNodes)') <= LLMSlots
    <3>1. CASE StartPosting(n)
      <4>1. Holding(AgentNodes)' \subseteq Holding(AgentNodes) \cup {n}
        BY <2>1 DEF AllNodes
      <4>2. Cardinality(Holding(AgentNodes)) < LLMSlots
        BY <3>1 DEF StartPosting
      <4> QED BY <1>1, <4>1, <4>2, OneMoreHolder DEF SlotsInv
    <3>2. CASE ~ StartPosting(n)
      <4>1. Holding(AgentNodes)' \subseteq Holding(AgentNodes)
        BY <2>1, <2>2, <3>2 DEF AllNodes
      <4> QED BY <1>1, <4>1, FewerHolders DEF SlotsInv
    <3> QED BY <3>1, <3>2
  <2>4. IsFiniteSet(Holding(HarnessNodes)') /\ Cardinality(Holding(HarnessNodes)') <= SandboxSlots
    <3>1. CASE StartWorker(n)
      <4>1. Holding(HarnessNodes)' \subseteq Holding(HarnessNodes) \cup {n}
        BY <2>1 DEF AllNodes
      <4>2. Cardinality(Holding(HarnessNodes)) < SandboxSlots
        BY <3>1 DEF StartWorker
      <4> QED BY <1>1, <4>1, <4>2, OneMoreHolder DEF SlotsInv
    <3>2. CASE ~ StartWorker(n)
      <4>1. Holding(HarnessNodes)' \subseteq Holding(HarnessNodes)
        BY <2>1, <2>2, <3>2 DEF AllNodes
      <4> QED BY <1>1, <4>1, FewerHolders DEF SlotsInv
    <3> QED BY <3>1, <3>2
  <2> QED BY <2>3, <2>4 DEF SlotsInv
<1>4. CASE \E n \in AllNodes : WorkerExits(n)
  BY <1>2, <1>4 DEF WorkerExits
<1>5. CASE \E t \in Tasks : TakeTaskSlot(t) \/ NextWave(t) \/ TaskReturns(t)
                            \/ TaskAborts(t) \/ CancelTask(t)
  BY <1>2, <1>5 DEF TakeTaskSlot, NextWave, TaskReturns, TaskAborts, CancelTask, nodes
<1>6. CASE RunEnds \/ UNCHANGED vars
  BY <1>2, <1>6 DEF RunEnds, nodes, vars
<1> QED BY <1>3, <1>4, <1>5, <1>6, StepsOfNext

LEMMA WorkerStep ==
  ASSUME TimedNodes \cap HarnessNodes = {}
  PROVE  TaskInv /\ WorkerInv /\ [Next]_vars => WorkerInv'
<1> SUFFICES ASSUME TaskInv, WorkerInv, [Next]_vars, NEW m \in HarnessNodes, worker'[m] = "alive"
             PROVE  step'[m] = "grading" \/ outcome'[m] = "cancelled"
  BY DEF WorkerInv
<1>1. /\ m \in AllNodes /\ m \notin AgentNodes
      /\ step \in [AllNodes -> Steps] /\ outcome \in [AllNodes -> Outcomes]
      /\ worker \in [AllNodes -> Workers]
      /\ step[m] = "done" <=> outcome[m] # "none"
  BY KindsAssumption DEF AllNodes, TaskInv, TypeOK, Steps, Outcomes, Workers
<1>2. worker[m] = "alive" => step[m] = "grading" \/ outcome[m] = "cancelled"
  BY DEF WorkerInv
<1>3. CASE worker' = worker /\ step' = step /\ outcome' = outcome
  BY <1>2, <1>3
<1>4. ASSUME NEW n \in AllNodes, NodeAct(n)
      PROVE  step'[m] = "grading" \/ outcome'[m] = "cancelled"
  <2>1. CASE m # n
    <3>1. PICK s \in Steps, o \in Outcomes, a \in 0 .. MaxAttempts, w \in Workers :
            Moves(n, s, o, a, w)
      BY <1>4, ActsMove DEF Moved
    <3>2. step'[m] = step[m] /\ outcome'[m] = outcome[m] /\ worker'[m] = worker[m]
      BY <1>1, <2>1, <3>1 DEF Moves
    <3> QED BY <1>2, <3>2
  <2>2. CASE m = n
    <3>1. CASE StartPosting(n)
      BY <1>1, <2>2, <3>1 DEF StartPosting
    <3>2. CASE Answered(n) \/ Rejected(n) \/ Unavailable(n) \/ Retry(n) \/ SyntaxErrorFound(n)
               \/ WorkerReaped(n)
      <4>1. worker' = worker /\ step[n] \in {"posting", "backoff", "waiting", "reaping"}
        BY <3>2 DEF Answered, Rejected, Unavailable, Retry, SyntaxErrorFound, WorkerReaped
      <4> QED BY <1>1, <1>2, <2>2, <4>1
    <3>3. CASE StartWorker(n)
      BY <1>1, <2>2, <3>3 DEF StartWorker
    <3>4. CASE WorkerCollected(n)
      BY <2>2, <3>4 DEF WorkerCollected
    <3>5. CASE WallTimeout(n)
      BY <1>1, <2>2, <3>5 DEF WallTimeout
    <3>6. CASE CancelSibling(n)
      BY <1>1, <2>2, <3>6 DEF CancelSibling, Settle
    <3>7. CASE NodeTimeout(n)
      BY <2>2, <3>7 DEF NodeTimeout
    <3> QED BY <1>4, <3>1, <3>2, <3>3, <3>4, <3>5, <3>6, <3>7 DEF NodeAct
  <2> QED BY <2>1, <2>2
<1>5. ASSUME NEW n \in AllNodes, WorkerExits(n)
      PROVE  step'[m] = "grading" \/ outcome'[m] = "cancelled"
  <2>1. PICK how \in {"reported", "broken"} : worker' = [worker EXCEPT ![n] = how]
    BY <1>5 DEF WorkerExits
  <2>2. step' = step /\ outcome' = outcome
    BY <1>5 DEF WorkerExits
  <2>3. worker[m] = "alive"
    BY <1>1, <2>1
  <2> QED BY <1>2, <2>2, <2>3
<1>6. CASE \E t \in Tasks : TakeTaskSlot(t) \/ NextWave(t) \/ TaskReturns(t)
                            \/ TaskAborts(t) \/ CancelTask(t)
  BY <1>3, <1>6 DEF TakeTaskSlot, NextWave, TaskReturns, TaskAborts, CancelTask, nodes
<1>7. CASE RunEnds \/ UNCHANGED vars
  BY <1>3, <1>7 DEF RunEnds, nodes, vars
<1> QED BY <1>4, <1>5, <1>6, <1>7, StepsOfNext

(* No more agents post or wait to retry, and no more harness nodes grade,    *)
(* than the semaphores of limits have slots (cli/run.py, executors/agent.py, *)
(* executors/harness.py).                                                    *)
THEOREM SemaphoresHold == Spec => []SlotsInv
<1>1. Init => SlotsInv
  <2> SUFFICES ASSUME Init PROVE SlotsInv
    OBVIOUS
  <2>1. Holding(AgentNodes) = {} /\ Holding(HarnessNodes) = {}
    BY DEF Init, Holding, AllNodes
  <2> QED BY <2>1, FS_EmptySet, SlotsAssumption DEF SlotsInv
<1>2. TaskInv /\ SlotsInv /\ [Next]_vars => SlotsInv'
  BY SlotsStep
<1> QED BY <1>1, <1>2, TaskInvariance, PTL DEF Spec

(* Where no harness node has a timeout of its own, as in the baselines, no   *)
(* more workers live than there are sandbox slots until a task is aborted: a *)
(* slot is given back only after its worker has ended or been killed.        *)
THEOREM LivingWorkersWithinSlots ==
  ASSUME TimedNodes \cap HarnessNodes = {}
  PROVE  Spec => []WorkersWithinSlots
<1>1. Init => WorkerInv
  BY DEF Init, WorkerInv, AllNodes
<1>2. TaskInv /\ WorkerInv /\ [Next]_vars => WorkerInv'
  BY WorkerStep
<1>3. TaskInv /\ SlotsInv /\ WorkerInv => WorkersWithinSlots
  <2> SUFFICES ASSUME TaskInv, SlotsInv, WorkerInv, run = "running",
                      \A t \in Tasks : task[t] # "aborting"
               PROVE  Cardinality({n \in HarnessNodes : worker[n] = "alive"}) <= SandboxSlots
    BY DEF WorkersWithinSlots
  <2> DEFINE alive == {n \in HarnessNodes : worker[n] = "alive"}
  <2>1. ASSUME NEW n \in alive PROVE n \in Holding(HarnessNodes)
    <3>1. n \in AllNodes /\ TaskOf(n) \in Tasks
      BY TaskOfNode DEF AllNodes
    <3>2. outcome[n] # "cancelled"
      BY <3>1 DEF TaskInv, BlameInv
    <3> QED BY <3>2 DEF WorkerInv, Holding
  <2>2. /\ IsFiniteSet(alive) /\ Cardinality(alive) <= Cardinality(Holding(HarnessNodes))
        /\ Cardinality(alive) \in Nat /\ Cardinality(Holding(HarnessNodes)) \in Nat
    BY <2>1, FS_Subset, FS_CardinalityType DEF SlotsInv
  <2> QED BY <2>2, SlotsAssumption DEF SlotsInv
<1> QED BY <1>1, <1>2, <1>3, TaskInvariance, SemaphoresHold, PTL DEF Spec
=============================================================================
