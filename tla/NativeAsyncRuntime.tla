------------------------ MODULE NativeAsyncRuntime ------------------------
(***************************************************************************)
(* One benchmark task run by NativeAsyncRuntime.execute                    *)
(* (src/orchestra/runtime/native_async.py) over the three files it writes: *)
(* the artifact store, the checkpoint and the event log.  The process may  *)
(* crash between any two of its steps and be started again with the same   *)
(* run directory; between two starts the contracts may be edited.          *)
(*                                                                         *)
(* A step of the model ends where the code writes to a file or awaits a    *)
(* node, because that is where a crash leaves different files behind.      *)
(* Events that no property reads (WAVE_STARTED, NODE_READY, NODE_STARTED,  *)
(* ARTIFACT_COMMITTED, CONDITIONAL_EDGE_*, WAVE_COMMITTED) are left out.   *)
(***************************************************************************)
EXTENDS WaveCommitter

CONSTANTS
  Graph,             \* the compiled graph of the experiment
  MaxParallel,       \* limits.max_parallel_nodes_per_task
  Contracts,         \* the values contract_hash can take
  AllowDriftChoices, \* the values of --allow-config-drift that are used
  MaxBoots,          \* bound of the model: how often the task is started
  NoState,           \* no RuntimeState: nothing loaded, or no checkpoint file
  NoNode             \* no node: the node_id of an event about the whole graph,
                     \* the producer ("__input__") of an initial artifact

ASSUME GraphAssumption == IsGraph(Graph)
ASSUME MaxParallelAssumption == MaxParallel \in Nat \ {0}
ASSUME MaxBootsAssumption == MaxBoots \in Nat
ASSUME DriftAssumption == AllowDriftChoices \subseteq BOOLEAN
ASSUME NoNodeAssumption == NoNode \notin Nodes(Graph)

VARIABLES
  pc,           \* where execute is; see Active and Stopped
  rs,           \* the RuntimeState in memory
  results,      \* node -> NodeExecutionResult, for the tasks that have ended
  todo,         \* the nodes the current put or log loop has still to visit
  store,        \* the artifact files: id -> envelope
  checkpoint,   \* the checkpoint file
  events,       \* the event log, as a set
  boot,         \* how often the task has been started
  contract,     \* hash of the contract files as they are now
  allow_drift   \* --allow-config-drift of the current invocation

memory == <<pc, rs, results, todo>>
files  == <<store, checkpoint, events>>
config == <<boot, contract, allow_drift>>
vars   == <<pc, rs, results, todo, store, checkpoint, events, boot, contract, allow_drift>>

Active  == {"loop", "running", "putting", "logging", "saved", "finishing"}
Stopped == {"down", "returned", "deadlocked", "aborted", "refused"}

(* cli/run.py gives every task one initial artifact, on the slot "problem". *)
InitialSlots == {"problem"}

(* create_artifact draws a fresh uuid.  A node makes at most one artifact in *)
(* one start of the process, so producer and start identify it.             *)
ArtifactId(producer) == [producer |-> producer, boot |-> boot]

NoPayload == << >>

(* The function f with one more argument: a file added to the store, a       *)
(* result added to those that are there.                                     *)
With(f, x, v) == [y \in DOMAIN f \cup {x} |-> IF y = x THEN v ELSE f[y]]

-----------------------------------------------------------------------------

NodeEvent(type, n) ==
  [type |-> type, node |-> n, wave |-> rs.wave_id, boot |-> boot]

(* Events of results and of checkpoints are written after commit_wave has    *)
(* incremented wave_id, and carry wave_id - 1.                               *)
WaveEvent(type, n) ==
  [type |-> type, node |-> n, wave |-> rs.wave_id - 1, boot |-> boot]

Running == {n \in Nodes(Graph) : rs.node_status[n] = "RUNNING"}

FirstTodo == FirstNode(Graph, todo)

FreshState(problem) ==
  [ node_status       |-> [n \in Nodes(Graph) |-> "PENDING"],
    node_outputs      |-> [n \in Nodes(Graph) |-> NoArtifact],
    initial_artifacts |-> [slot \in InitialSlots |-> problem],
    active_edges      |-> {e \in Edges(Graph) : ~ Conditional(Graph, e)},
    inactive_edges    |-> {},
    final_output      |-> NoArtifact,
    frozen            |-> FALSE,
    wave_id           |-> 0,
    contract_hash     |-> contract ]

-----------------------------------------------------------------------------
(* Starting the process. *)

Start ==
  /\ pc \in Stopped
  /\ boot < MaxBoots
  /\ boot' = boot + 1
  /\ allow_drift' \in AllowDriftChoices
  /\ results' = << >>
  /\ todo' = {}
  /\ UNCHANGED <<checkpoint, events, contract>>

(* No checkpoint: the initial artifact is stored and a new state made.  A    *)
(* crash between the two leaves an artifact file nothing refers to.          *)
StartFresh ==
  /\ Start
  /\ checkpoint = NoState
  /\ LET problem == [producer |-> NoNode, boot |-> boot']
     IN  /\ store' = With(store, problem, [payload  |-> NoPayload,
                                            contract |-> contract,
                                            wave     |-> 0,
                                            parents  |-> << >>])
         /\ rs' = FreshState(problem)
  /\ pc' = "loop"

Drifted == checkpoint.contract_hash # contract

(* The mutated form: a checkpoint of another configuration is accepted. *)
ResumeWithoutDriftCheck ==
  /\ Start
  /\ checkpoint # NoState
  /\ rs' = checkpoint
  /\ pc' = IF checkpoint.frozen THEN "returned" ELSE "loop"
  /\ UNCHANGED store

(* The mutated form: a resumed task gives its failed nodes another chance. *)
ResumeRetryingFailures ==
  /\ Start
  /\ checkpoint # NoState
  /\ Drifted => allow_drift'
  /\ rs' = [checkpoint EXCEPT !.node_status =
              [n \in Nodes(Graph) |-> IF @[n] = "FAILED" THEN "PENDING" ELSE @[n]]]
  /\ pc' = IF checkpoint.frozen THEN "returned" ELSE "loop"
  /\ UNCHANGED store

(* The loaded state keeps the hash it was saved with.  The artifacts it      *)
(* refers to are read back here; ReferencedArtifactsStored shows that no     *)
(* such read fails.                                                          *)
Resume ==
  /\ Start
  /\ checkpoint # NoState
  /\ Drifted => allow_drift'
  /\ rs' = checkpoint
  /\ pc' = IF checkpoint.frozen THEN "returned" ELSE "loop"
  /\ UNCHANGED store

(* CheckpointDriftError *)
RefuseDrift ==
  /\ Start
  /\ checkpoint # NoState
  /\ Drifted
  /\ ~ allow_drift'
  /\ rs' = NoState
  /\ pc' = "refused"
  /\ UNCHANGED store

-----------------------------------------------------------------------------
(* One turn of the loop. *)

(* One pass of the skip loop: the state it leaves and the events it writes. *)
AfterSkipping == Skip(rs, ImpossibleNodes(Graph, rs))

SkipEvents == {NodeEvent("NODE_SKIPPED", n) : n \in ImpossibleNodes(Graph, rs)}

(* skipped and ready are bound variables, and so evaluated only once. *)
BeginWave ==
  /\ pc = "loop"
  /\ \E skipped \in {AfterSkipping} :
     \E ready \in {FindReadyNodes(Graph, skipped, MaxParallel)} :
       /\ ready # {}
       /\ rs' = [skipped EXCEPT !.node_status =
                   [n \in Nodes(Graph) |-> IF n \in ready THEN "RUNNING" ELSE @[n]]]
  /\ pc' = "running"
  /\ results' = << >>
  /\ events' = events \cup SkipEvents
  /\ UNCHANGED <<todo, store, checkpoint, config>>

NothingReady ==
  \E skipped \in {AfterSkipping} : FindReadyNodes(Graph, skipped, MaxParallel) = {}

(* The mutated form: nothing to do is not recognised as the end. *)
EndLoopSpinning ==
  /\ pc = "loop"
  /\ NothingReady
  /\ rs' = AfterSkipping
  /\ pc' = IF CanFinalize(rs) THEN "finishing" ELSE "loop"
  /\ events' = events \cup SkipEvents
  /\ UNCHANGED <<results, todo, store, checkpoint, config>>

(* GraphDeadlockError, unless a final output exists. *)
EndLoop ==
  /\ pc = "loop"
  /\ NothingReady
  /\ IF CanFinalize(rs)
     THEN /\ rs' = [AfterSkipping EXCEPT !.frozen = TRUE]
          /\ pc' = "finishing"
     ELSE /\ rs' = AfterSkipping
          /\ pc' = "deadlocked"
  /\ events' = events \cup SkipEvents
  /\ UNCHANGED <<results, todo, store, checkpoint, config>>

-----------------------------------------------------------------------------
(* The TaskGroup: every node of the wave is a task of its own.  Its inputs   *)
(* were read when the wave began; rs does not change while it runs, so they  *)
(* are what ResolveInputIds still answers.                                   *)

Unfinished == Running \ DOMAIN results

(* An agent whose specification has not exactly one output slot raises       *)
(* ValueError; the other executors publish on the first.                     *)
CanPublish(n) ==
  Graph.nodes[n].node_kind = "agent" => OutputSlots(Graph, n) = {PublishedSlot(Graph, n)}

Finish(n, result) ==
  /\ pc = "running"
  /\ n \in Unfinished
  /\ results' = With(results, n, result)
  /\ UNCHANGED <<pc, rs, todo, files, config>>

NodeSucceeds(n) ==
  /\ CanPublish(n)
  /\ \E payload \in SchemaPayloads[PublishedSchema(Graph, n)] :
       Finish(n, [succeeded |-> TRUE, artifact |-> ArtifactId(n), payload |-> payload])

(* execute_safely turns ValueError, KeyError and TimeoutError into a result. *)
NodeFails(n) ==
  Finish(n, [succeeded |-> FALSE, artifact |-> NoArtifact, payload |-> NoPayload])

(* The mutated form: the aborted task goes on holding its state. *)
NodeRaisesKeepingState(n) ==
  /\ pc = "running"
  /\ n \in Unfinished
  /\ pc' = "aborted"
  /\ results' = << >>
  /\ UNCHANGED <<rs, todo, files, config>>

(* Any other exception cancels the rest of the wave and leaves execute. *)
NodeRaises(n) ==
  /\ pc = "running"
  /\ n \in Unfinished
  /\ pc' = "aborted"
  /\ rs' = NoState
  /\ results' = << >>
  /\ UNCHANGED <<todo, files, config>>

WaveEnds ==
  /\ pc = "running"
  /\ Unfinished = {}
  /\ pc' = "putting"
  /\ todo' = Succeeded(results)
  /\ UNCHANGED <<rs, results, files, config>>

-----------------------------------------------------------------------------
(* Committing the wave: artifacts, then the state in memory, then the events *)
(* of the results, then the checkpoint, then its event.                      *)

(* The mutated form: the outputs are never written. *)
PutNothing ==
  /\ pc = "putting"
  /\ todo # {}
  /\ todo' = todo \ {FirstTodo}
  /\ UNCHANGED <<pc, rs, results, files, config>>

(* wave stands for created_at: in one start later waves create later.        *)
PutArtifact ==
  /\ pc = "putting"
  /\ todo # {}
  /\ store' = With(store, results[FirstTodo].artifact,
                   [payload  |-> results[FirstTodo].payload,
                    contract |-> contract,
                    wave     |-> rs.wave_id,
                    parents  |-> ResolveInputIds(Graph, rs, FirstTodo)])
  /\ todo' = todo \ {FirstTodo}
  /\ UNCHANGED <<pc, rs, results, checkpoint, events, config>>

CommitResults ==
  /\ pc = "putting"
  /\ todo = {}
  /\ rs' = CommitWave(Graph, rs, results)
  /\ todo' = DOMAIN results
  /\ pc' = "logging"
  /\ UNCHANGED <<results, files, config>>

ResultEvent(n) ==
  WaveEvent(IF results[n].succeeded THEN "NODE_COMPLETED" ELSE "NODE_FAILED", n)

LogResult ==
  /\ pc = "logging"
  /\ todo # {}
  /\ events' = events \cup {ResultEvent(FirstTodo)}
  /\ todo' = todo \ {FirstTodo}
  /\ UNCHANGED <<pc, rs, results, store, checkpoint, config>>

(* The mutated form: the checkpoint is written before the events. *)
SaveCheckpointEarly ==
  /\ pc = "logging"
  /\ checkpoint' = rs
  /\ pc' = IF todo = {} THEN "saved" ELSE pc
  /\ UNCHANGED <<rs, results, todo, store, events, config>>

(* The mutated form: the state is not written out. *)
SaveNothing ==
  /\ pc = "logging"
  /\ todo = {}
  /\ pc' = "saved"
  /\ UNCHANGED <<rs, results, todo, store, checkpoint, events, config>>

(* CheckpointStore.save: a temporary file and a rename, so all or nothing. *)
SaveCheckpoint ==
  /\ pc = "logging"
  /\ todo = {}
  /\ checkpoint' = rs
  /\ pc' = "saved"
  /\ UNCHANGED <<rs, results, todo, store, events, config>>

LogCheckpoint ==
  /\ pc = "saved"
  /\ events' = events \cup {WaveEvent("CHECKPOINT_SAVED", NoNode)}
  /\ pc' = IF rs.frozen THEN "finishing" ELSE "loop"
  /\ UNCHANGED <<rs, results, todo, store, checkpoint, config>>

(* The code gives FINAL_OUTPUT_FROZEN no wave id; none is read from it here. *)
FreezeReturn ==
  /\ pc = "finishing"
  /\ events' = events \cup {NodeEvent("FINAL_OUTPUT_FROZEN", NoNode)}
  /\ pc' = "returned"
  /\ UNCHANGED <<rs, results, todo, store, checkpoint, config>>

-----------------------------------------------------------------------------
(* The environment. *)

(* The process is killed, or a task of another benchmark problem raises and  *)
(* the TaskGroup of the command cancels this one.                            *)
Crash ==
  /\ pc \in Active
  /\ pc' = "down"
  /\ rs' = NoState
  /\ results' = << >>
  /\ todo' = {}
  /\ UNCHANGED <<files, config>>

EditContracts ==
  /\ pc \in Stopped
  /\ contract' \in Contracts \ {contract}
  /\ UNCHANGED <<memory, files, boot, allow_drift>>

-----------------------------------------------------------------------------

Init ==
  /\ pc = "down"
  /\ rs = NoState
  /\ results = << >>
  /\ todo = {}
  /\ store = << >>
  /\ checkpoint = NoState
  /\ events = {}
  /\ boot = 0
  /\ contract \in Contracts
  /\ allow_drift = FALSE

NodeFinishes(n) == NodeSucceeds(n) \/ NodeFails(n) \/ NodeRaises(n)

Commit ==
  \/ PutArtifact
  \/ CommitResults
  \/ LogResult
  \/ SaveCheckpoint
  \/ LogCheckpoint

Next ==
  \/ StartFresh \/ Resume \/ RefuseDrift
  \/ BeginWave \/ EndLoop
  \/ \E n \in Nodes(Graph) : NodeFinishes(n)
  \/ WaveEnds
  \/ Commit
  \/ FreezeReturn
  \/ Crash
  \/ EditContracts

Spec == Init /\ [][Next]_vars

(* The process is sequential code that runs on whenever it is not waiting,   *)
(* and it waits only for nodes, each under asyncio.timeout or its client's   *)
(* own timeout.  Nobody has to start it, crash it or edit the contracts.     *)
Fairness ==
  /\ WF_vars(BeginWave)
  /\ WF_vars(EndLoop)
  /\ \A n \in Nodes(Graph) : WF_vars(NodeFinishes(n))
  /\ WF_vars(WaveEnds)
  /\ WF_vars(Commit)
  /\ WF_vars(FreezeReturn)

FairSpec == Spec /\ Fairness

=============================================================================
