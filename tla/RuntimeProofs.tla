--------------------------- MODULE RuntimeProofs ---------------------------
(***************************************************************************)
(* The safety of NativeAsyncRuntime for every graph, every limit and any   *)
(* number of crashes and restarts: first, from IInv, that memory,          *)
(* checkpoint and store fit together; then, from LineageInv, that they fit *)
(* the graph: where each output came from, which branches were taken and   *)
(* why a node was skipped.                                                 *)
(***************************************************************************)
EXTENDS RuntimeProperties, SchedulerProofs

(* Recording results leaves a state of the same shape, with every node of    *)
(* the wave decided by its own result and no other node touched.             *)
LEMMA RecordResultsEffect ==
  ASSUME NEW st \in RuntimeStates, NEW res, DOMAIN res \subseteq Nodes(Graph),
         \A n \in Succeeded(res) : res[n].artifact \in ArtifactIds
  PROVE  LET new == RecordResults(st, res)
         IN  /\ new \in RuntimeStates
             /\ \A n \in Succeeded(res) : /\ new.node_status[n] = "SUCCEEDED"
                                          /\ new.node_outputs[n] = res[n].artifact
             /\ \A n \in DOMAIN res \ Succeeded(res) :
                  /\ new.node_status[n] = "FAILED"
                  /\ new.node_outputs[n] = st.node_outputs[n]
             /\ \A n \in Nodes(Graph) \ DOMAIN res :
                  /\ new.node_status[n] = st.node_status[n]
                  /\ new.node_outputs[n] = st.node_outputs[n]
             /\ new.initial_artifacts = st.initial_artifacts
             /\ new.final_output = st.final_output
             /\ new.frozen = st.frozen
BY DEF RecordResults, RuntimeStates, Succeeded, NodeStatuses, Terminal, Dead

(* The first producer of the final slot, if any, gives the final output. *)
LEMMA FreezeEffect ==
  ASSUME NEW st \in RuntimeStates, NEW res, DOMAIN res \subseteq Nodes(Graph),
         \A n \in Succeeded(res) : res[n].artifact \in ArtifactIds
  PROVE  LET new == FreezeFinalOutput(Graph, st, res)
         IN  /\ new \in RuntimeStates
             /\ new.node_status = st.node_status
             /\ new.node_outputs = st.node_outputs
             /\ new.initial_artifacts = st.initial_artifacts
             /\ \/ /\ new.final_output = st.final_output
                   /\ new.frozen = st.frozen
                \/ /\ new.frozen = TRUE
                   /\ \E n \in Succeeded(res) :
                        /\ PublishedSlot(Graph, n) = Graph.final_output_slot
                        /\ new.final_output = res[n].artifact
<1> DEFINE producers == FinalProducers(Graph, res)
<1>1. CASE st.frozen \/ producers = {}
  BY <1>1 DEF FreezeFinalOutput
<1>2. CASE ~ (st.frozen \/ producers = {})
  <2> DEFINE first == FirstNode(Graph, producers)
  <2>1. first \in producers
    BY <1>2, FirstNodeExists, GraphAssumption DEF FinalProducers, Succeeded
  <2>2. /\ first \in Succeeded(res)
        /\ PublishedSlot(Graph, first) = Graph.final_output_slot
        /\ res[first].artifact \in ArtifactIds
    BY <2>1 DEF FinalProducers
  <2>3. FreezeFinalOutput(Graph, st, res)
          = [st EXCEPT !.final_output = res[first].artifact, !.frozen = TRUE]
    BY <1>2 DEF FreezeFinalOutput
  <2> HIDE DEF first
  <2> QED BY <2>2, <2>3 DEF RuntimeStates
<1> QED BY <1>1, <1>2

(* Deciding edges touches nothing but the two sets of edges. *)
LEMMA SettleEffect ==
  ASSUME NEW st \in RuntimeStates, NEW res
  PROVE  LET new == SettleConditionalEdges(Graph, st, res)
         IN  /\ new \in RuntimeStates
             /\ new.node_status = st.node_status
             /\ new.node_outputs = st.node_outputs
             /\ new.initial_artifacts = st.initial_artifacts
             /\ new.final_output = st.final_output
             /\ new.frozen = st.frozen
BY DEF SettleConditionalEdges, SettledEdges, RuntimeStates

(* Skipping decides pending nodes only. *)
LEMMA SkipEffect ==
  ASSUME NEW st \in RuntimeStates
  PROVE  LET new == Skip(st, ImpossibleNodes(Graph, st))
         IN  /\ new \in RuntimeStates
             /\ \A n \in Nodes(Graph) :
                  \/ new.node_status[n] = st.node_status[n]
                  \/ st.node_status[n] = "PENDING" /\ new.node_status[n] = "SKIPPED"
             /\ new.node_outputs = st.node_outputs
             /\ new.initial_artifacts = st.initial_artifacts
             /\ new.final_output = st.final_output
             /\ new.frozen = st.frozen
<1> DEFINE impossible == ImpossibleNodes(Graph, st)
<1>1. \A n \in impossible : n \in Nodes(Graph) /\ st.node_status[n] = "PENDING"
  BY DEF ImpossibleNodes
<1> HIDE DEF impossible
<1> QED BY <1>1 DEF Skip, RuntimeStates, NodeStatuses, impossible

(* What commit_wave does to a state, as far as the invariants ask. *)
Commits(st, res, new) ==
  /\ new \in RuntimeStates
  /\ \A n \in Succeeded(res) : /\ new.node_status[n] = "SUCCEEDED"
                               /\ new.node_outputs[n] = res[n].artifact
  /\ \A n \in DOMAIN res \ Succeeded(res) :
       /\ new.node_status[n] = "FAILED"
       /\ new.node_outputs[n] = st.node_outputs[n]
  /\ \A n \in Nodes(Graph) \ DOMAIN res :
       /\ \/ new.node_status[n] = st.node_status[n]
          \/ st.node_status[n] = "PENDING" /\ new.node_status[n] = "SKIPPED"
       /\ new.node_outputs[n] = st.node_outputs[n]
  /\ new.initial_artifacts = st.initial_artifacts
  /\ \/ /\ new.final_output = st.final_output
        /\ new.frozen = st.frozen
     \/ /\ new.frozen = TRUE
        /\ \E n \in Succeeded(res) :
             /\ PublishedSlot(Graph, n) = Graph.final_output_slot
             /\ new.final_output = res[n].artifact

(* commit_wave as a whole. *)
LEMMA CommitWaveEffect ==
  ASSUME NEW st \in RuntimeStates, NEW res, DOMAIN res \subseteq Nodes(Graph),
         \A n \in Succeeded(res) : res[n].artifact \in ArtifactIds
  PROVE  Commits(st, res, CommitWave(Graph, st, res))
<1> DEFINE recorded == RecordResults(st, res)
           frozen   == FreezeFinalOutput(Graph, recorded, res)
           settled  == SettleConditionalEdges(Graph, frozen, res)
           skipped  == Skip(settled, ImpossibleNodes(Graph, settled))
           new      == [skipped EXCEPT !.wave_id = @ + 1]
<1>0. CommitWave(Graph, st, res) = new
  BY DEF CommitWave
<1>1. /\ recorded \in RuntimeStates
      /\ \A n \in Succeeded(res) : /\ recorded.node_status[n] = "SUCCEEDED"
                                   /\ recorded.node_outputs[n] = res[n].artifact
      /\ \A n \in DOMAIN res \ Succeeded(res) :
           /\ recorded.node_status[n] = "FAILED"
           /\ recorded.node_outputs[n] = st.node_outputs[n]
      /\ \A n \in Nodes(Graph) \ DOMAIN res :
           /\ recorded.node_status[n] = st.node_status[n]
           /\ recorded.node_outputs[n] = st.node_outputs[n]
      /\ recorded.initial_artifacts = st.initial_artifacts
      /\ recorded.final_output = st.final_output
      /\ recorded.frozen = st.frozen
  BY RecordResultsEffect
<1> HIDE DEF recorded
<1>2. /\ frozen \in RuntimeStates
      /\ frozen.node_status = recorded.node_status
      /\ frozen.node_outputs = recorded.node_outputs
      /\ frozen.initial_artifacts = recorded.initial_artifacts
      /\ \/ /\ frozen.final_output = recorded.final_output
            /\ frozen.frozen = recorded.frozen
         \/ /\ frozen.frozen = TRUE
            /\ \E n \in Succeeded(res) :
                 /\ PublishedSlot(Graph, n) = Graph.final_output_slot
                 /\ frozen.final_output = res[n].artifact
  BY <1>1, FreezeEffect
<1> HIDE DEF frozen
<1>3. /\ settled \in RuntimeStates
      /\ settled.node_status = frozen.node_status
      /\ settled.node_outputs = frozen.node_outputs
      /\ settled.initial_artifacts = frozen.initial_artifacts
      /\ settled.final_output = frozen.final_output
      /\ settled.frozen = frozen.frozen
  BY <1>2, SettleEffect
<1> HIDE DEF settled
<1>4. /\ skipped \in RuntimeStates
      /\ \A n \in Nodes(Graph) :
           \/ skipped.node_status[n] = settled.node_status[n]
           \/ settled.node_status[n] = "PENDING" /\ skipped.node_status[n] = "SKIPPED"
      /\ skipped.node_outputs = settled.node_outputs
      /\ skipped.initial_artifacts = settled.initial_artifacts
      /\ skipped.final_output = settled.final_output
      /\ skipped.frozen = settled.frozen
  BY <1>3, SkipEffect
<1> HIDE DEF skipped
<1>5. /\ new \in RuntimeStates
      /\ new.node_status = skipped.node_status
      /\ new.node_outputs = skipped.node_outputs
      /\ new.initial_artifacts = skipped.initial_artifacts
      /\ new.final_output = skipped.final_output
      /\ new.frozen = skipped.frozen
  BY <1>4 DEF RuntimeStates
<1> HIDE DEF new
<1>6. Succeeded(res) \subseteq DOMAIN res
  BY DEF Succeeded
<1> QED BY <1>0, <1>1, <1>2, <1>3, <1>4, <1>5, <1>6 DEF Commits

(* The nodes picked for a wave are pending. *)
LEMMA ReadyArePending ==
  ASSUME NEW st, NEW n \in FindReadyNodes(Graph, st, MaxParallel)
  PROVE  n \in Nodes(Graph) /\ st.node_status[n] = "PENDING"
BY DEF FindReadyNodes, Ready

-----------------------------------------------------------------------------
(* Inductiveness of IInv, one lemma for each action. *)

LEMMA InitIInv == Init => IInv
<1> SUFFICES ASSUME Init PROVE IInv
  OBVIOUS
<1>0. /\ DOMAIN results = {} /\ DOMAIN store = {} /\ todo = {}
      /\ pc = "down" /\ rs = NoState /\ checkpoint = NoState
      /\ boot = 0 /\ contract \in Contracts /\ allow_drift = FALSE
  BY DEF Init
<1>1. TypeOK
  <2>1. boot \in 0 .. MaxBoots
    BY <1>0, MaxBootsAssumption
  <2>2. pc \in Active \cup Stopped /\ pc \in {"down", "aborted", "refused"}
    BY <1>0 DEF Active, Stopped
  <2>3. DOMAIN results \subseteq Nodes(Graph) /\ DOMAIN store \subseteq ArtifactIds
    BY <1>0
  <2>4. todo \subseteq Nodes(Graph)
    BY <1>0
  <2> QED BY <1>0, <2>1, <2>2, <2>3, <2>4 DEF TypeOK
<1> QED BY <1>1 DEF Init, IInv, ResultsInv, PutInv, LoopInv, ExtendsInv, SavedInv,
                    ReferencedArtifactsStored, CheckpointQuiescent, FrozenIffAnswered,
                    Loaded, Saved

LEMMA FreshStateType ==
  ASSUME TypeOK, NEW problem \in ArtifactIds
  PROVE  FreshState(problem) \in RuntimeStates
BY DEF FreshState, RuntimeStates, TypeOK, NodeStatuses, Terminal, Dead

LEMMA StartFreshIInv == IInv /\ StartFresh => IInv'
<1> SUFFICES ASSUME IInv, StartFresh PROVE IInv'
  OBVIOUS
<1> DEFINE problem == [producer |-> NoNode, boot |-> boot']
<1>1. /\ checkpoint = NoState /\ checkpoint' = NoState
      /\ results' = << >> /\ todo' = {} /\ pc' = "loop"
      /\ rs' = FreshState(problem)
      /\ boot' \in 1 .. MaxBoots
      /\ allow_drift' \in BOOLEAN /\ contract' = contract
      /\ problem \in DOMAIN store'
      /\ DOMAIN store' = DOMAIN store \cup {problem}
  BY MaxBootsAssumption, DriftAssumption
     DEF IInv, TypeOK, StartFresh, Start, With
<1>2. problem \in ArtifactIds
  BY <1>1 DEF ArtifactIds
<1>3. rs' \in RuntimeStates
  BY <1>1, <1>2, FreshStateType DEF IInv
<1>4. TypeOK'
  BY <1>1, <1>2, <1>3, SentinelAssumption DEF IInv, TypeOK, Active, Stopped
<1>5. /\ rs'.node_status = [n \in Nodes(Graph) |-> "PENDING"]
      /\ rs'.node_outputs = [n \in Nodes(Graph) |-> NoArtifact]
      /\ rs'.initial_artifacts = [slot \in InitialSlots |-> problem]
      /\ rs'.final_output = NoArtifact
      /\ rs'.frozen = FALSE
  BY <1>1 DEF FreshState
<1> HIDE DEF problem
<1>6. ReferencedArtifactsStored'
  BY <1>1, <1>5 DEF ReferencedArtifactsStored, Referenced, Outputs, InitialIds, Loaded, Saved
<1>7. FrozenIffAnswered'
  BY <1>1, <1>5 DEF FrozenIffAnswered, Loaded, Saved
<1> QED BY <1>1, <1>4, <1>5, <1>6, <1>7
        DEF IInv, ResultsInv, PutInv, LoopInv, ExtendsInv, SavedInv, CheckpointQuiescent, Saved

LEMMA ResumeIInv == IInv /\ Resume => IInv'
<1> SUFFICES ASSUME IInv, Resume PROVE IInv'
  OBVIOUS
<1>1. /\ checkpoint # NoState /\ checkpoint' = checkpoint /\ rs' = checkpoint
      /\ results' = << >> /\ todo' = {}
      /\ pc' = IF checkpoint.frozen THEN "returned" ELSE "loop"
      /\ boot' \in 1 .. MaxBoots
      /\ allow_drift' \in BOOLEAN /\ contract' = contract /\ store' = store
  BY MaxBootsAssumption, DriftAssumption DEF IInv, TypeOK, Resume, Start
<1>2. TypeOK'
  BY <1>1 DEF IInv, TypeOK, Active, Stopped
<1>3. ResultsInv' /\ PutInv' /\ SavedInv'
  BY <1>1 DEF ResultsInv, PutInv, SavedInv
<1>4. LoopInv' /\ ExtendsInv'
  BY <1>1 DEF IInv, LoopInv, ExtendsInv, CheckpointQuiescent, Saved
<1>5. ReferencedArtifactsStored' /\ CheckpointQuiescent' /\ FrozenIffAnswered'
  BY <1>1 DEF IInv, ReferencedArtifactsStored, CheckpointQuiescent, FrozenIffAnswered,
              Loaded, Saved
<1> QED BY <1>2, <1>3, <1>4, <1>5 DEF IInv

LEMMA RefuseDriftIInv == IInv /\ RefuseDrift => IInv'
<1> SUFFICES ASSUME IInv, RefuseDrift PROVE IInv'
  OBVIOUS
<1>1. /\ checkpoint' = checkpoint /\ rs' = NoState /\ pc' = "refused"
      /\ results' = << >> /\ todo' = {}
      /\ boot' \in 1 .. MaxBoots
      /\ allow_drift' \in BOOLEAN /\ contract' = contract /\ store' = store
  BY MaxBootsAssumption, DriftAssumption DEF IInv, TypeOK, RefuseDrift, Start
<1>2. TypeOK'
  BY <1>1 DEF IInv, TypeOK, Active, Stopped
<1> QED BY <1>1, <1>2
        DEF IInv, ResultsInv, PutInv, LoopInv, ExtendsInv, SavedInv,
            ReferencedArtifactsStored, CheckpointQuiescent, FrozenIffAnswered, Loaded, Saved

(* Turning pending nodes into skipped or running ones keeps what the         *)
(* invariants say of a state.                                                *)
LEMMA BeginWaveIInv == IInv /\ BeginWave => IInv'
<1> SUFFICES ASSUME IInv, BeginWave PROVE IInv'
  OBVIOUS
<1>1. PICK skipped \in {AfterSkipping} :
        \E ready \in {FindReadyNodes(Graph, skipped, MaxParallel)} :
          rs' = [skipped EXCEPT !.node_status =
                   [n \in Nodes(Graph) |-> IF n \in ready THEN "RUNNING" ELSE @[n]]]
  BY DEF BeginWave
<1>2. /\ pc = "loop" /\ pc' = "running" /\ results' = << >>
      /\ UNCHANGED <<todo, store, checkpoint, boot, contract, allow_drift>>
  BY DEF BeginWave, config
<1>3. rs \in RuntimeStates /\ rs # NoState /\ ~ rs.frozen
  BY <1>2, SentinelAssumption DEF IInv, TypeOK, LoopInv
<1>4. /\ skipped \in RuntimeStates
      /\ \A n \in Nodes(Graph) :
           \/ skipped.node_status[n] = rs.node_status[n]
           \/ rs.node_status[n] = "PENDING" /\ skipped.node_status[n] = "SKIPPED"
      /\ skipped.node_outputs = rs.node_outputs
      /\ skipped.initial_artifacts = rs.initial_artifacts
      /\ skipped.final_output = rs.final_output
      /\ skipped.frozen = rs.frozen
  BY <1>3, SkipEffect DEF AfterSkipping
<1>5. /\ rs' \in RuntimeStates
      /\ \A n \in Nodes(Graph) :
           \/ rs'.node_status[n] = rs.node_status[n]
           \/ rs.node_status[n] = "PENDING" /\ rs'.node_status[n] \in {"SKIPPED", "RUNNING"}
      /\ rs'.node_outputs = rs.node_outputs
      /\ rs'.initial_artifacts = rs.initial_artifacts
      /\ rs'.final_output = rs.final_output
      /\ rs'.frozen = rs.frozen
  <2> DEFINE ready == FindReadyNodes(Graph, skipped, MaxParallel)
  <2>1. rs' = [skipped EXCEPT !.node_status =
                 [n \in Nodes(Graph) |-> IF n \in ready THEN "RUNNING" ELSE skipped.node_status[n]]]
    BY <1>1
  <2>2. \A n \in ready : skipped.node_status[n] = "PENDING"
    BY ReadyArePending
  <2> HIDE DEF ready
  <2> QED BY <1>4, <2>1, <2>2 DEF RuntimeStates, NodeStatuses, Terminal, Dead
<1>6. TypeOK'
  BY <1>2, <1>3, <1>5, SentinelAssumption DEF IInv, TypeOK, Active, Stopped
<1>7. ResultsInv' /\ PutInv' /\ SavedInv' /\ LoopInv'
  BY <1>2, <1>3, <1>5 DEF IInv, TypeOK, ResultsInv, PutInv, SavedInv, LoopInv
<1>8. ExtendsInv'
  BY <1>2, <1>5 DEF IInv, ExtendsInv, Terminal, Dead
<1>9. ReferencedArtifactsStored' /\ CheckpointQuiescent'
  BY <1>2, <1>3, <1>5 DEF IInv, ReferencedArtifactsStored, CheckpointQuiescent, Loaded, Saved,
                   Referenced, Outputs, InitialIds
<1>10. FrozenIffAnswered'
  BY <1>2, <1>3, <1>5 DEF IInv, FrozenIffAnswered, Loaded, Saved
<1> QED BY <1>6, <1>7, <1>8, <1>9, <1>10 DEF IInv

LEMMA EndLoopIInv == IInv /\ EndLoop => IInv'
<1> SUFFICES ASSUME IInv, EndLoop PROVE IInv'
  OBVIOUS
<1>1. /\ pc = "loop"
      /\ UNCHANGED <<results, todo, store, checkpoint, boot, contract, allow_drift>>
  BY DEF EndLoop, config
<1>2. rs \in RuntimeStates /\ rs # NoState /\ ~ rs.frozen
  BY <1>1, SentinelAssumption DEF IInv, TypeOK, LoopInv
<1>3. ~ CanFinalize(rs)
  BY <1>2 DEF IInv, FrozenIffAnswered, Loaded, CanFinalize
<1>4. rs' = AfterSkipping /\ pc' = "deadlocked"
  BY <1>3 DEF EndLoop
<1>5. /\ rs' \in RuntimeStates
      /\ rs'.node_outputs = rs.node_outputs
      /\ rs'.initial_artifacts = rs.initial_artifacts
      /\ rs'.final_output = rs.final_output
      /\ rs'.frozen = rs.frozen
  BY <1>2, <1>4, SkipEffect DEF AfterSkipping
<1>6. TypeOK'
  BY <1>1, <1>2, <1>4, <1>5, SentinelAssumption DEF IInv, TypeOK, Active, Stopped
<1>7. ResultsInv' /\ PutInv' /\ SavedInv' /\ LoopInv' /\ ExtendsInv'
  BY <1>1, <1>2, <1>4 DEF IInv, TypeOK, ResultsInv, PutInv, SavedInv, LoopInv, ExtendsInv
<1>8. ReferencedArtifactsStored' /\ CheckpointQuiescent'
  BY <1>1, <1>2, <1>5 DEF IInv, ReferencedArtifactsStored, CheckpointQuiescent, Loaded, Saved,
                   Referenced, Outputs, InitialIds
<1>9. FrozenIffAnswered'
  BY <1>1, <1>2, <1>5 DEF IInv, FrozenIffAnswered, Loaded, Saved
<1> QED BY <1>6, <1>7, <1>8, <1>9 DEF IInv

(* Only results changes while the wave runs; the new result names an         *)
(* artifact of this start.                                                   *)
LEMMA FinishIInv ==
  ASSUME IInv, NEW n \in Nodes(Graph), NEW result,
         result.succeeded => result.artifact \in ArtifactIds,
         Finish(n, result)
  PROVE  IInv'
<1>1. /\ pc = "running" /\ n \in Running
      /\ results' = With(results, n, result)
      /\ UNCHANGED <<pc, rs, todo, store, checkpoint, boot, contract, allow_drift>>
  BY DEF Finish, Unfinished, files, config
<1>2. /\ DOMAIN results' = DOMAIN results \cup {n}
      /\ \A m \in DOMAIN results' : (results'[m] = result /\ m = n) \/ results'[m] = results[m]
      /\ \A m \in DOMAIN results' \ {n} : m \in DOMAIN results
      /\ results'[n] = result
  BY <1>1 DEF With
<1>3. TypeOK'
  BY <1>1, <1>2 DEF IInv, TypeOK
<1>4. ResultsInv'
  <2>1. \A m \in DOMAIN results' : results'[m].succeeded => results'[m].artifact \in ArtifactIds
    BY <1>2 DEF IInv, ResultsInv
  <2>2. DOMAIN results' \subseteq Running'
    BY <1>1, <1>2 DEF IInv, ResultsInv, Running
  <2> QED BY <1>1, <2>1, <2>2 DEF IInv, ResultsInv
<1>5. PutInv' /\ LoopInv' /\ ExtendsInv' /\ SavedInv'
  BY <1>1 DEF IInv, PutInv, LoopInv, ExtendsInv, SavedInv
<1>6. ReferencedArtifactsStored' /\ CheckpointQuiescent' /\ FrozenIffAnswered'
  BY <1>1 DEF IInv, ReferencedArtifactsStored, CheckpointQuiescent, FrozenIffAnswered,
              Loaded, Saved
<1> QED BY <1>3, <1>4, <1>5, <1>6 DEF IInv

LEMMA NodeFinishesIInv ==
  ASSUME IInv, NEW n \in Nodes(Graph), NodeFinishes(n)
  PROVE  IInv'
<1>1. CASE NodeSucceeds(n)
  <2>1. PICK payload : Finish(n, [succeeded |-> TRUE, artifact |-> ArtifactId(n), payload |-> payload])
    BY <1>1 DEF NodeSucceeds
  <2>2. rs # NoState
    BY <2>1, SentinelAssumption DEF Finish, IInv, TypeOK
  <2>3. ArtifactId(n) \in ArtifactIds
    BY <2>2 DEF IInv, ResultsInv, ArtifactId, ArtifactIds
  <2> QED BY <2>1, <2>3, FinishIInv
<1>2. CASE NodeFails(n)
  BY <1>2, FinishIInv DEF NodeFails
<1>3. CASE NodeRaises(n)
  <2>1. /\ pc' = "aborted" /\ rs' = NoState /\ DOMAIN results' = {}
        /\ UNCHANGED <<todo, store, checkpoint, boot, contract, allow_drift>>
    BY <1>3 DEF NodeRaises, files, config
  <2>2. TypeOK'
    BY <2>1 DEF IInv, TypeOK, Active, Stopped
  <2> QED BY <2>1, <2>2
          DEF IInv, ResultsInv, PutInv, LoopInv, ExtendsInv, SavedInv,
              ReferencedArtifactsStored, CheckpointQuiescent, FrozenIffAnswered, Loaded, Saved
<1> QED BY <1>1, <1>2, <1>3 DEF NodeFinishes

LEMMA WaveEndsIInv == IInv /\ WaveEnds => IInv'
<1> SUFFICES ASSUME IInv, WaveEnds PROVE IInv'
  OBVIOUS
<1>1. /\ pc = "running" /\ pc' = "putting" /\ todo' = Succeeded(results)
      /\ Running \subseteq DOMAIN results
      /\ UNCHANGED <<rs, results, store, checkpoint, boot, contract, allow_drift>>
  BY DEF WaveEnds, Unfinished, files, config
<1>2. Succeeded(results) \subseteq DOMAIN results
  BY DEF Succeeded
<1>3. TypeOK'
  BY <1>1, <1>2 DEF IInv, TypeOK, Active, Stopped
<1>4. ResultsInv' /\ PutInv' /\ LoopInv' /\ ExtendsInv' /\ SavedInv'
  BY <1>1 DEF IInv, ResultsInv, PutInv, LoopInv, ExtendsInv, SavedInv, Running, Succeeded
<1>5. ReferencedArtifactsStored' /\ CheckpointQuiescent' /\ FrozenIffAnswered'
  BY <1>1 DEF IInv, ReferencedArtifactsStored, CheckpointQuiescent, FrozenIffAnswered,
              Loaded, Saved
<1> QED BY <1>3, <1>4, <1>5 DEF IInv

LEMMA PutArtifactIInv == IInv /\ PutArtifact => IInv'
<1> SUFFICES ASSUME IInv, PutArtifact PROVE IInv'
  OBVIOUS
<1> DEFINE n == FirstTodo
<1>1. n \in todo
  BY FirstNodeExists, GraphAssumption DEF PutArtifact, FirstTodo, IInv, TypeOK
<1> HIDE DEF n
<1>2. /\ pc = "putting" /\ todo' = todo \ {n}
      /\ DOMAIN store' = DOMAIN store \cup {results[n].artifact}
      /\ UNCHANGED <<pc, rs, results, checkpoint, boot, contract, allow_drift>>
  BY DEF PutArtifact, With, config, n
<1>3. n \in Succeeded(results)
  BY <1>1, <1>2 DEF IInv, PutInv
<1>4. results[n].artifact \in ArtifactIds
  BY <1>3 DEF IInv, ResultsInv, Succeeded
<1>5. TypeOK'
  BY <1>2, <1>4 DEF IInv, TypeOK
<1>6. ResultsInv' /\ LoopInv' /\ ExtendsInv' /\ SavedInv'
  BY <1>2 DEF IInv, ResultsInv, LoopInv, ExtendsInv, SavedInv, Running
<1>7. PutInv'
  BY <1>2 DEF IInv, PutInv
<1>8. ReferencedArtifactsStored' /\ CheckpointQuiescent' /\ FrozenIffAnswered'
  BY <1>2 DEF IInv, ReferencedArtifactsStored, CheckpointQuiescent, FrozenIffAnswered,
              Loaded, Saved, Referenced, Outputs, InitialIds
<1> QED BY <1>5, <1>6, <1>7, <1>8 DEF IInv

(* The commit: every node of the wave gets its status, no other node that is *)
(* decided changes, and the outputs that appear are stored.                  *)
LEMMA CommitResultsIInv == IInv /\ CommitResults => IInv'
<1> SUFFICES ASSUME IInv, CommitResults PROVE IInv'
  OBVIOUS
<1>1. /\ pc = "putting" /\ todo = {} /\ pc' = "logging"
      /\ rs' = CommitWave(Graph, rs, results)
      /\ todo' = DOMAIN results
      /\ UNCHANGED <<results, store, checkpoint, boot, contract, allow_drift>>
  BY DEF CommitResults, files, config
<1>2. /\ rs \in RuntimeStates /\ rs # NoState /\ ~ rs.frozen
      /\ DOMAIN results = Running /\ Running \subseteq Nodes(Graph)
      /\ rs.final_output = NoArtifact
  BY <1>1, SentinelAssumption
     DEF IInv, TypeOK, LoopInv, ResultsInv, Running, FrozenIffAnswered, Loaded
<1>3. \A n \in Succeeded(results) : /\ n \in DOMAIN results
                                     /\ results[n].artifact \in ArtifactIds
                                     /\ results[n].artifact \in DOMAIN store
  BY <1>1 DEF IInv, ResultsInv, PutInv, Succeeded
<1>4. Commits(rs, results, rs')
  <2>1. rs \in RuntimeStates /\ DOMAIN results \subseteq Nodes(Graph)
    BY <1>2
  <2>2. \A n \in Succeeded(results) : results[n].artifact \in ArtifactIds
    BY <1>3
  <2>3. Commits(rs, results, CommitWave(Graph, rs, results))
    BY <2>1, <2>2, CommitWaveEffect
  <2> QED BY <1>1, <2>3
<1>5. TypeOK'
  BY <1>1, <1>2, <1>4, SentinelAssumption DEF Commits, IInv, TypeOK, Active, Stopped
<1>6. LoopInv'
  BY <1>1, <1>2, <1>4 DEF Commits, LoopInv, Running
<1>7. ResultsInv' /\ PutInv' /\ SavedInv'
  BY <1>1, <1>2 DEF IInv, ResultsInv, PutInv, SavedInv
<1>8. ExtendsInv'
  <2> SUFFICES ASSUME checkpoint # NoState
               PROVE  /\ ~ checkpoint.frozen
                      /\ \A n \in Nodes(Graph) : checkpoint.node_status[n] \in Terminal =>
                           /\ rs'.node_status[n] = checkpoint.node_status[n]
                           /\ rs'.node_outputs[n] = checkpoint.node_outputs[n]
    BY <1>1 DEF ExtendsInv
  <2>1. /\ ~ checkpoint.frozen
        /\ \A n \in Nodes(Graph) : checkpoint.node_status[n] \in Terminal =>
             /\ rs.node_status[n] = checkpoint.node_status[n]
             /\ rs.node_outputs[n] = checkpoint.node_outputs[n]
    BY <1>1 DEF IInv, ExtendsInv
  <2> SUFFICES ASSUME NEW n \in Nodes(Graph), checkpoint.node_status[n] \in Terminal
               PROVE  /\ rs'.node_status[n] = rs.node_status[n]
                      /\ rs'.node_outputs[n] = rs.node_outputs[n]
    BY <2>1
  <2>2. n \notin DOMAIN results /\ rs.node_status[n] # "PENDING"
    BY <1>2, <2>1 DEF Running, Terminal, Dead
  <2> QED BY <1>4, <2>2 DEF Commits
<1>9. ReferencedArtifactsStored'
  <2>1. Referenced(rs) \subseteq DOMAIN store
    BY <1>2 DEF IInv, ReferencedArtifactsStored, Loaded
  <2>2. \A n \in Nodes(Graph) : \/ rs'.node_outputs[n] = rs.node_outputs[n]
                                \/ rs'.node_outputs[n] \in DOMAIN store
    BY <1>3, <1>4, <1>2 DEF Commits
  <2>3. Referenced(rs') \subseteq DOMAIN store
    BY <1>4, <2>1, <2>2 DEF Commits, Referenced, Outputs, InitialIds
  <2> QED BY <1>1, <2>3 DEF IInv, ReferencedArtifactsStored, Loaded, Saved
<1>10. CheckpointQuiescent'
  BY <1>1 DEF IInv, CheckpointQuiescent, Saved
<1>11. FrozenIffAnswered'
  <2>1. /\ rs'.frozen <=> rs'.final_output # NoArtifact
        /\ rs'.frozen => \E n \in Nodes(Graph) :
                           /\ rs'.node_status[n] = "SUCCEEDED"
                           /\ rs'.node_outputs[n] = rs'.final_output
                           /\ PublishedSlot(Graph, n) = Graph.final_output_slot
    BY <1>2, <1>3, <1>4, SentinelAssumption DEF Commits
  <2> QED BY <1>1, <2>1 DEF IInv, FrozenIffAnswered, Loaded, Saved
<1> QED BY <1>5, <1>6, <1>7, <1>8, <1>9, <1>10, <1>11 DEF IInv

LEMMA SaveCheckpointIInv == IInv /\ SaveCheckpoint => IInv'
<1> SUFFICES ASSUME IInv, SaveCheckpoint PROVE IInv'
  OBVIOUS
<1>1. /\ pc = "logging" /\ pc' = "saved" /\ checkpoint' = rs
      /\ UNCHANGED <<rs, results, todo, store, boot, contract, allow_drift>>
  BY DEF SaveCheckpoint, config
<1>2. rs \in RuntimeStates /\ rs # NoState
  BY <1>1, SentinelAssumption DEF IInv, TypeOK
<1>3. TypeOK'
  BY <1>1, <1>2 DEF IInv, TypeOK, Active, Stopped
<1>4. ResultsInv' /\ PutInv' /\ LoopInv' /\ ExtendsInv' /\ SavedInv'
  BY <1>1 DEF IInv, ResultsInv, PutInv, LoopInv, ExtendsInv, SavedInv
<1>5. ReferencedArtifactsStored' /\ CheckpointQuiescent' /\ FrozenIffAnswered'
  BY <1>1, <1>2 DEF IInv, LoopInv, ReferencedArtifactsStored, CheckpointQuiescent,
                    FrozenIffAnswered, Loaded, Saved
<1> QED BY <1>3, <1>4, <1>5 DEF IInv

(* Writing events and returning change nothing but pc and todo. *)
LEMMA LogIInv == IInv /\ (LogResult \/ LogCheckpoint \/ FreezeReturn) => IInv'
<1> SUFFICES ASSUME IInv, LogResult \/ LogCheckpoint \/ FreezeReturn PROVE IInv'
  OBVIOUS
<1>1. UNCHANGED <<rs, results, store, checkpoint, boot, contract, allow_drift>>
  BY DEF LogResult, LogCheckpoint, FreezeReturn, config
<1>2. todo' \subseteq todo
  BY DEF LogResult, LogCheckpoint, FreezeReturn
<1>3. \/ pc = "logging" /\ pc' = "logging"
      \/ pc = "saved" /\ pc' = "loop" /\ ~ rs.frozen
      \/ pc = "saved" /\ pc' = "finishing" /\ rs.frozen
      \/ pc = "finishing" /\ pc' = "returned"
  BY DEF LogResult, LogCheckpoint, FreezeReturn
<1>4. TypeOK'
  BY <1>1, <1>2, <1>3 DEF IInv, TypeOK, Active, Stopped
<1>5. ResultsInv' /\ PutInv' /\ LoopInv' /\ ExtendsInv' /\ SavedInv'
  BY <1>1, <1>3 DEF IInv, ResultsInv, PutInv, LoopInv, ExtendsInv, SavedInv
<1>6. ReferencedArtifactsStored' /\ CheckpointQuiescent' /\ FrozenIffAnswered'
  BY <1>1 DEF IInv, ReferencedArtifactsStored, CheckpointQuiescent, FrozenIffAnswered,
              Loaded, Saved
<1> QED BY <1>4, <1>5, <1>6 DEF IInv

(* A crash loses the memory and no file; editing contracts touches neither.  *)
LEMMA EnvironmentIInv == IInv /\ (Crash \/ EditContracts) => IInv'
<1>1. IInv /\ Crash => IInv'
  <2> SUFFICES ASSUME IInv, Crash PROVE IInv'
    OBVIOUS
  <2>1. /\ pc' = "down" /\ rs' = NoState /\ DOMAIN results' = {} /\ todo' = {}
        /\ UNCHANGED <<store, checkpoint, boot, contract, allow_drift>>
    BY DEF Crash, files, config
  <2>2. TypeOK'
    BY <2>1 DEF IInv, TypeOK, Active, Stopped
  <2> QED BY <2>1, <2>2
          DEF IInv, ResultsInv, PutInv, LoopInv, ExtendsInv, SavedInv,
              ReferencedArtifactsStored, CheckpointQuiescent, FrozenIffAnswered, Loaded, Saved
<1>2. IInv /\ EditContracts => IInv'
  BY DEF EditContracts, memory, files, IInv, TypeOK, ResultsInv, PutInv, LoopInv, ExtendsInv,
         SavedInv, ReferencedArtifactsStored, CheckpointQuiescent, FrozenIffAnswered,
         Loaded, Saved, Running
<1> QED BY <1>1, <1>2

LEMMA StutterIInv == IInv /\ UNCHANGED vars => IInv'
BY DEF vars, IInv, TypeOK, ResultsInv, PutInv, LoopInv, ExtendsInv,
       SavedInv, ReferencedArtifactsStored, CheckpointQuiescent, FrozenIffAnswered,
       Loaded, Saved, Running

(* IInv holds in every reachable state, with any number of crashes.          *)
THEOREM Invariance == Spec => []IInv
<1>1. Init => IInv
  BY InitIInv
<1>2. IInv /\ [Next]_vars => IInv'
  <2> SUFFICES ASSUME IInv, [Next]_vars PROVE IInv'
    OBVIOUS
  <2>1. CASE StartFresh
    BY <2>1, StartFreshIInv
  <2>2. CASE Resume
    BY <2>2, ResumeIInv
  <2>3. CASE RefuseDrift
    BY <2>3, RefuseDriftIInv
  <2>4. CASE BeginWave
    BY <2>4, BeginWaveIInv
  <2>5. CASE EndLoop
    BY <2>5, EndLoopIInv
  <2>6. CASE \E n \in Nodes(Graph) : NodeFinishes(n)
    BY <2>6, NodeFinishesIInv
  <2>7. CASE WaveEnds
    BY <2>7, WaveEndsIInv
  <2>8. CASE PutArtifact
    BY <2>8, PutArtifactIInv
  <2>9. CASE CommitResults
    BY <2>9, CommitResultsIInv
  <2>10. CASE SaveCheckpoint
    BY <2>10, SaveCheckpointIInv
  <2>11. CASE LogResult \/ LogCheckpoint \/ FreezeReturn
    BY <2>11, LogIInv
  <2>12. CASE Crash \/ EditContracts
    BY <2>12, EnvironmentIInv
  <2>13. CASE UNCHANGED vars
    BY <2>13, StutterIInv
  <2> QED BY <2>1, <2>2, <2>3, <2>4, <2>5, <2>6, <2>7, <2>8, <2>9, <2>10, <2>11, <2>12, <2>13
          DEF Next, Commit
<1> QED BY <1>1, <1>2, PTL DEF Spec

-----------------------------------------------------------------------------
(* The properties the runs check, for every value of the constants. *)

(* Every variable keeps its kind. *)
THEOREM TypeCorrect == Spec => []TypeOK
BY Invariance, PTL DEF IInv

(* A resume never misses an artifact: checkpoint and memory refer only to    *)
(* stored ones, whenever the process was killed.                             *)
THEOREM ResumeSafe == Spec => []ReferencedArtifactsStored
BY Invariance, PTL DEF IInv

(* No checkpoint holds a running node, which nobody would ever finish.       *)
THEOREM CheckpointsQuiescent == Spec => []CheckpointQuiescent
BY Invariance, PTL DEF IInv

(* Frozen states are exactly those with an answer from a node that           *)
(* succeeded on the final slot.                                              *)
THEOREM AnswersFreeze == Spec => []FrozenIffAnswered
BY Invariance, PTL DEF IInv

(* A step changes the checkpoint only by saving a memory that extends it.    *)
LEMMA OnlySaveChangesCheckpoint ==
  ASSUME IInv, [Next]_vars, checkpoint' # checkpoint
  PROVE  SaveCheckpoint
<1>1. CASE UNCHANGED vars
  BY <1>1 DEF vars
<1>2. CASE StartFresh \/ Resume \/ RefuseDrift
  BY <1>2 DEF StartFresh, Resume, RefuseDrift, Start
<1>3. CASE BeginWave \/ EndLoop \/ WaveEnds
  BY <1>3 DEF BeginWave, EndLoop, WaveEnds, files
<1>4. CASE \E n \in Nodes(Graph) : NodeFinishes(n)
  BY <1>4 DEF NodeFinishes, NodeSucceeds, NodeFails, NodeRaises, Finish, files
<1>5. CASE PutArtifact \/ CommitResults \/ LogResult \/ LogCheckpoint \/ FreezeReturn
  BY <1>5 DEF PutArtifact, CommitResults, LogResult, LogCheckpoint, FreezeReturn, files
<1>6. CASE Crash \/ EditContracts
  BY <1>6 DEF Crash, EditContracts, files
<1> QED BY <1>1, <1>2, <1>3, <1>4, <1>5, <1>6 DEF Next, Commit

(* What a checkpoint has decided is never revised, and a frozen checkpoint   *)
(* never changes, over any sequence of steps, crashes and restarts.          *)
THEOREM DecisionsStay == Spec => DecisionsAreFinal
<1>1. IInv /\ [Next]_vars => [checkpoint # NoState => KeepsDecisions(checkpoint, checkpoint')]_vars
  <2> SUFFICES ASSUME IInv, [Next]_vars, checkpoint # NoState
               PROVE  KeepsDecisions(checkpoint, checkpoint')
    OBVIOUS
  <2>1. CASE checkpoint' = checkpoint
    BY <2>1 DEF KeepsDecisions
  <2>2. CASE checkpoint' # checkpoint
    <3>1. pc = "logging" /\ checkpoint' = rs
      BY <2>2, OnlySaveChangesCheckpoint DEF SaveCheckpoint
    <3>2. rs # NoState
      BY <3>1 DEF IInv, TypeOK
    <3> QED BY <3>1, <3>2 DEF IInv, ExtendsInv, KeepsDecisions
  <2> QED BY <2>1, <2>2
<1> QED BY <1>1, Invariance, PTL DEF Spec, DecisionsAreFinal

-----------------------------------------------------------------------------
(***************************************************************************)
(* What holds of one state st whose artifacts are in the files kept.       *)
(***************************************************************************)

(* A node has an output exactly when it succeeded, and it is its own.        *)
OutputsOwned(st) ==
  /\ \A n \in Nodes(Graph) :
       /\ st.node_outputs[n] # NoArtifact <=> st.node_status[n] = "SUCCEEDED"
       /\ st.node_outputs[n] # NoArtifact => st.node_outputs[n].producer = n
  /\ \A slot \in InitialSlots : st.initial_artifacts[slot].producer = NoNode

(* The condition of e has been evaluated on what its source put on file.     *)
Taken(kept, st, e) ==
  /\ st.node_status[Source(Graph, e)] = "SUCCEEDED"
  /\ Graph.edges[e].source_output = PublishedSlot(Graph, Source(Graph, e))
  /\ Evaluate(Graph.edges[e].condition, kept[st.node_outputs[Source(Graph, e)]].payload)

(* The two sets of edges say of each conditional edge whether its source     *)
(* succeeded and its condition was met, and nothing else.                    *)
EdgesSettled(kept, st) ==
  \A e \in Edges(Graph) :
    /\ e \in st.active_edges <=> (Conditional(Graph, e) => Taken(kept, st, e))
    /\ e \in st.inactive_edges <=> /\ Conditional(Graph, e)
                                   /\ st.node_status[Source(Graph, e)] = "SUCCEEDED"
                                   /\ ~ Taken(kept, st, e)

(* The artifact id came over the edge e. *)
CameOver(st, e, id) ==
  /\ e \in st.active_edges
  /\ id = OutputOn(Graph, st, e)
  /\ id # NoArtifact

Descends(kept, st, n) ==
  LET parents == kept[st.node_outputs[n]].parents
  IN  /\ DOMAIN parents = InputSlots(Graph, n)
      /\ \A slot \in InputSlots(Graph, n) :
           IF slot \in InitialSlots
           THEN parents[slot] = st.initial_artifacts[slot]
           ELSE \E e \in Incoming(Graph, n, slot) : CameOver(st, e, parents[slot])

(* A skipped node has a slot that nothing can ever arrive on. *)
SkipsForced(st) ==
  \A n \in Nodes(Graph) : st.node_status[n] = "SKIPPED" =>
    \E slot \in InputSlots(Graph, n) \ InitialSlots :
      /\ Incoming(Graph, n, slot) # {}
      /\ \A e \in Incoming(Graph, n, slot) : EdgeIsDead(Graph, st, e)

Sound(kept, st) ==
  /\ OutputsOwned(st)
  /\ EdgesSettled(kept, st)
  /\ \A n \in Nodes(Graph) : st.node_status[n] = "SUCCEEDED" => Descends(kept, st, n)
  /\ SkipsForced(st)

StatesSound == \A st \in Loaded \cup Saved : Sound(store, st)

(* The envelope that PutArtifact writes for the result of n. *)
Envelope(n) == [payload  |-> results[n].payload,
                contract |-> contract,
                wave     |-> rs.wave_id,
                parents  |-> ResolveInputIds(Graph, rs, n)]

(* From the start of a wave to its commit its nodes are ready ones, at most  *)
(* as many as may run, and what is put is what they made.                    *)
WaveInv ==
  /\ \A n \in DOMAIN results : results[n].succeeded => results[n].artifact = ArtifactId(n)
  /\ pc \in {"running", "putting"} =>
       /\ Running # {}
       /\ Cardinality(Running) <= MaxParallel
       /\ \A n \in Running : ResolvedSlots(Graph, rs, n) = InputSlots(Graph, n)
  /\ pc = "putting" =>
       \A n \in Succeeded(results) \ todo : store[results[n].artifact] = Envelope(n)

(* What has been committed in memory, until it is saved, is what the results *)
(* say, and the answer is one of them.                                       *)
CommittedInv ==
  pc = "logging" =>
    /\ todo \subseteq DOMAIN results
    /\ DOMAIN results # {}
    /\ Cardinality(DOMAIN results) <= MaxParallel
    /\ \A n \in DOMAIN results :
         IF results[n].succeeded
         THEN rs.node_status[n] = "SUCCEEDED" /\ rs.node_outputs[n] = results[n].artifact
         ELSE rs.node_status[n] = "FAILED"
    /\ IF FinalProducers(Graph, results) = {}
       THEN rs.final_output = NoArtifact
       ELSE \E n \in FinalProducers(Graph, results) : rs.final_output = results[n].artifact

-----------------------------------------------------------------------------
(* Facts about one state.                                                    *)

(* The edges of a slot are positions of the list of edges, so one is first.  *)
LEMMA FirstEdgeExists ==
  ASSUME NEW E \in SUBSET Edges(Graph), E # {}
  PROVE  FirstEdge(E) \in E
<1>1. E \in SUBSET Nat
  BY GraphAssumption DEF IsGraph
<1>2. PICK e \in E : \A f \in E : e <= f
  BY <1>1, LeastNatural
<1> QED BY <1>2 DEF FirstEdge

(* Both ends of an edge are nodes of the graph. *)
LEMMA EdgeEnds ==
  ASSUME NEW e \in Edges(Graph)
  PROVE  /\ Source(Graph, e) \in Nodes(Graph)
         /\ Graph.edges[e].destination_node \in Nodes(Graph)
         /\ Graph.edges[e].destination_input
              \in InputSlots(Graph, Graph.edges[e].destination_node)
BY GraphAssumption DEF IsGraph, Source

(* An edge that carries something leaves a node that has an output. *)
LEMMA OutputOnSource ==
  ASSUME NEW st \in RuntimeStates, NEW e \in Edges(Graph), OutputOn(Graph, st, e) # NoArtifact
  PROVE  /\ OutputOn(Graph, st, e) = st.node_outputs[Source(Graph, e)]
         /\ Graph.edges[e].source_output = PublishedSlot(Graph, Source(Graph, e))
BY DEF OutputOn

(* What holds of a state depends on the files it refers to only. *)
LEMMA SoundOnSameFiles ==
  ASSUME NEW st \in RuntimeStates, NEW kept, NEW later, Sound(kept, st),
         \A id \in Referenced(st) : later[id] = kept[id]
  PROVE  Sound(later, st)
<1>1. \A n \in Nodes(Graph) : st.node_status[n] = "SUCCEEDED" =>
        later[st.node_outputs[n]] = kept[st.node_outputs[n]]
  BY DEF Sound, OutputsOwned, Referenced, Outputs
<1>2. \A e \in Edges(Graph) : Taken(later, st, e) <=> Taken(kept, st, e)
  BY <1>1, EdgeEnds DEF Taken
<1>3. EdgesSettled(later, st)
  BY <1>2 DEF Sound, EdgesSettled
<1>4. \A n \in Nodes(Graph) : st.node_status[n] = "SUCCEEDED" => Descends(later, st, n)
  BY <1>1 DEF Sound, Descends
<1> QED BY <1>3, <1>4 DEF Sound

(* The state new is st with pending nodes set running or skipped. *)
Advances(st, new) ==
  /\ new.node_outputs = st.node_outputs
  /\ new.initial_artifacts = st.initial_artifacts
  /\ new.active_edges = st.active_edges
  /\ new.inactive_edges = st.inactive_edges
  /\ \A n \in Nodes(Graph) :
       \/ new.node_status[n] = st.node_status[n]
       \/ st.node_status[n] = "PENDING" /\ new.node_status[n] = "RUNNING"
       \/ n \in ImpossibleNodes(Graph, st) /\ new.node_status[n] = "SKIPPED"

(* Starting and skipping nodes leaves a sound state sound. *)
LEMMA AdvanceSound ==
  ASSUME NEW st \in RuntimeStates, NEW new \in RuntimeStates, NEW kept,
         Sound(kept, st), Advances(st, new)
  PROVE  Sound(kept, new)
<1>1. \A n \in Nodes(Graph) : new.node_status[n] = "SUCCEEDED" <=> st.node_status[n] = "SUCCEEDED"
  BY DEF Advances, ImpossibleNodes
<1>2. \A n \in Nodes(Graph) : st.node_status[n] \in Dead => new.node_status[n] \in Dead
  BY DEF Advances, ImpossibleNodes, Dead
<1>3. OutputsOwned(new)
  BY <1>1 DEF Sound, OutputsOwned, Advances
<1>4. \A e \in Edges(Graph) : Taken(kept, new, e) <=> Taken(kept, st, e)
  BY <1>1, EdgeEnds DEF Taken, Advances
<1>5. EdgesSettled(kept, new)
  BY <1>1, <1>4, EdgeEnds DEF Sound, EdgesSettled, Advances
<1>6. \A e \in Edges(Graph) : OutputOn(Graph, new, e) = OutputOn(Graph, st, e)
  BY DEF OutputOn, Advances
<1>7. \A n \in Nodes(Graph) : new.node_status[n] = "SUCCEEDED" => Descends(kept, new, n)
  <2> SUFFICES ASSUME NEW n \in Nodes(Graph), new.node_status[n] = "SUCCEEDED"
               PROVE  Descends(kept, new, n)
    OBVIOUS
  <2>1. Descends(kept, st, n)
    BY <1>1 DEF Sound
  <2>2. \A e \in Edges(Graph) : \A id : CameOver(st, e, id) => CameOver(new, e, id)
    BY <1>6 DEF CameOver, Advances
  <2>3. \A slot : Incoming(Graph, n, slot) \subseteq Edges(Graph)
    BY DEF Incoming
  <2> QED BY <2>1, <2>2, <2>3 DEF Descends, Advances
<1>8. \A e \in Edges(Graph) : EdgeIsDead(Graph, st, e) => EdgeIsDead(Graph, new, e)
  BY <1>2, EdgeEnds DEF EdgeIsDead, Advances
<1>9. SkipsForced(new)
  <2> SUFFICES ASSUME NEW n \in Nodes(Graph), new.node_status[n] = "SKIPPED"
               PROVE  \E slot \in InputSlots(Graph, n) \ InitialSlots :
                        /\ Incoming(Graph, n, slot) # {}
                        /\ \A e \in Incoming(Graph, n, slot) : EdgeIsDead(Graph, new, e)
    BY DEF SkipsForced
  <2>1. st.node_status[n] = "SKIPPED" \/ n \in ImpossibleNodes(Graph, st)
    BY DEF Advances
  <2>2. DOMAIN st.initial_artifacts = InitialSlots
    BY DEF RuntimeStates
  <2>3. \E slot \in InputSlots(Graph, n) \ InitialSlots :
          /\ Incoming(Graph, n, slot) # {}
          /\ \A e \in Incoming(Graph, n, slot) : EdgeIsDead(Graph, st, e)
    BY <2>1, <2>2 DEF Sound, SkipsForced, ImpossibleNodes
  <2> QED BY <2>3, <1>8 DEF Incoming
<1> QED BY <1>3, <1>5, <1>7, <1>9 DEF Sound

(* What Skip does, in these terms. *)
LEMMA SkipAdvances ==
  ASSUME NEW st \in RuntimeStates
  PROVE  Advances(st, Skip(st, ImpossibleNodes(Graph, st)))
<1> DEFINE impossible == ImpossibleNodes(Graph, st)
<1> HIDE DEF impossible
<1> QED BY DEF Skip, RuntimeStates, Advances, impossible

-----------------------------------------------------------------------------
(* The commit of a wave.                                                     *)

(* The state of commit_wave before it looks for nodes to skip. *)
Settled(st, res) ==
  SettleConditionalEdges(Graph, FreezeFinalOutput(Graph, RecordResults(st, res), res), res)

(* Recording, freezing and settling edges, taken together.                   *)
LEMMA SettledEffect ==
  ASSUME NEW st \in RuntimeStates, NEW res, DOMAIN res \subseteq Nodes(Graph),
         \A n \in Succeeded(res) : res[n].artifact \in ArtifactIds
  PROVE  LET new == Settled(st, res)
         IN  /\ new \in RuntimeStates
             /\ \A n \in Succeeded(res) : /\ new.node_status[n] = "SUCCEEDED"
                                          /\ new.node_outputs[n] = res[n].artifact
             /\ \A n \in DOMAIN res \ Succeeded(res) :
                  /\ new.node_status[n] = "FAILED"
                  /\ new.node_outputs[n] = st.node_outputs[n]
             /\ \A n \in Nodes(Graph) \ DOMAIN res :
                  /\ new.node_status[n] = st.node_status[n]
                  /\ new.node_outputs[n] = st.node_outputs[n]
             /\ new.initial_artifacts = st.initial_artifacts
             /\ new.contract_hash = st.contract_hash
             /\ \A e \in Edges(Graph) :
                  /\ e \in new.active_edges <=>
                       \/ e \in st.active_edges
                       \/ e \in SettledEdges(Graph, res) /\ EdgeEnabled(Graph, res, e)
                  /\ e \in new.inactive_edges <=>
                       \/ e \in st.inactive_edges
                       \/ e \in SettledEdges(Graph, res) /\ ~ EdgeEnabled(Graph, res, e)
             /\ IF st.frozen \/ FinalProducers(Graph, res) = {}
                THEN new.final_output = st.final_output
                ELSE \E n \in FinalProducers(Graph, res) : new.final_output = res[n].artifact
<1> DEFINE recorded == RecordResults(st, res)
           frozen   == FreezeFinalOutput(Graph, recorded, res)
           settled  == SettleConditionalEdges(Graph, frozen, res)
<1>1. /\ recorded \in RuntimeStates
      /\ \A n \in Succeeded(res) : /\ recorded.node_status[n] = "SUCCEEDED"
                                   /\ recorded.node_outputs[n] = res[n].artifact
      /\ \A n \in DOMAIN res \ Succeeded(res) :
           /\ recorded.node_status[n] = "FAILED"
           /\ recorded.node_outputs[n] = st.node_outputs[n]
      /\ \A n \in Nodes(Graph) \ DOMAIN res :
           /\ recorded.node_status[n] = st.node_status[n]
           /\ recorded.node_outputs[n] = st.node_outputs[n]
      /\ recorded.initial_artifacts = st.initial_artifacts
      /\ recorded.final_output = st.final_output
      /\ recorded.frozen = st.frozen
  BY RecordResultsEffect
<1>2. /\ recorded.active_edges = st.active_edges
      /\ recorded.inactive_edges = st.inactive_edges
      /\ recorded.contract_hash = st.contract_hash
  BY DEF RecordResults, RuntimeStates
<1> HIDE DEF recorded
<1>3. /\ frozen \in RuntimeStates
      /\ frozen.node_status = recorded.node_status
      /\ frozen.node_outputs = recorded.node_outputs
      /\ frozen.initial_artifacts = recorded.initial_artifacts
  BY <1>1, FreezeEffect
<1>4. /\ frozen.active_edges = recorded.active_edges
      /\ frozen.inactive_edges = recorded.inactive_edges
      /\ frozen.contract_hash = recorded.contract_hash
      /\ IF recorded.frozen \/ FinalProducers(Graph, res) = {}
         THEN frozen.final_output = recorded.final_output
         ELSE frozen.final_output
                = res[FirstNode(Graph, FinalProducers(Graph, res))].artifact
  <2> DEFINE first == res[FirstNode(Graph, FinalProducers(Graph, res))].artifact
  <2> HIDE DEF first
  <2> QED BY <1>1 DEF FreezeFinalOutput, RuntimeStates, first
<1>5. FinalProducers(Graph, res) # {} =>
        FirstNode(Graph, FinalProducers(Graph, res)) \in FinalProducers(Graph, res)
  BY FirstNodeExists, GraphAssumption DEF FinalProducers, Succeeded
<1>6. IF st.frozen \/ FinalProducers(Graph, res) = {}
      THEN frozen.final_output = st.final_output
      ELSE \E n \in FinalProducers(Graph, res) : frozen.final_output = res[n].artifact
  BY <1>1, <1>4, <1>5
<1> HIDE DEF frozen
<1>7. /\ settled \in RuntimeStates
      /\ settled.node_status = frozen.node_status
      /\ settled.node_outputs = frozen.node_outputs
      /\ settled.initial_artifacts = frozen.initial_artifacts
      /\ settled.final_output = frozen.final_output
  BY <1>3, SettleEffect
<1>8. /\ settled.contract_hash = frozen.contract_hash
      /\ settled.active_edges = frozen.active_edges
           \cup {e \in SettledEdges(Graph, res) : EdgeEnabled(Graph, res, e)}
      /\ settled.inactive_edges = frozen.inactive_edges
           \cup (SettledEdges(Graph, res)
                   \ {e \in SettledEdges(Graph, res) : EdgeEnabled(Graph, res, e)})
  BY <1>3 DEF SettleConditionalEdges, RuntimeStates
<1> HIDE DEF settled
<1>9. settled = Settled(st, res)
  BY DEF Settled, settled, frozen, recorded
<1> QED BY <1>1, <1>2, <1>3, <1>4, <1>6, <1>7, <1>8, <1>9

(* The results are those of the running nodes, whose inputs were all there,  *)
(* and what the successful ones made is on file.                             *)
Delivered(kept, st, res) ==
  /\ DOMAIN res = {n \in Nodes(Graph) : st.node_status[n] = "RUNNING"}
  /\ \A n \in DOMAIN res : ResolvedSlots(Graph, st, n) = InputSlots(Graph, n)
  /\ \A n \in Succeeded(res) :
       /\ res[n].artifact \in ArtifactIds
       /\ res[n].artifact.producer = n
       /\ kept[res[n].artifact].payload = res[n].payload
       /\ kept[res[n].artifact].parents = ResolveInputIds(Graph, st, n)

(* Each conditional edge out of the wave is settled by what its source made, *)
(* and no other edge is touched.                                             *)
LEMMA SettledEdgesSound ==
  ASSUME NEW st \in RuntimeStates, NEW res, NEW kept,
         Sound(kept, st), Delivered(kept, st, res)
  PROVE  EdgesSettled(kept, Settled(st, res))
<1> DEFINE new == Settled(st, res)
<1>1. DOMAIN res \subseteq Nodes(Graph) /\ \A n \in Succeeded(res) : res[n].artifact \in ArtifactIds
  BY DEF Delivered
<1>2. /\ \A n \in Succeeded(res) : /\ new.node_status[n] = "SUCCEEDED"
                                   /\ new.node_outputs[n] = res[n].artifact
      /\ \A n \in DOMAIN res \ Succeeded(res) : new.node_status[n] = "FAILED"
      /\ \A n \in Nodes(Graph) \ DOMAIN res :
           /\ new.node_status[n] = st.node_status[n]
           /\ new.node_outputs[n] = st.node_outputs[n]
      /\ \A e \in Edges(Graph) :
           /\ e \in new.active_edges <=>
                \/ e \in st.active_edges
                \/ e \in SettledEdges(Graph, res) /\ EdgeEnabled(Graph, res, e)
           /\ e \in new.inactive_edges <=>
                \/ e \in st.inactive_edges
                \/ e \in SettledEdges(Graph, res) /\ ~ EdgeEnabled(Graph, res, e)
  BY <1>1, SettledEffect
<1> HIDE DEF new
<1>3. SUFFICES ASSUME NEW e \in Edges(Graph)
               PROVE  /\ e \in new.active_edges <=> (Conditional(Graph, e) => Taken(kept, new, e))
                      /\ e \in new.inactive_edges <=>
                           /\ Conditional(Graph, e)
                           /\ new.node_status[Source(Graph, e)] = "SUCCEEDED"
                           /\ ~ Taken(kept, new, e)
  BY DEF EdgesSettled, new
<1> DEFINE source == Source(Graph, e)
<1>4. source \in Nodes(Graph)
  BY EdgeEnds
<1>5. /\ e \in st.active_edges <=> (Conditional(Graph, e) => Taken(kept, st, e))
      /\ e \in st.inactive_edges <=> /\ Conditional(Graph, e)
                                     /\ st.node_status[source] = "SUCCEEDED"
                                     /\ ~ Taken(kept, st, e)
  BY DEF Sound, EdgesSettled
<1>6. e \in SettledEdges(Graph, res) <=> Conditional(Graph, e) /\ source \in Succeeded(res)
  BY DEF SettledEdges
<1>7. CASE source \in Succeeded(res)
  <2>1. st.node_status[source] = "RUNNING"
    BY <1>7 DEF Delivered, Succeeded
  <2>2. ~ Taken(kept, st, e)
    BY <2>1 DEF Taken
  <2>3. Taken(kept, new, e) <=> EdgeEnabled(Graph, res, e)
    BY <1>2, <1>7 DEF Taken, EdgeEnabled, Delivered
  <2>4. new.node_status[source] = "SUCCEEDED"
    BY <1>2, <1>7
  <2> QED BY <1>2, <1>5, <1>6, <1>7, <2>1, <2>2, <2>3, <2>4
<1>8. CASE source \notin Succeeded(res)
  <2>1. new.node_status[source] = "SUCCEEDED" <=> st.node_status[source] = "SUCCEEDED"
    BY <1>2, <1>4, <1>8 DEF Delivered
  <2>2. new.node_status[source] = "SUCCEEDED" => new.node_outputs[source] = st.node_outputs[source]
    BY <1>2, <1>4, <1>8
  <2>3. Taken(kept, new, e) <=> Taken(kept, st, e)
    BY <2>1, <2>2 DEF Taken
  <2> QED BY <1>2, <1>5, <1>6, <1>8, <2>1, <2>3
<1> QED BY <1>7, <1>8

(* An output that is there stays, and the edge it went over stays active.    *)
LEMMA SettledKeepsArrivals ==
  ASSUME NEW st \in RuntimeStates, NEW res, NEW kept,
         Sound(kept, st), Delivered(kept, st, res),
         NEW e \in Edges(Graph), NEW id, CameOver(st, e, id)
  PROVE  CameOver(Settled(st, res), e, id)
<1> DEFINE new == Settled(st, res)
<1>1. DOMAIN res \subseteq Nodes(Graph) /\ \A n \in Succeeded(res) : res[n].artifact \in ArtifactIds
  BY DEF Delivered
<1>2. /\ \A n \in Nodes(Graph) \ DOMAIN res : new.node_outputs[n] = st.node_outputs[n]
      /\ e \in st.active_edges => e \in new.active_edges
  BY <1>1, SettledEffect
<1> HIDE DEF new
<1>3. st.node_outputs[Source(Graph, e)] # NoArtifact /\ Source(Graph, e) \in Nodes(Graph)
  BY EdgeEnds, OutputOnSource DEF CameOver
<1>4. Source(Graph, e) \notin DOMAIN res
  BY <1>3 DEF Sound, OutputsOwned, Delivered
<1>5. OutputOn(Graph, new, e) = OutputOn(Graph, st, e)
  BY <1>2, <1>3, <1>4 DEF OutputOn
<1> QED BY <1>2, <1>5 DEF CameOver, new

(* A node whose inputs were all resolved reads, on each of them, an initial  *)
(* artifact or what came over an active edge.                                *)
LEMMA InputsCameOver ==
  ASSUME NEW st \in RuntimeStates, NEW n \in Nodes(Graph),
         ResolvedSlots(Graph, st, n) = InputSlots(Graph, n),
         NEW slot \in InputSlots(Graph, n)
  PROVE  LET id == ResolveInputIds(Graph, st, n)[slot]
         IN  IF slot \in InitialSlots
             THEN id = st.initial_artifacts[slot]
             ELSE \E e \in Incoming(Graph, n, slot) : CameOver(st, e, id)
<1>1. DOMAIN st.initial_artifacts = InitialSlots
  BY DEF RuntimeStates
<1>2. CASE slot \in InitialSlots
  BY <1>1, <1>2 DEF ResolveInputIds
<1>3. CASE slot \notin InitialSlots
  <2> DEFINE supplying == Supplying(Graph, st, n, slot)
  <2>1. supplying # {} /\ supplying \in SUBSET Edges(Graph)
    BY <1>1, <1>3 DEF ResolvedSlots, Supplying, Incoming
  <2>2. FirstEdge(supplying) \in supplying
    BY <2>1, FirstEdgeExists
  <2>3. ResolveInputIds(Graph, st, n)[slot] = OutputOn(Graph, st, FirstEdge(supplying))
    BY <1>1, <1>3 DEF ResolveInputIds
  <2> HIDE DEF supplying
  <2>4. CameOver(st, FirstEdge(supplying), OutputOn(Graph, st, FirstEdge(supplying)))
    BY <2>2 DEF CameOver, Supplying, supplying
  <2>5. FirstEdge(supplying) \in Incoming(Graph, n, slot)
    BY <2>2 DEF Supplying, supplying
  <2> QED BY <1>3, <2>3, <2>4, <2>5
<1> QED BY <1>2, <1>3

(* The state before the skips of commit_wave is sound on what was put.       *)
LEMMA SettledSound ==
  ASSUME NEW st \in RuntimeStates, NEW res, NEW kept,
         Sound(kept, st), Delivered(kept, st, res)
  PROVE  Sound(kept, Settled(st, res))
<1> DEFINE new == Settled(st, res)
<1>1. DOMAIN res \subseteq Nodes(Graph) /\ \A n \in Succeeded(res) : res[n].artifact \in ArtifactIds
  BY DEF Delivered
<1>2. /\ new \in RuntimeStates
      /\ \A n \in Succeeded(res) : /\ new.node_status[n] = "SUCCEEDED"
                                   /\ new.node_outputs[n] = res[n].artifact
      /\ \A n \in DOMAIN res \ Succeeded(res) : /\ new.node_status[n] = "FAILED"
                                                /\ new.node_outputs[n] = st.node_outputs[n]
      /\ \A n \in Nodes(Graph) \ DOMAIN res :
           /\ new.node_status[n] = st.node_status[n]
           /\ new.node_outputs[n] = st.node_outputs[n]
      /\ new.initial_artifacts = st.initial_artifacts
      /\ \A e \in Edges(Graph) : e \in st.inactive_edges => e \in new.inactive_edges
  BY <1>1, SettledEffect
<1>3. EdgesSettled(kept, new)
  BY SettledEdgesSound
<1>4. \A e \in Edges(Graph) : \A id : CameOver(st, e, id) => CameOver(new, e, id)
  BY SettledKeepsArrivals
<1> HIDE DEF new
<1>5. /\ \A n \in DOMAIN res : st.node_status[n] = "RUNNING"
      /\ \A n \in Succeeded(res) : n \in DOMAIN res /\ res[n].artifact.producer = n
      /\ \A n \in Nodes(Graph) : st.node_outputs[n] # NoArtifact <=> st.node_status[n] = "SUCCEEDED"
  BY DEF Delivered, Succeeded, Sound, OutputsOwned
<1>6. OutputsOwned(new)
  <2> SUFFICES ASSUME NEW n \in Nodes(Graph)
               PROVE  /\ new.node_outputs[n] # NoArtifact <=> new.node_status[n] = "SUCCEEDED"
                      /\ new.node_outputs[n] # NoArtifact => new.node_outputs[n].producer = n
    BY <1>2 DEF OutputsOwned, Sound
  <2>1. st.node_outputs[n] # NoArtifact => st.node_outputs[n].producer = n
    BY DEF Sound, OutputsOwned
  <2>2. CASE n \in Succeeded(res)
    BY <1>1, <1>2, <1>5, <2>2, SentinelAssumption
  <2>3. CASE n \in DOMAIN res \ Succeeded(res)
    BY <1>2, <1>5, <2>3
  <2>4. CASE n \notin DOMAIN res
    BY <1>2, <1>5, <2>1, <2>4
  <2> QED BY <2>2, <2>3, <2>4
<1>7. \A n \in Nodes(Graph) : new.node_status[n] = "SUCCEEDED" => Descends(kept, new, n)
  <2> SUFFICES ASSUME NEW n \in Nodes(Graph), new.node_status[n] = "SUCCEEDED"
               PROVE  Descends(kept, new, n)
    OBVIOUS
  <2>0. \A slot : Incoming(Graph, n, slot) \subseteq Edges(Graph)
    BY DEF Incoming
  <2>1. CASE n \in Succeeded(res)
    <3>1. kept[new.node_outputs[n]].parents = ResolveInputIds(Graph, st, n)
      BY <1>2, <2>1 DEF Delivered
    <3>2. ResolvedSlots(Graph, st, n) = InputSlots(Graph, n)
      BY <1>5, <2>1 DEF Delivered
    <3>3. DOMAIN ResolveInputIds(Graph, st, n) = InputSlots(Graph, n)
      BY <3>2 DEF ResolveInputIds
    <3>4. \A slot \in InputSlots(Graph, n) :
            LET id == ResolveInputIds(Graph, st, n)[slot]
            IN  IF slot \in InitialSlots
                THEN id = st.initial_artifacts[slot]
                ELSE \E e \in Incoming(Graph, n, slot) : CameOver(st, e, id)
      BY <3>2, InputsCameOver
    <3> QED BY <1>2, <1>4, <2>0, <3>1, <3>3, <3>4 DEF Descends
  <2>2. CASE n \notin Succeeded(res)
    <3>1. n \notin DOMAIN res
      BY <1>2, <2>2
    <3>2. Descends(kept, st, n) /\ new.node_outputs[n] = st.node_outputs[n]
      BY <1>2, <3>1 DEF Sound
    <3> QED BY <1>2, <1>4, <2>0, <3>2 DEF Descends
  <2> QED BY <2>1, <2>2
<1>8. SkipsForced(new)
  <2>1. \A n \in Nodes(Graph) : st.node_status[n] \in Dead => new.node_status[n] = st.node_status[n]
    BY <1>2, <1>5 DEF Dead
  <2>2. \A e \in Edges(Graph) : EdgeIsDead(Graph, st, e) => EdgeIsDead(Graph, new, e)
    BY <1>2, <2>1, EdgeEnds DEF EdgeIsDead
  <2>3. \A n \in Nodes(Graph) : new.node_status[n] = "SKIPPED" => st.node_status[n] = "SKIPPED"
    BY <1>2
  <2> QED BY <2>2, <2>3 DEF Sound, SkipsForced, Incoming
<1> QED BY <1>3, <1>6, <1>7, <1>8 DEF Sound, new

(* What a commit leaves, besides what Commits says. *)
CommitsSoundly(kept, st, res, new) ==
  /\ Sound(kept, new)
  /\ new.contract_hash = st.contract_hash
  /\ IF st.frozen \/ FinalProducers(Graph, res) = {}
     THEN new.final_output = st.final_output
     ELSE \E n \in FinalProducers(Graph, res) : new.final_output = res[n].artifact

(* A commit of what was delivered leaves a sound state. *)
LEMMA CommitSound ==
  ASSUME NEW st \in RuntimeStates, NEW res, NEW kept,
         Sound(kept, st), Delivered(kept, st, res)
  PROVE  CommitsSoundly(kept, st, res, CommitWave(Graph, st, res))
<1> DEFINE settled == Settled(st, res)
           skipped == Skip(settled, ImpossibleNodes(Graph, settled))
           new     == [skipped EXCEPT !.wave_id = @ + 1]
<1>1. CommitWave(Graph, st, res) = new
  BY DEF CommitWave, Settled
<1>2. DOMAIN res \subseteq Nodes(Graph) /\ \A n \in Succeeded(res) : res[n].artifact \in ArtifactIds
  BY DEF Delivered
<1>3. /\ settled \in RuntimeStates
      /\ settled.contract_hash = st.contract_hash
      /\ IF st.frozen \/ FinalProducers(Graph, res) = {}
         THEN settled.final_output = st.final_output
         ELSE \E n \in FinalProducers(Graph, res) : settled.final_output = res[n].artifact
  BY <1>2, SettledEffect
<1>4. Sound(kept, settled)
  BY SettledSound
<1> HIDE DEF settled
<1>5. skipped \in RuntimeStates /\ skipped.final_output = settled.final_output
  BY <1>3, SkipEffect
<1>6. Advances(settled, skipped)
  BY <1>3, SkipAdvances
<1>7. skipped.contract_hash = settled.contract_hash
  BY <1>3 DEF Skip, RuntimeStates
<1> HIDE DEF skipped
<1>8. /\ new \in RuntimeStates
      /\ new.final_output = skipped.final_output
      /\ new.contract_hash = skipped.contract_hash
      /\ Advances(settled, new)
  BY <1>5, <1>6 DEF RuntimeStates, Advances
<1> HIDE DEF new
<1>9. Sound(kept, new)
  BY <1>3, <1>4, <1>8, AdvanceSound
<1> QED BY <1>1, <1>3, <1>5, <1>7, <1>8, <1>9 DEF CommitsSoundly

-----------------------------------------------------------------------------
(* The invariant of the lineage, one lemma for each action.                  *)

LineageInv == StatesSound /\ WaveInv /\ CommittedInv

(* The state in memory and that of the checkpoint are states. *)
LEMMA StatesTyped ==
  ASSUME IInv, NEW st \in Loaded \cup Saved
  PROVE  st \in RuntimeStates
BY DEF IInv, TypeOK, Loaded, Saved

LEMMA InitLineage == Init => LineageInv
<1> SUFFICES ASSUME Init PROVE LineageInv
  OBVIOUS
<1>1. DOMAIN results = {} /\ pc = "down" /\ rs = NoState /\ checkpoint = NoState
  BY DEF Init
<1> QED BY <1>1 DEF LineageInv, StatesSound, WaveInv, CommittedInv, Loaded, Saved

(* Nothing of a fresh state is decided yet. *)
LEMMA FreshStateSound ==
  ASSUME NEW problem, problem.producer = NoNode, NEW kept
  PROVE  Sound(kept, FreshState(problem))
<1> DEFINE st == FreshState(problem)
<1>1. /\ st.node_status = [n \in Nodes(Graph) |-> "PENDING"]
      /\ st.node_outputs = [n \in Nodes(Graph) |-> NoArtifact]
      /\ st.initial_artifacts = [slot \in InitialSlots |-> problem]
      /\ st.active_edges = {e \in Edges(Graph) : ~ Conditional(Graph, e)}
      /\ st.inactive_edges = {}
  BY DEF FreshState
<1> HIDE DEF st
<1>2. OutputsOwned(st)
  BY <1>1 DEF OutputsOwned
<1>3. EdgesSettled(kept, st)
  BY <1>1, EdgeEnds DEF EdgesSettled, Taken
<1>4. SkipsForced(st) /\ \A n \in Nodes(Graph) : st.node_status[n] # "SUCCEEDED"
  BY <1>1 DEF SkipsForced
<1> QED BY <1>2, <1>3, <1>4 DEF Sound, st

LEMMA StartLineage ==
  ASSUME IInv, LineageInv, StartFresh \/ Resume \/ RefuseDrift
  PROVE  LineageInv'
<1>1. /\ checkpoint' = checkpoint /\ results' = << >> /\ DOMAIN results' = {}
      /\ pc' \in {"loop", "returned", "refused"}
  BY DEF StartFresh, Resume, RefuseDrift, Start
<1>2. WaveInv' /\ CommittedInv'
  BY <1>1 DEF WaveInv, CommittedInv
<1>3. CASE StartFresh
  <2>1. checkpoint = NoState
    BY <1>3 DEF StartFresh
  <2>2. rs' = FreshState([producer |-> NoNode, boot |-> boot'])
    BY <1>3 DEF StartFresh
  <2>3. Sound(store', rs')
    BY <2>2, FreshStateSound
  <2>4. StatesSound'
    BY <1>1, <2>1, <2>3 DEF StatesSound, Loaded, Saved
  <2> QED BY <1>2, <2>4 DEF LineageInv
<1>4. CASE Resume \/ RefuseDrift
  <2>1. rs' \in {checkpoint, NoState} /\ store' = store
    BY <1>4 DEF Resume, RefuseDrift
  <2>2. StatesSound'
    BY <1>1, <2>1 DEF LineageInv, StatesSound, Loaded, Saved
  <2> QED BY <1>2, <2>2 DEF LineageInv
<1> QED BY <1>3, <1>4

(* Skipping in the loop, then setting the ready nodes running. *)
LEMMA BeginWaveLineage ==
  ASSUME IInv, LineageInv, BeginWave
  PROVE  LineageInv'
<1> DEFINE skipped == AfterSkipping
           ready   == FindReadyNodes(Graph, skipped, MaxParallel)
<1>1. /\ pc = "loop" /\ pc' = "running" /\ results' = << >> /\ DOMAIN results' = {}
      /\ UNCHANGED <<store, checkpoint>>
      /\ ready # {}
      /\ rs' = [skipped EXCEPT !.node_status =
                  [n \in Nodes(Graph) |-> IF n \in ready THEN "RUNNING" ELSE @[n]]]
  BY DEF BeginWave
<1>2. rs \in RuntimeStates /\ rs # NoState /\ Sound(store, rs)
  BY <1>1, SentinelAssumption DEF IInv, TypeOK, LineageInv, StatesSound, Loaded
<1>3. skipped \in RuntimeStates /\ Advances(rs, skipped)
  BY <1>2, SkipEffect, SkipAdvances DEF AfterSkipping
<1>4. \A n \in Nodes(Graph) : skipped.node_status[n] # "RUNNING"
  <2>1. \A n \in Nodes(Graph) : \/ skipped.node_status[n] = rs.node_status[n]
                                \/ skipped.node_status[n] = "SKIPPED"
    BY <1>2, SkipEffect DEF AfterSkipping
  <2> QED BY <1>1, <2>1 DEF IInv, LoopInv
<1>5. \A n \in ready : /\ n \in Nodes(Graph)
                       /\ skipped.node_status[n] = "PENDING"
                       /\ ResolvedSlots(Graph, skipped, n) = InputSlots(Graph, n)
  BY DEF FindReadyNodes, Ready
<1>6. IsFiniteSet(ready) /\ Cardinality(ready) <= MaxParallel
  BY ReadyWithinLimit, GraphAssumption, MaxParallelAssumption
<1>7. Sound(store, skipped)
  BY <1>2, <1>3, AdvanceSound
<1> HIDE DEF skipped, ready
<1>8. /\ rs' \in RuntimeStates
      /\ rs'.node_outputs = skipped.node_outputs
      /\ rs'.initial_artifacts = skipped.initial_artifacts
      /\ rs'.active_edges = skipped.active_edges
      /\ rs'.inactive_edges = skipped.inactive_edges
      /\ \A n \in Nodes(Graph) :
           rs'.node_status[n] = IF n \in ready THEN "RUNNING" ELSE skipped.node_status[n]
  BY <1>1, <1>3 DEF RuntimeStates, NodeStatuses
<1>9. Sound(store, rs')
  BY <1>3, <1>5, <1>7, <1>8, AdvanceSound DEF Advances
<1>10. StatesSound'
  BY <1>1, <1>9 DEF LineageInv, StatesSound, Loaded, Saved
<1>11. Running' = ready
  BY <1>4, <1>5, <1>8 DEF Running
<1>12. \A n \in ready : ResolvedSlots(Graph, rs', n) = ResolvedSlots(Graph, skipped, n)
  BY <1>8 DEF ResolvedSlots, Supplying, OutputOn
<1>13. WaveInv'
  BY <1>1, <1>5, <1>6, <1>11, <1>12 DEF WaveInv
<1> QED BY <1>1, <1>10, <1>13 DEF LineageInv, CommittedInv

LEMMA EndLoopLineage ==
  ASSUME IInv, LineageInv, EndLoop
  PROVE  LineageInv'
<1>1. /\ pc = "loop" /\ pc' \in {"finishing", "deadlocked"}
      /\ UNCHANGED <<results, todo, store, checkpoint, boot, contract>>
  BY DEF EndLoop, config
<1>2. rs \in RuntimeStates /\ rs # NoState /\ Sound(store, rs) /\ ~ rs.frozen
  BY <1>1, SentinelAssumption DEF IInv, TypeOK, LineageInv, StatesSound, Loaded, LoopInv
<1>3. ~ CanFinalize(rs)
  BY <1>2 DEF IInv, FrozenIffAnswered, Loaded, CanFinalize
<1>4. rs' = AfterSkipping
  BY <1>3 DEF EndLoop
<1>5. rs' \in RuntimeStates /\ Advances(rs, rs')
  BY <1>2, <1>4, SkipEffect, SkipAdvances DEF AfterSkipping
<1>6. Sound(store, rs')
  BY <1>2, <1>5, AdvanceSound
<1>7. StatesSound'
  BY <1>1, <1>6 DEF LineageInv, StatesSound, Loaded, Saved
<1>8. WaveInv' /\ CommittedInv'
  BY <1>1 DEF LineageInv, WaveInv, CommittedInv, ArtifactId
<1> QED BY <1>7, <1>8 DEF LineageInv

LEMMA NodeFinishesLineage ==
  ASSUME IInv, LineageInv, NEW n \in Nodes(Graph), NodeFinishes(n)
  PROVE  LineageInv'
<1>1. CASE NodeRaises(n)
  <2>1. /\ pc' = "aborted" /\ rs' = NoState /\ DOMAIN results' = {}
        /\ UNCHANGED <<store, checkpoint>>
    BY <1>1 DEF NodeRaises, files
  <2> QED BY <2>1 DEF LineageInv, StatesSound, WaveInv, CommittedInv, Loaded, Saved
<1>2. ASSUME NEW result, Finish(n, result), result.succeeded => result.artifact = ArtifactId(n)
      PROVE  LineageInv'
  <2>1. /\ pc = "running" /\ results' = With(results, n, result)
        /\ UNCHANGED <<pc, rs, todo, store, checkpoint, boot, contract>>
    BY <1>2 DEF Finish, files, config
  <2>2. \A m \in DOMAIN results' : \/ m = n /\ results'[m] = result
                                   \/ m \in DOMAIN results /\ results'[m] = results[m]
    BY <2>1 DEF With
  <2>3. \A m \in DOMAIN results' : results'[m].succeeded => results'[m].artifact = ArtifactId(m)
    BY <1>2, <2>2 DEF LineageInv, WaveInv
  <2>4. WaveInv'
    BY <2>1, <2>3 DEF LineageInv, WaveInv, ArtifactId, Running
  <2> QED BY <2>1, <2>4 DEF LineageInv, StatesSound, CommittedInv, Loaded, Saved
<1>3. CASE NodeSucceeds(n)
  BY <1>2, <1>3 DEF NodeSucceeds
<1>4. CASE NodeFails(n)
  BY <1>2, <1>4 DEF NodeFails
<1> QED BY <1>1, <1>3, <1>4 DEF NodeFinishes

LEMMA WaveEndsLineage ==
  ASSUME IInv, LineageInv, WaveEnds
  PROVE  LineageInv'
<1>1. /\ pc = "running" /\ pc' = "putting" /\ todo' = Succeeded(results)
      /\ UNCHANGED <<rs, results, store, checkpoint, boot, contract>>
  BY DEF WaveEnds, files, config
<1> QED BY <1>1 DEF LineageInv, StatesSound, WaveInv, CommittedInv, Loaded, Saved,
                    Running, ArtifactId, Succeeded

(* A node that is running has no output yet, in memory or in the checkpoint, *)
(* so that the file of its result is one that nothing refers to.             *)
LEMMA PutIsNew ==
  ASSUME IInv, LineageInv, pc = "putting", NEW n \in DOMAIN results,
         NEW st \in Loaded \cup Saved
  PROVE  ArtifactId(n) \notin Referenced(st)
<1>1. rs \in RuntimeStates /\ rs # NoState /\ n \in Nodes(Graph)
  BY SentinelAssumption DEF IInv, TypeOK
<1>2. rs.node_status[n] = "RUNNING"
  BY DEF IInv, ResultsInv, Running
<1>3. st.node_status[n] # "SUCCEEDED"
  BY <1>1, <1>2 DEF Loaded, Saved, IInv, ExtendsInv, Terminal
<1>4. st \in RuntimeStates /\ OutputsOwned(st)
  BY StatesTyped DEF LineageInv, StatesSound, Sound
<1>5. ArtifactId(n).producer = n /\ ArtifactId(n) \in ArtifactIds
  BY <1>1 DEF ArtifactId, ArtifactIds, IInv, ResultsInv
<1> HIDE DEF ArtifactId
<1>6. ArtifactId(n) \notin Outputs(st)
  <2> SUFFICES ASSUME NEW m \in Nodes(Graph), st.node_outputs[m] = ArtifactId(n)
               PROVE  FALSE
    BY DEF Outputs
  <2>1. st.node_outputs[m] # NoArtifact
    BY <1>5, SentinelAssumption
  <2>2. m = n /\ st.node_status[m] = "SUCCEEDED"
    BY <1>4, <1>5, <2>1 DEF OutputsOwned
  <2> QED BY <1>3, <2>2
<1>7. ArtifactId(n) \notin InitialIds(st)
  BY <1>1, <1>4, <1>5, NoNodeAssumption DEF InitialIds, OutputsOwned, RuntimeStates
<1> QED BY <1>6, <1>7 DEF Referenced

(* What a step of the put loop does to the store. *)
LEMMA PutEffect ==
  ASSUME IInv, LineageInv, PutArtifact
  PROVE  /\ FirstTodo \in todo /\ FirstTodo \in Succeeded(results)
         /\ todo' = todo \ {FirstTodo}
         /\ results[FirstTodo].artifact = ArtifactId(FirstTodo)
         /\ store' = With(store, ArtifactId(FirstTodo), Envelope(FirstTodo))
         /\ pc = "putting"
         /\ UNCHANGED <<pc, rs, results, checkpoint, events, boot, contract, allow_drift>>
<1>1. FirstTodo \in todo
  BY FirstNodeExists, GraphAssumption DEF PutArtifact, FirstTodo, IInv, TypeOK
<1>2. pc = "putting"
  BY DEF PutArtifact
<1>3. FirstTodo \in Succeeded(results)
  BY <1>1, <1>2 DEF IInv, PutInv
<1>4. results[FirstTodo].artifact = ArtifactId(FirstTodo)
  BY <1>3 DEF LineageInv, WaveInv, Succeeded
<1>5. store' = With(store, ArtifactId(FirstTodo), Envelope(FirstTodo))
  BY <1>4 DEF PutArtifact, Envelope
<1> QED BY <1>1, <1>2, <1>3, <1>4, <1>5 DEF PutArtifact, config

LEMMA PutArtifactLineage ==
  ASSUME IInv, LineageInv, PutArtifact
  PROVE  LineageInv'
<1> DEFINE n  == FirstTodo
           id == ArtifactId(n)
<1>1. /\ n \in todo /\ n \in Succeeded(results)
      /\ todo' = todo \ {n}
      /\ store' = With(store, id, Envelope(n))
      /\ pc = "putting"
      /\ UNCHANGED <<pc, rs, results, checkpoint, events, boot, contract, allow_drift>>
  BY PutEffect
<1> HIDE DEF n
<1>2. n \in DOMAIN results
  BY <1>1 DEF Succeeded
<1>3. \A st \in Loaded \cup Saved : Referenced(st) \subseteq DOMAIN store /\ id \notin Referenced(st)
  BY <1>1, <1>2, PutIsNew DEF IInv, ReferencedArtifactsStored
<1> HIDE DEF id
<1>4. /\ store'[id] = Envelope(n)
      /\ \A other \in DOMAIN store \ {id} : store'[other] = store[other]
  BY <1>1 DEF With
<1>5. StatesSound'
  <2> SUFFICES ASSUME NEW st \in Loaded \cup Saved PROVE Sound(store', st)
    BY <1>1 DEF StatesSound, Loaded, Saved
  <2>1. \A other \in Referenced(st) : store'[other] = store[other]
    BY <1>3, <1>4
  <2> QED BY <2>1, StatesTyped, SoundOnSameFiles DEF LineageInv, StatesSound
<1>6. ASSUME NEW m \in Succeeded(results') \ todo'
      PROVE  store'[results'[m].artifact] = Envelope(m)'
  <2>1. m \in Succeeded(results) /\ results'[m].artifact = ArtifactId(m) /\ Envelope(m)' = Envelope(m)
    BY <1>1 DEF LineageInv, WaveInv, Succeeded, Envelope
  <2>2. CASE m = n
    BY <1>4, <2>1, <2>2 DEF id
  <2>3. CASE m # n
    <3>1. ArtifactId(m) # id
      BY <2>3 DEF ArtifactId, id
    <3>2. m \in Succeeded(results) \ todo
      BY <1>1, <1>6, <2>3
    <3>3. ArtifactId(m) \in DOMAIN store /\ store[ArtifactId(m)] = Envelope(m)
      BY <1>1, <2>1, <3>2 DEF IInv, PutInv, LineageInv, WaveInv
    <3> QED BY <1>4, <2>1, <3>1, <3>3
  <2> QED BY <2>2, <2>3
<1>7. WaveInv'
  BY <1>1, <1>6 DEF LineageInv, WaveInv, Running, ArtifactId
<1>8. CommittedInv'
  BY <1>1 DEF CommittedInv
<1> QED BY <1>5, <1>7, <1>8 DEF LineageInv

(* After the put loop the store holds every envelope of the wave. *)
LEMMA WaveDelivered ==
  ASSUME IInv, LineageInv, CommitResults
  PROVE  Delivered(store, rs, results)
<1>1. pc = "putting" /\ todo = {}
  BY DEF CommitResults
<1>2. DOMAIN results = Running
  BY <1>1 DEF IInv, ResultsInv
<1>3. \A n \in DOMAIN results : ResolvedSlots(Graph, rs, n) = InputSlots(Graph, n)
  BY <1>1, <1>2 DEF LineageInv, WaveInv
<1>4. ASSUME NEW n \in Succeeded(results)
      PROVE  /\ results[n].artifact \in ArtifactIds
             /\ results[n].artifact.producer = n
             /\ store[results[n].artifact].payload = results[n].payload
             /\ store[results[n].artifact].parents = ResolveInputIds(Graph, rs, n)
  <2>1. n \in DOMAIN results /\ results[n].succeeded
    BY DEF Succeeded
  <2>2. results[n].artifact = ArtifactId(n) /\ results[n].artifact \in ArtifactIds
    BY <2>1 DEF LineageInv, WaveInv, IInv, ResultsInv
  <2>3. store[results[n].artifact] = Envelope(n)
    BY <1>1 DEF LineageInv, WaveInv
  <2> QED BY <2>2, <2>3 DEF Envelope, ArtifactId
<1> QED BY <1>2, <1>3, <1>4 DEF Delivered, Running

LEMMA CommitResultsLineage ==
  ASSUME IInv, LineageInv, CommitResults
  PROVE  LineageInv'
<1>1. /\ pc = "putting" /\ pc' = "logging" /\ todo' = DOMAIN results
      /\ rs' = CommitWave(Graph, rs, results)
      /\ UNCHANGED <<results, store, checkpoint, boot, contract>>
  BY DEF CommitResults, files, config
<1>2. rs \in RuntimeStates /\ rs # NoState /\ ~ rs.frozen /\ rs.final_output = NoArtifact
  BY <1>1, SentinelAssumption DEF IInv, TypeOK, LoopInv, FrozenIffAnswered, Loaded
<1>3. Delivered(store, rs, results) /\ Sound(store, rs)
  BY <1>2, WaveDelivered DEF LineageInv, StatesSound, Loaded
<1>4. /\ DOMAIN results \subseteq Nodes(Graph)
      /\ \A n \in Succeeded(results) : results[n].artifact \in ArtifactIds
  BY <1>3 DEF Delivered
<1>5. Commits(rs, results, rs') /\ CommitsSoundly(store, rs, results, rs')
  BY <1>1, <1>2, <1>3, <1>4, CommitWaveEffect, CommitSound
<1>6. StatesSound'
  BY <1>1, <1>5 DEF CommitsSoundly, LineageInv, StatesSound, Loaded, Saved
<1>7. WaveInv'
  BY <1>1 DEF LineageInv, WaveInv, ArtifactId
<1>8. DOMAIN results # {} /\ Cardinality(DOMAIN results) <= MaxParallel
  BY <1>1 DEF IInv, ResultsInv, LineageInv, WaveInv
<1>9. \A n \in DOMAIN results :
        IF results[n].succeeded
        THEN rs'.node_status[n] = "SUCCEEDED" /\ rs'.node_outputs[n] = results[n].artifact
        ELSE rs'.node_status[n] = "FAILED"
  BY <1>5 DEF Commits, Succeeded
<1>10. IF FinalProducers(Graph, results) = {}
       THEN rs'.final_output = NoArtifact
       ELSE \E n \in FinalProducers(Graph, results) : rs'.final_output = results[n].artifact
  BY <1>2, <1>5 DEF CommitsSoundly
<1>11. CommittedInv'
  BY <1>1, <1>8, <1>9, <1>10 DEF CommittedInv
<1> QED BY <1>6, <1>7, <1>11 DEF LineageInv

(* Writing the log and the checkpoint. *)
LEMMA LogLineage ==
  ASSUME IInv, LineageInv, LogResult \/ SaveCheckpoint \/ LogCheckpoint \/ FreezeReturn
  PROVE  LineageInv'
<1>1. /\ checkpoint' \in {checkpoint, rs}
      /\ UNCHANGED <<rs, results, store, boot, contract>>
      /\ pc' \in {"logging", "saved", "loop", "finishing", "returned"}
      /\ pc' = "logging" => pc = "logging" /\ todo' \subseteq todo
  BY DEF LogResult, SaveCheckpoint, LogCheckpoint, FreezeReturn, config
<1>2. rs # NoState
  BY DEF LogResult, SaveCheckpoint, LogCheckpoint, FreezeReturn, IInv, TypeOK
<1>3. StatesSound'
  BY <1>1, <1>2 DEF LineageInv, StatesSound, Loaded, Saved
<1>4. WaveInv'
  BY <1>1 DEF LineageInv, WaveInv, ArtifactId
<1>5. CommittedInv'
  BY <1>1 DEF LineageInv, CommittedInv
<1> QED BY <1>3, <1>4, <1>5 DEF LineageInv

LEMMA EnvironmentLineage ==
  ASSUME IInv, LineageInv, Crash \/ EditContracts \/ UNCHANGED vars
  PROVE  LineageInv'
<1>1. CASE Crash
  <2>1. pc' = "down" /\ rs' = NoState /\ DOMAIN results' = {} /\ UNCHANGED <<store, checkpoint>>
    BY <1>1 DEF Crash, files
  <2> QED BY <2>1 DEF LineageInv, StatesSound, WaveInv, CommittedInv, Loaded, Saved
<1>2. CASE EditContracts
  <2>1. pc \in Stopped /\ UNCHANGED <<pc, rs, results, todo, store, checkpoint, boot>>
    BY <1>2 DEF EditContracts, memory, files
  <2>2. StatesSound' /\ CommittedInv'
    BY <2>1 DEF LineageInv, StatesSound, CommittedInv, Loaded, Saved
  <2>3. WaveInv'
    BY <2>1 DEF LineageInv, WaveInv, ArtifactId, Stopped
  <2> QED BY <2>2, <2>3 DEF LineageInv
<1>3. CASE UNCHANGED vars
  BY <1>3 DEF vars, LineageInv, StatesSound, WaveInv, CommittedInv, Loaded, Saved,
              Running, ArtifactId, Envelope
<1> QED BY <1>1, <1>2, <1>3

(* One step, whichever it is. *)
LEMMA NextLineage ==
  ASSUME IInv, LineageInv, [Next]_vars
  PROVE  LineageInv'
<1>1. CASE StartFresh \/ Resume \/ RefuseDrift
  BY <1>1, StartLineage
<1>2. CASE BeginWave
  BY <1>2, BeginWaveLineage
<1>3. CASE EndLoop
  BY <1>3, EndLoopLineage
<1>4. CASE \E n \in Nodes(Graph) : NodeFinishes(n)
  BY <1>4, NodeFinishesLineage
<1>5. CASE WaveEnds
  BY <1>5, WaveEndsLineage
<1>6. CASE PutArtifact
  BY <1>6, PutArtifactLineage
<1>7. CASE CommitResults
  BY <1>7, CommitResultsLineage
<1>8. CASE LogResult \/ SaveCheckpoint \/ LogCheckpoint \/ FreezeReturn
  BY <1>8, LogLineage
<1>9. CASE Crash \/ EditContracts \/ UNCHANGED vars
  BY <1>9, EnvironmentLineage
<1> QED BY <1>1, <1>2, <1>3, <1>4, <1>5, <1>6, <1>7, <1>8, <1>9 DEF Next, Commit

(* Every state in memory or in the checkpoint is sound, in every reachable   *)
(* state.                                                                    *)
THEOREM LineageInvariance == Spec => []LineageInv
<1>1. Init => LineageInv
  BY InitLineage
<1>2. IInv /\ LineageInv /\ [Next]_vars => LineageInv'
  BY NextLineage
<1> QED BY <1>1, <1>2, Invariance, PTL DEF Spec

(* No committed answer descends from an artifact of a wave that a crash      *)
(* threw away, nor from a branch that was not taken, for every graph.        *)
THEOREM LineageCommitted == Spec => []CommittedLineage
<1>1. LineageInv => CommittedLineage
  <2> SUFFICES ASSUME LineageInv, NEW st \in Loaded \cup Saved, NEW n \in Nodes(Graph),
                      st.node_outputs[n] # NoArtifact
               PROVE  LET parents == store[st.node_outputs[n]].parents
                      IN  /\ DOMAIN parents = InputSlots(Graph, n)
                          /\ \A slot \in DOMAIN parents :
                               IF slot \in InitialSlots
                               THEN parents[slot] = st.initial_artifacts[slot]
                               ELSE \E e \in Incoming(Graph, n, slot) :
                                      /\ parents[slot] = OutputOn(Graph, st, e)
                                      /\ Conditional(Graph, e) =>
                                           Evaluate(Graph.edges[e].condition,
                                                    store[parents[slot]].payload)
    BY DEF CommittedLineage
  <2> DEFINE parents == store[st.node_outputs[n]].parents
  <2>1. Sound(store, st)
    BY DEF LineageInv, StatesSound
  <2>2. Descends(store, st, n)
    BY <2>1 DEF Sound, OutputsOwned
  <2>3. ASSUME NEW slot \in InputSlots(Graph, n) \ InitialSlots
        PROVE  \E e \in Incoming(Graph, n, slot) :
                 /\ parents[slot] = OutputOn(Graph, st, e)
                 /\ Conditional(Graph, e) =>
                      Evaluate(Graph.edges[e].condition, store[parents[slot]].payload)
    <3>1. PICK e \in Incoming(Graph, n, slot) : CameOver(st, e, parents[slot])
      BY <2>2 DEF Descends
    <3>2. e \in Edges(Graph) /\ e \in st.active_edges /\ parents[slot] = OutputOn(Graph, st, e)
      BY <3>1 DEF CameOver, Incoming
    <3>3. parents[slot] = st.node_outputs[Source(Graph, e)]
      BY <3>1, <3>2 DEF CameOver, OutputOn
    <3>4. Conditional(Graph, e) => Taken(store, st, e)
      BY <2>1, <3>2 DEF Sound, EdgesSettled
    <3> QED BY <3>2, <3>3, <3>4 DEF Taken
  <2> HIDE DEF parents
  <2>4. /\ DOMAIN parents = InputSlots(Graph, n)
        /\ \A slot \in InputSlots(Graph, n) :
             slot \in InitialSlots => parents[slot] = st.initial_artifacts[slot]
    BY <2>2 DEF Descends, parents
  <2> QED BY <2>3, <2>4 DEF parents
<1> QED BY <1>1, LineageInvariance, PTL
=============================================================================
