-------------------------- MODULE DurabilityProofs --------------------------
(***************************************************************************)
(* What the files of a task are worth to whoever reads them after a crash, *)
(* for every graph and any number of starts: the log explains the          *)
(* checkpoint, a crash leaves at most one wave of artifacts behind, the    *)
(* configurations do not mix, a deadlock is final, and the checkpoint with *)
(* the store implements DurableTask.  Of alternative branches one runs at  *)
(* most, and a deadlock has a reason.  A summary of the files is off by no *)
(* more than what crashes cost, and the commands find one of the four      *)
(* statuses of TaskOutcomes, changing as these say.                        *)
(***************************************************************************)
EXTENDS RuntimeProofs, TelemetrySummary, TaskOutcomes

(* The log has the event of what st says of n. *)
Explained(log, st, n) ==
  /\ st.node_status[n] = "SUCCEEDED" =>
       \E ev \in log : /\ ev.type = "NODE_COMPLETED"
                       /\ ev.node = n
                       /\ ev.boot = st.node_outputs[n].boot
  /\ st.node_status[n] = "FAILED" =>
       \E ev \in log : ev.type = "NODE_FAILED" /\ ev.node = n

(* Every decision in memory has its event, but for the results still to log. *)
EventInv ==
  /\ \A st \in Saved : \A n \in Nodes(Graph) : Explained(events, st, n)
  /\ pc \in {"loop", "running", "putting", "logging", "saved"} =>
       \A n \in Nodes(Graph) : (pc = "logging" /\ n \in todo) \/ Explained(events, rs, n)

(* What is explained stays so while the log grows and the node is not        *)
(* decided anew.                                                             *)
LEMMA ExplainedStays ==
  ASSUME NEW log, NEW longer, log \subseteq longer, NEW st, NEW new, NEW n,
         Explained(log, st, n),
         \/ new.node_status[n] = st.node_status[n]
         \/ new.node_status[n] \notin {"SUCCEEDED", "FAILED"},
         new.node_outputs[n] = st.node_outputs[n]
  PROVE  Explained(longer, new, n)
BY DEF Explained

LEMMA InitEvents == Init => EventInv
BY DEF Init, EventInv, Saved

(* Nothing of a fresh state asks for an event; a resumed one has them. *)
LEMMA StartEvents ==
  ASSUME EventInv, StartFresh \/ Resume \/ RefuseDrift
  PROVE  EventInv'
<1>1. checkpoint' = checkpoint /\ events' = events /\ pc' \in {"loop", "returned", "refused"}
  BY DEF StartFresh, Resume, RefuseDrift, Start
<1>2. \A st \in Saved' : \A n \in Nodes(Graph) : Explained(events', st, n)
  BY <1>1 DEF EventInv, Saved
<1>3. CASE StartFresh
  <2>1. \A n \in Nodes(Graph) : rs'.node_status[n] = "PENDING"
    BY <1>3 DEF StartFresh, FreshState
  <2> QED BY <1>1, <1>2, <2>1 DEF EventInv, Explained
<1>4. CASE Resume
  BY <1>1, <1>2, <1>4 DEF Resume, EventInv, Saved
<1>5. CASE RefuseDrift
  BY <1>2, <1>5 DEF RefuseDrift, EventInv
<1> QED BY <1>3, <1>4, <1>5

LEMMA BeginWaveEvents ==
  ASSUME IInv, EventInv, BeginWave
  PROVE  EventInv'
<1> DEFINE skipped == AfterSkipping
           ready   == FindReadyNodes(Graph, skipped, MaxParallel)
<1>1. /\ pc = "loop" /\ pc' = "running" /\ checkpoint' = checkpoint /\ events \subseteq events'
      /\ rs' = [skipped EXCEPT !.node_status =
                  [n \in Nodes(Graph) |-> IF n \in ready THEN "RUNNING" ELSE @[n]]]
  BY DEF BeginWave
<1>2. rs \in RuntimeStates
  BY <1>1 DEF IInv, TypeOK
<1>3. /\ skipped \in RuntimeStates
      /\ \A n \in Nodes(Graph) : \/ skipped.node_status[n] = rs.node_status[n]
                                 \/ skipped.node_status[n] = "SKIPPED"
      /\ skipped.node_outputs = rs.node_outputs
  BY <1>2, SkipEffect DEF AfterSkipping
<1> HIDE DEF skipped, ready
<1>4. /\ rs'.node_outputs = rs.node_outputs
      /\ \A n \in Nodes(Graph) : \/ rs'.node_status[n] = rs.node_status[n]
                                 \/ rs'.node_status[n] \in {"SKIPPED", "RUNNING"}
  BY <1>1, <1>3 DEF RuntimeStates
<1>5. ASSUME NEW n \in Nodes(Graph) PROVE Explained(events', rs', n)
  <2>1. Explained(events, rs, n) /\ rs'.node_outputs[n] = rs.node_outputs[n]
    BY <1>1, <1>4 DEF EventInv
  <2>2. rs'.node_status[n] = rs.node_status[n] \/ rs'.node_status[n] \notin {"SUCCEEDED", "FAILED"}
    BY <1>4
  <2> QED BY <1>1, <2>1, <2>2, ExplainedStays
<1>6. \A st \in Saved' : \A n \in Nodes(Graph) : Explained(events', st, n)
  BY <1>1, ExplainedStays DEF EventInv, Saved
<1> QED BY <1>5, <1>6 DEF EventInv

(* The commit decides the nodes of the wave, which are then to be logged.    *)
LEMMA CommitResultsEvents ==
  ASSUME IInv, EventInv, CommitResults
  PROVE  EventInv'
<1>1. /\ pc = "putting" /\ todo = {} /\ pc' = "logging" /\ todo' = DOMAIN results
      /\ rs' = CommitWave(Graph, rs, results)
      /\ checkpoint' = checkpoint /\ events' = events
  BY DEF CommitResults, files
<1>2. rs \in RuntimeStates /\ DOMAIN results \subseteq Nodes(Graph)
  BY <1>1, SentinelAssumption DEF IInv, TypeOK
<1>3. \A n \in Succeeded(results) : results[n].artifact \in ArtifactIds
  BY DEF IInv, ResultsInv, Succeeded
<1>4. Commits(rs, results, rs')
  BY <1>1, <1>2, <1>3, CommitWaveEffect
<1>5. \A n \in Nodes(Graph) \ DOMAIN results : Explained(events', rs', n)
  BY <1>1, <1>4, ExplainedStays DEF EventInv, Commits
<1> QED BY <1>1, <1>5 DEF EventInv, Saved

(* The event that is written is the one its node still lacked. *)
LEMMA LogResultEvents ==
  ASSUME IInv, LineageInv, EventInv, LogResult
  PROVE  EventInv'
<1> DEFINE n == FirstTodo
<1>1. /\ pc = "logging" /\ todo' = todo \ {n} /\ events' = events \cup {ResultEvent(n)}
      /\ UNCHANGED <<pc, rs, checkpoint>>
  BY DEF LogResult
<1>2. n \in todo
  BY FirstNodeExists, GraphAssumption DEF LogResult, FirstTodo, IInv, TypeOK
<1> HIDE DEF n
<1>3. /\ n \in DOMAIN results
      /\ IF results[n].succeeded
         THEN rs.node_status[n] = "SUCCEEDED" /\ rs.node_outputs[n] = results[n].artifact
         ELSE rs.node_status[n] = "FAILED"
  BY <1>1, <1>2 DEF LineageInv, CommittedInv
<1>4. results[n].succeeded => rs.node_outputs[n].boot = boot
  <2>1. results[n].succeeded => results[n].artifact = ArtifactId(n)
    BY <1>3 DEF LineageInv, WaveInv
  <2> QED BY <1>3, <2>1 DEF ArtifactId
<1>5. Explained(events', rs, n)
  <2>1. ResultEvent(n) \in events' /\ ResultEvent(n).node = n /\ ResultEvent(n).boot = boot
    BY <1>1 DEF ResultEvent, WaveEvent
  <2>2. ResultEvent(n).type = IF results[n].succeeded THEN "NODE_COMPLETED" ELSE "NODE_FAILED"
    BY DEF ResultEvent, WaveEvent
  <2> HIDE DEF n
  <2> QED BY <1>3, <1>4, <2>1, <2>2 DEF Explained
<1>6. \A m \in Nodes(Graph) : m \in todo' \/ Explained(events', rs, m)
  BY <1>1, <1>5, ExplainedStays DEF EventInv
<1>7. \A st \in Saved : \A m \in Nodes(Graph) : Explained(events', st, m)
  BY <1>1, ExplainedStays DEF EventInv
<1> QED BY <1>1, <1>6, <1>7 DEF EventInv, Saved

LEMMA NextEvents ==
  ASSUME IInv, LineageInv, EventInv, [Next]_vars
  PROVE  EventInv'
<1>1. CASE StartFresh \/ Resume \/ RefuseDrift
  BY <1>1, StartEvents
<1>2. CASE BeginWave
  BY <1>2, BeginWaveEvents
<1>3. CASE EndLoop
  <2>1. pc' \in {"finishing", "deadlocked"} /\ checkpoint' = checkpoint /\ events \subseteq events'
    BY <1>3 DEF EndLoop
  <2> QED BY <2>1, ExplainedStays DEF EventInv, Saved
<1>4. CASE (\E n \in Nodes(Graph) : NodeFinishes(n)) \/ WaveEnds \/ PutArtifact
  <2>1. /\ pc \in {"running", "putting"} /\ pc' \in {"running", "putting", "aborted"}
        /\ pc' # "aborted" => rs' = rs
        /\ UNCHANGED <<checkpoint, events>>
    BY <1>4 DEF NodeFinishes, NodeSucceeds, NodeFails, NodeRaises, Finish, WaveEnds, PutArtifact, files
  <2> QED BY <2>1 DEF EventInv, Saved
<1>5. CASE CommitResults
  BY <1>5, CommitResultsEvents
<1>6. CASE LogResult
  BY <1>6, LogResultEvents
<1>7. CASE SaveCheckpoint
  <2>1. /\ pc = "logging" /\ todo = {} /\ pc' = "saved" /\ checkpoint' = rs
        /\ UNCHANGED <<rs, events>>
    BY <1>7 DEF SaveCheckpoint
  <2> QED BY <2>1 DEF EventInv, Saved
<1>8. CASE LogCheckpoint \/ FreezeReturn
  <2>1. /\ pc' \in {"loop", "finishing", "returned"}
        /\ pc' = "loop" => pc = "saved"
        /\ events \subseteq events' /\ UNCHANGED <<rs, checkpoint>>
    BY <1>8 DEF LogCheckpoint, FreezeReturn
  <2>2. \A st \in Saved' : \A n \in Nodes(Graph) : Explained(events', st, n)
    BY <2>1, ExplainedStays DEF EventInv, Saved
  <2>3. pc' = "loop" => \A n \in Nodes(Graph) : Explained(events', rs', n)
    BY <2>1, ExplainedStays DEF EventInv
  <2> QED BY <2>1, <2>2, <2>3 DEF EventInv
<1>9. CASE Crash \/ EditContracts
  <2>1. /\ pc' \in {"down"} \cup Stopped /\ UNCHANGED <<checkpoint, events>>
    BY <1>9 DEF Crash, EditContracts, files, memory
  <2> QED BY <2>1 DEF EventInv, Saved, Stopped
<1>10. CASE UNCHANGED vars
  BY <1>10 DEF vars, EventInv, Saved
<1> QED BY <1>1, <1>2, <1>3, <1>4, <1>5, <1>6, <1>7, <1>8, <1>9, <1>10 DEF Next, Commit

LEMMA EventInvariance == Spec => []EventInv
<1>1. IInv /\ LineageInv /\ EventInv /\ [Next]_vars => EventInv'
  BY NextEvents
<1> QED BY <1>1, InitEvents, Invariance, LineageInvariance, PTL DEF Spec

(* The log never lags behind the checkpoint, wherever the process is killed. *)
THEOREM LogExplains == Spec => []CheckpointExplained
<1>1. EventInv => CheckpointExplained
  BY DEF EventInv, Explained, CheckpointExplained
<1> QED BY <1>1, EventInvariance, PTL

-----------------------------------------------------------------------------
(* What a crash leaves in the store.                                         *)

(* The names of what the nodes of S make in this start of the process.       *)
Made(S) == {ArtifactId(n) : n \in S}

(* The store has ids of the starts so far; those of the current one that no  *)
(* checkpoint has are of the wave that is being committed.                   *)
OrphanInv ==
  /\ \A id \in DOMAIN store : id.boot <= boot
  /\ \A b \in 1 .. boot : IsFiniteSet(Orphans(b)) /\ Cardinality(Orphans(b)) <= MaxParallel
  /\ pc \in {"loop", "running", "saved", "finishing"} => Orphans(boot) = {}
  /\ pc = "putting" => Orphans(boot) \subseteq Made(Succeeded(results) \ todo)
  /\ pc = "logging" => Orphans(boot) \subseteq Made(Succeeded(results))

(* There are no more of them than nodes in a wave. *)
LEMMA MadeWithinLimit ==
  ASSUME NEW S, IsFiniteSet(S), Cardinality(S) <= MaxParallel, NEW T \in SUBSET Made(S)
  PROVE  IsFiniteSet(T) /\ Cardinality(T) <= MaxParallel
<1>1. IsFiniteSet(Made(S)) /\ Cardinality(Made(S)) <= Cardinality(S)
  <2> DEFINE f == [n \in S |-> ArtifactId(n)]
  <2>1. f \in Surjection(S, Made(S))
    BY DEF Made, Surjection
  <2> QED BY <2>1, FS_Surjection
<1>2. IsFiniteSet(T) /\ Cardinality(T) <= Cardinality(Made(S))
  BY <1>1, FS_Subset
<1>3. /\ Cardinality(S) \in Nat /\ Cardinality(Made(S)) \in Nat /\ Cardinality(T) \in Nat
      /\ MaxParallel \in Nat
  BY <1>1, <1>2, FS_CardinalityType, MaxParallelAssumption
<1> QED BY <1>1, <1>2, <1>3

(* Fewer orphans are within the limit too. *)
LEMMA FewerOrphans ==
  ASSUME NEW S, IsFiniteSet(S), Cardinality(S) <= MaxParallel, NEW T \in SUBSET S
  PROVE  IsFiniteSet(T) /\ Cardinality(T) <= MaxParallel
<1>1. IsFiniteSet(T) /\ Cardinality(T) <= Cardinality(S)
  BY FS_Subset
<1>2. Cardinality(S) \in Nat /\ Cardinality(T) \in Nat /\ MaxParallel \in Nat
  BY <1>1, FS_CardinalityType, MaxParallelAssumption
<1> QED BY <1>1, <1>2

LEMMA InitOrphans == Init => OrphanInv
<1> SUFFICES ASSUME Init PROVE OrphanInv
  OBVIOUS
<1>1. DOMAIN store = {} /\ boot = 0 /\ pc = "down"
  BY DEF Init
<1> QED BY <1>1 DEF OrphanInv

(* A new start has no orphans yet, and those of earlier ones stay.           *)
LEMMA StartOrphans ==
  ASSUME IInv, OrphanInv, StartFresh \/ Resume \/ RefuseDrift
  PROVE  OrphanInv'
<1> DEFINE problem == [producer |-> NoNode, boot |-> boot']
<1>1. /\ boot' = boot + 1 /\ boot \in Nat /\ checkpoint' = checkpoint
      /\ pc' \in {"loop", "returned", "refused"}
      /\ \/ store' = store
         \/ DOMAIN store' = DOMAIN store \cup {problem}
  BY MaxBootsAssumption DEF StartFresh, Resume, RefuseDrift, Start, With, IInv, TypeOK
<1>2. problem.boot = boot' /\ problem.producer \notin Nodes(Graph)
  BY NoNodeAssumption
<1> HIDE DEF problem
<1>3. \A id \in DOMAIN store : id.boot <= boot /\ id.boot \in Nat
  BY DEF OrphanInv, IInv, TypeOK, ArtifactIds
<1>4. \A b \in 1 .. boot : Orphans(b)' = Orphans(b)
  BY <1>1, <1>2 DEF Orphans, Saved
<1>5. Orphans(boot)' = {}
  BY <1>1, <1>2, <1>3 DEF Orphans
<1>6. IsFiniteSet({}) /\ Cardinality({}) <= MaxParallel
  BY FS_EmptySet, MaxParallelAssumption
<1>7. \A id \in DOMAIN store' : id.boot <= boot'
  BY <1>1, <1>2, <1>3
<1>8. ASSUME NEW b \in 1 .. boot'
      PROVE  IsFiniteSet(Orphans(b)') /\ Cardinality(Orphans(b)') <= MaxParallel
  <2>1. CASE b \in 1 .. boot
    BY <1>4, <2>1 DEF OrphanInv
  <2>2. CASE b = boot'
    <3>1. Orphans(b)' = {}
      BY <1>5, <2>2 DEF Orphans
    <3> QED BY <1>6, <3>1
  <2> QED BY <1>1, <2>1, <2>2
<1> QED BY <1>1, <1>5, <1>7, <1>8 DEF OrphanInv

(* A put adds the artifact of a node of the wave. *)
LEMMA PutArtifactOrphans ==
  ASSUME IInv, LineageInv, OrphanInv, PutArtifact
  PROVE  OrphanInv'
<1> DEFINE n == FirstTodo
<1>1. /\ n \in Succeeded(results) /\ todo' = todo \ {n}
      /\ store' = With(store, ArtifactId(n), Envelope(n))
      /\ pc = "putting"
      /\ UNCHANGED <<pc, rs, results, checkpoint, boot>>
  BY PutEffect
<1> HIDE DEF n
<1>2. DOMAIN store' = DOMAIN store \cup {ArtifactId(n)} /\ ArtifactId(n).boot = boot
  BY <1>1 DEF With, ArtifactId
<1>3. boot \in Nat /\ boot \in 1 .. boot
  BY <1>1, MaxBootsAssumption, SentinelAssumption DEF IInv, TypeOK, ResultsInv
<1>4. \A id \in DOMAIN store' : id.boot <= boot'
  BY <1>1, <1>2, <1>3 DEF OrphanInv
<1>5. Orphans(boot)' \subseteq Made(Succeeded(results') \ todo')
  <2>1. Orphans(boot)' \subseteq Orphans(boot) \cup {ArtifactId(n)}
    BY <1>1, <1>2 DEF Orphans, Saved
  <2>2. Orphans(boot) \subseteq Made(Succeeded(results) \ todo)
    BY <1>1 DEF OrphanInv
  <2> QED BY <1>1, <2>1, <2>2 DEF Made
<1>6. Made(Succeeded(results') \ todo') \subseteq Made(Running)
  BY <1>1 DEF Made, Succeeded, IInv, ResultsInv
<1>7. IsFiniteSet(Running) /\ Cardinality(Running) <= MaxParallel
  <2>1. IsFiniteSet(Nodes(Graph)) /\ Running \subseteq Nodes(Graph)
    BY GraphAssumption DEF IsGraph, Running
  <2> QED BY <1>1, <2>1, FS_Subset DEF LineageInv, WaveInv
<1>8. IsFiniteSet(Orphans(boot)') /\ Cardinality(Orphans(boot)') <= MaxParallel
  BY <1>5, <1>6, <1>7, MadeWithinLimit
<1>9. \A b \in 1 .. boot : b # boot => Orphans(b)' = Orphans(b)
  BY <1>1, <1>2 DEF Orphans, Saved
<1>10. \A b \in 1 .. boot' :
         IsFiniteSet(Orphans(b)') /\ Cardinality(Orphans(b)') <= MaxParallel
  BY <1>1, <1>8, <1>9 DEF OrphanInv
<1> QED BY <1>1, <1>4, <1>5, <1>10 DEF OrphanInv, Made, ArtifactId

(* The checkpoint takes in what the wave made, and loses nothing.            *)
LEMMA SaveCheckpointOrphans ==
  ASSUME IInv, LineageInv, OrphanInv, SaveCheckpoint
  PROVE  OrphanInv'
<1>1. /\ pc = "logging" /\ pc' = "saved" /\ checkpoint' = rs
      /\ UNCHANGED <<rs, results, store, boot>>
  BY DEF SaveCheckpoint, config
<1>2. rs \in RuntimeStates /\ rs # NoState
  BY <1>1, SentinelAssumption DEF IInv, TypeOK
<1>3. Saved' = {rs}
  BY <1>1, <1>2 DEF Saved
<1>4. UNION {Outputs(st) : st \in Saved} \subseteq Outputs(rs)
  <2> SUFFICES ASSUME NEW st \in Saved, NEW n \in Nodes(Graph), st.node_outputs[n] # NoArtifact
               PROVE  st.node_outputs[n] \in Outputs(rs)
    BY DEF Outputs
  <2>1. st = checkpoint /\ checkpoint # NoState /\ OutputsOwned(st)
    BY DEF Saved, LineageInv, StatesSound, Sound
  <2>2. st.node_status[n] \in Terminal
    BY <2>1 DEF OutputsOwned, Terminal
  <2>3. rs.node_outputs[n] = st.node_outputs[n]
    BY <1>1, <2>1, <2>2 DEF IInv, ExtendsInv
  <2> QED BY <2>3 DEF Outputs
<1>5. \A b : Orphans(b)' \subseteq Orphans(b)
  BY <1>1, <1>3, <1>4 DEF Orphans
<1>6. \A n \in Succeeded(results) : ArtifactId(n) \in Outputs(rs)
  <2> SUFFICES ASSUME NEW n \in Succeeded(results) PROVE ArtifactId(n) \in Outputs(rs)
    OBVIOUS
  <2>1. n \in DOMAIN results /\ results[n].succeeded /\ n \in Nodes(Graph)
    BY DEF Succeeded, IInv, TypeOK
  <2>2. results[n].artifact = ArtifactId(n) /\ results[n].artifact \in ArtifactIds
    BY <2>1 DEF LineageInv, WaveInv, IInv, ResultsInv
  <2>3. rs.node_outputs[n] = results[n].artifact
    BY <1>1, <2>1 DEF LineageInv, CommittedInv
  <2> QED BY <2>1, <2>2, <2>3, SentinelAssumption DEF Outputs
<1>7. Orphans(boot)' = {}
  <2>1. Orphans(boot)' \subseteq Made(Succeeded(results))
    BY <1>1, <1>5 DEF OrphanInv
  <2>2. Orphans(boot)' \cap Outputs(rs) = {}
    BY <1>3 DEF Orphans
  <2> QED BY <1>6, <2>1, <2>2 DEF Made
<1>8. \A b \in 1 .. boot' :
        IsFiniteSet(Orphans(b)') /\ Cardinality(Orphans(b)') <= MaxParallel
  BY <1>1, <1>5, FewerOrphans DEF OrphanInv
<1> QED BY <1>1, <1>7, <1>8 DEF OrphanInv

(* Where neither the store nor the checkpoint changes, the orphans do not    *)
(* either, and what is said of them in one phase carries over to the next.   *)
LEMMA SameFilesOrphans ==
  ASSUME OrphanInv, UNCHANGED <<store, checkpoint, boot>>,
         \/ pc' \in {"loop", "running", "saved", "finishing"}
              /\ pc \in {"loop", "running", "saved", "finishing"}
         \/ pc = "running" /\ pc' = "putting"
         \/ pc = "putting" /\ pc' = "logging" /\ todo = {} /\ results' = results
         \/ pc = "logging" /\ pc' = "logging" /\ results' = results
         \/ pc' \in Stopped
         \/ UNCHANGED <<pc, results, todo>>
  PROVE  OrphanInv'
<1>1. \A b : Orphans(b)' = Orphans(b)
  BY DEF Orphans, Saved
<1>2. Orphans(boot)' = Orphans(boot)
  BY DEF Orphans, Saved
<1>3. /\ \A id \in DOMAIN store' : id.boot <= boot'
      /\ \A b \in 1 .. boot' : IsFiniteSet(Orphans(b)') /\ Cardinality(Orphans(b)') <= MaxParallel
  BY <1>1 DEF OrphanInv
<1>4. pc' \in {"loop", "running", "saved", "finishing"} => Orphans(boot)' = {}
  BY <1>2 DEF OrphanInv, Stopped
<1>5. pc' = "putting" => Orphans(boot)' \subseteq Made(Succeeded(results) \ todo)'
  BY <1>2 DEF OrphanInv, Stopped, Made, ArtifactId, Succeeded
<1>6. pc' = "logging" => Orphans(boot)' \subseteq Made(Succeeded(results))'
  BY <1>2 DEF OrphanInv, Stopped, Made, ArtifactId, Succeeded
<1> QED BY <1>3, <1>4, <1>5, <1>6 DEF OrphanInv

LEMMA NextOrphans ==
  ASSUME IInv, LineageInv, OrphanInv, [Next]_vars
  PROVE  OrphanInv'
<1>1. CASE StartFresh \/ Resume \/ RefuseDrift
  BY <1>1, StartOrphans
<1>2. CASE BeginWave \/ LogCheckpoint
  BY <1>2, SameFilesOrphans DEF BeginWave, LogCheckpoint, config
<1>3. CASE EndLoop
  BY <1>3, SameFilesOrphans DEF EndLoop, Stopped, config
<1>4. CASE \E n \in Nodes(Graph) : NodeFinishes(n)
  <2>1. /\ UNCHANGED <<store, checkpoint, boot>>
        /\ pc = "running" /\ pc' \in {"running", "aborted"}
    BY <1>4 DEF NodeFinishes, NodeSucceeds, NodeFails, NodeRaises, Finish, files, config
  <2> QED BY <2>1, SameFilesOrphans DEF Stopped
<1>5. CASE WaveEnds \/ CommitResults \/ LogResult
  BY <1>5, SameFilesOrphans DEF WaveEnds, CommitResults, LogResult, files, config
<1>6. CASE PutArtifact
  BY <1>6, PutArtifactOrphans
<1>7. CASE SaveCheckpoint
  BY <1>7, SaveCheckpointOrphans
<1>8. CASE FreezeReturn \/ Crash \/ EditContracts
  BY <1>8, SameFilesOrphans
     DEF FreezeReturn, Crash, EditContracts, Stopped, files, config, memory
<1>9. CASE UNCHANGED vars
  BY <1>9, SameFilesOrphans DEF vars
<1> QED BY <1>1, <1>2, <1>3, <1>4, <1>5, <1>6, <1>7, <1>8, <1>9 DEF Next, Commit

(* However often the process is killed, each start has left at most          *)
(* max_parallel_nodes artifacts that no checkpoint refers to.                *)
THEOREM CrashesCostOneWave == Spec => []CrashCostsOneWave
<1>1. Init => OrphanInv
  BY InitOrphans
<1>2. IInv /\ LineageInv /\ OrphanInv /\ [Next]_vars => OrphanInv'
  BY NextOrphans
<1>3. OrphanInv => CrashCostsOneWave
  BY DEF OrphanInv, CrashCostsOneWave
<1> QED BY <1>1, <1>2, <1>3, Invariance, LineageInvariance, PTL DEF Spec

-----------------------------------------------------------------------------
(* Configurations do not mix unless somebody allows it.                      *)

(* A state names artifacts of the contracts it was made under only, and an   *)
(* active process has those of the files.                                    *)
ContractInv ==
  /\ \A st \in Loaded \cup Saved :
       \A id \in Referenced(st) : store[id].contract = st.contract_hash
  /\ pc \in Active => rs.contract_hash = contract

LEMMA StartContracts ==
  ASSUME TRUE \notin AllowDriftChoices, IInv, ContractInv, StartFresh \/ Resume \/ RefuseDrift
  PROVE  ContractInv'
<1>1. checkpoint' = checkpoint /\ contract' = contract /\ ~ allow_drift'
  BY DriftAssumption DEF StartFresh, Resume, RefuseDrift, Start
<1>2. CASE StartFresh
  <2> DEFINE problem == [producer |-> NoNode, boot |-> boot']
  <2>1. /\ checkpoint = NoState /\ rs' = FreshState(problem)
        /\ store'[problem].contract = contract
    BY <1>2 DEF StartFresh, With
  <2> HIDE DEF problem
  <2>2. /\ rs'.contract_hash = contract
        /\ Referenced(rs') \subseteq {problem}
    BY <2>1 DEF FreshState, Referenced, Outputs, InitialIds
  <2> QED BY <1>1, <2>1, <2>2 DEF ContractInv, Loaded, Saved
<1>3. CASE Resume
  BY <1>1, <1>3 DEF Resume, Drifted, ContractInv, Loaded, Saved
<1>4. CASE RefuseDrift
  BY <1>1, <1>4 DEF RefuseDrift, ContractInv, Loaded, Saved, Active
<1> QED BY <1>2, <1>3, <1>4

(* A wave starts and ends the loop without touching what a state refers to.  *)
LEMMA LoopContracts ==
  ASSUME IInv, ContractInv, BeginWave \/ EndLoop
  PROVE  ContractInv'
<1>1. /\ pc = "loop" /\ UNCHANGED <<store, checkpoint, contract>>
  BY DEF BeginWave, EndLoop, config
<1>2. rs \in RuntimeStates /\ rs # NoState
  BY <1>1, SentinelAssumption DEF IInv, TypeOK
<1>3. /\ AfterSkipping \in RuntimeStates
      /\ AfterSkipping.node_outputs = rs.node_outputs
      /\ AfterSkipping.initial_artifacts = rs.initial_artifacts
      /\ AfterSkipping.contract_hash = rs.contract_hash
  <2> DEFINE impossible == ImpossibleNodes(Graph, rs)
  <2>1. AfterSkipping = Skip(rs, impossible)
    BY DEF AfterSkipping
  <2>2. /\ AfterSkipping \in RuntimeStates
        /\ AfterSkipping.node_outputs = rs.node_outputs
        /\ AfterSkipping.initial_artifacts = rs.initial_artifacts
    BY <1>2, SkipEffect DEF AfterSkipping
  <2> HIDE DEF impossible
  <2> QED BY <1>2, <2>1, <2>2 DEF Skip, RuntimeStates
<1>4. /\ rs'.node_outputs = rs.node_outputs
      /\ rs'.initial_artifacts = rs.initial_artifacts
      /\ rs'.contract_hash = rs.contract_hash
  <2>1. CASE BeginWave
    <3>1. PICK ready : rs' = [AfterSkipping EXCEPT !.node_status =
                                [n \in Nodes(Graph) |-> IF n \in ready THEN "RUNNING" ELSE @[n]]]
      BY <2>1 DEF BeginWave
    <3> QED BY <1>3, <3>1 DEF RuntimeStates
  <2>2. CASE EndLoop
    BY <1>3, <2>2 DEF EndLoop, RuntimeStates
  <2> QED BY <2>1, <2>2
<1>5. Referenced(rs') = Referenced(rs)
  BY <1>4 DEF Referenced, Outputs, InitialIds
<1>6. pc' \in Active => rs'.contract_hash = contract'
  BY <1>1, <1>4 DEF ContractInv, Active
<1> QED BY <1>1, <1>2, <1>4, <1>5, <1>6 DEF ContractInv, Loaded, Saved

(* The file that is put is one that no state refers to yet. *)
LEMMA PutArtifactContracts ==
  ASSUME IInv, LineageInv, ContractInv, PutArtifact
  PROVE  ContractInv'
<1>1. /\ FirstTodo \in Succeeded(results)
      /\ store' = With(store, ArtifactId(FirstTodo), Envelope(FirstTodo))
      /\ pc = "putting"
      /\ UNCHANGED <<pc, rs, checkpoint, contract>>
  BY PutEffect
<1>2. \A st \in Loaded \cup Saved : \A id \in Referenced(st) : store'[id] = store[id]
  <2> SUFFICES ASSUME NEW st \in Loaded \cup Saved, NEW id \in Referenced(st)
               PROVE  store'[id] = store[id]
    OBVIOUS
  <2>1. id \in DOMAIN store
    BY DEF IInv, ReferencedArtifactsStored
  <2>2. id # ArtifactId(FirstTodo)
    BY <1>1, PutIsNew DEF Succeeded
  <2> HIDE DEF ArtifactId
  <2> QED BY <1>1, <2>1, <2>2 DEF With
<1> QED BY <1>1, <1>2 DEF ContractInv, Loaded, Saved

(* What is committed was made under the contracts of the running process.    *)
LEMMA CommitResultsContracts ==
  ASSUME IInv, LineageInv, ContractInv, CommitResults
  PROVE  ContractInv'
<1>1. /\ pc = "putting" /\ todo = {} /\ pc' = "logging"
      /\ rs' = CommitWave(Graph, rs, results)
      /\ UNCHANGED <<results, store, checkpoint, contract>>
  BY DEF CommitResults, files, config
<1>2. rs \in RuntimeStates /\ rs # NoState
  BY <1>1, SentinelAssumption DEF IInv, TypeOK
<1>3. Delivered(store, rs, results) /\ Sound(store, rs)
  BY <1>2, WaveDelivered DEF LineageInv, StatesSound, Loaded
<1>4. /\ DOMAIN results \subseteq Nodes(Graph)
      /\ \A n \in Succeeded(results) : results[n].artifact \in ArtifactIds
  BY <1>3 DEF Delivered
<1>5. Commits(rs, results, rs') /\ CommitsSoundly(store, rs, results, rs')
  BY <1>1, <1>2, <1>3, <1>4, CommitWaveEffect, CommitSound
<1>6. rs'.contract_hash = rs.contract_hash /\ rs.contract_hash = contract
  BY <1>1, <1>5 DEF CommitsSoundly, ContractInv, Active
<1>7. \A n \in Succeeded(results) : store[results[n].artifact].contract = contract
  <2>1. \A n \in Succeeded(results) : store[results[n].artifact] = Envelope(n)
    BY <1>1 DEF LineageInv, WaveInv
  <2>2. \A n : Envelope(n).contract = contract
    BY DEF Envelope
  <2> QED BY <2>1, <2>2
<1>8. \A id \in Referenced(rs) : store[id].contract = contract
  BY <1>2, <1>6 DEF ContractInv, Loaded
<1>9. \A n \in Nodes(Graph) : \/ rs'.node_outputs[n] = rs.node_outputs[n]
                              \/ store[rs'.node_outputs[n]].contract = contract
  BY <1>5, <1>7 DEF Commits
<1>10. \A id \in Referenced(rs') : store[id].contract = contract
  BY <1>5, <1>8, <1>9 DEF Commits, Referenced, Outputs, InitialIds
<1> QED BY <1>1, <1>6, <1>10 DEF ContractInv, Loaded, Saved

LEMMA NextContracts ==
  ASSUME TRUE \notin AllowDriftChoices, IInv, LineageInv, ContractInv, [Next]_vars
  PROVE  ContractInv'
<1>1. CASE StartFresh \/ Resume \/ RefuseDrift
  BY <1>1, StartContracts
<1>2. CASE BeginWave \/ EndLoop
  BY <1>2, LoopContracts
<1>3. CASE PutArtifact
  BY <1>3, PutArtifactContracts
<1>4. CASE CommitResults
  BY <1>4, CommitResultsContracts
<1>5. CASE (\E n \in Nodes(Graph) : NodeFinishes(n)) \/ WaveEnds \/ Crash
  <2>1. /\ UNCHANGED <<store, checkpoint, contract>>
        /\ \/ rs' = rs /\ pc \in Active
           \/ rs' = NoState /\ pc' \notin Active
    BY <1>5 DEF NodeFinishes, NodeSucceeds, NodeFails, NodeRaises, Finish, WaveEnds, Crash,
                files, config, Active
  <2> QED BY <2>1 DEF ContractInv, Loaded, Saved
<1>6. CASE LogResult \/ SaveCheckpoint \/ LogCheckpoint \/ FreezeReturn
  <2>1. /\ UNCHANGED <<rs, store, contract>>
        /\ pc \in Active /\ checkpoint' \in {checkpoint, rs}
    BY <1>6 DEF LogResult, SaveCheckpoint, LogCheckpoint, FreezeReturn, config, Active
  <2>2. rs # NoState
    BY <1>6 DEF LogResult, SaveCheckpoint, LogCheckpoint, FreezeReturn, IInv, TypeOK
  <2> QED BY <2>1, <2>2 DEF ContractInv, Loaded, Saved
<1>7. CASE EditContracts
  <2>1. pc \notin Active /\ UNCHANGED <<pc, rs, store, checkpoint>>
    BY <1>7 DEF EditContracts, memory, files, Stopped, Active
  <2> QED BY <2>1 DEF ContractInv, Loaded, Saved
<1>8. CASE UNCHANGED vars
  BY <1>8 DEF vars, ContractInv, Loaded, Saved
<1> QED BY <1>1, <1>2, <1>3, <1>4, <1>5, <1>6, <1>7, <1>8 DEF Next, Commit

(* Where --allow-config-drift is never given, a running task combines only   *)
(* artifacts made under the contracts it runs with, whatever was edited      *)
(* between its starts.  (Once it was given, a later run without it may still *)
(* mix: the run drift_back shows how.)                                       *)
THEOREM DriftIsNeverSilent ==
  ASSUME TRUE \notin AllowDriftChoices
  PROVE  Spec => []NoSilentDrift
<1>1. Init => ContractInv
  BY DEF Init, ContractInv, Loaded, Saved, Active
<1>2. IInv /\ LineageInv /\ ContractInv /\ [Next]_vars => ContractInv'
  BY NextContracts
<1>3. IInv /\ ContractInv => NoSilentDrift
  BY DEF ContractInv, NoSilentDrift, Loaded, IInv, TypeOK, Active
<1> QED BY <1>1, <1>2, <1>3, Invariance, LineageInvariance, PTL DEF Spec

-----------------------------------------------------------------------------
(* How far the memory is ahead of the checkpoint.                            *)

(* Nothing has been decided yet. *)
IsFresh(st) ==
  /\ st.node_status = [n \in Nodes(Graph) |-> "PENDING"]
  /\ st.node_outputs = [n \in Nodes(Graph) |-> NoArtifact]
  /\ st.active_edges = {e \in Edges(Graph) : ~ Conditional(Graph, e)}
  /\ st.inactive_edges = {}
  /\ st.final_output = NoArtifact

(* Between two waves memory and checkpoint are the same; a wave decides      *)
(* nothing but its own nodes, of which the checkpoint knows nothing yet.     *)
AheadInv ==
  /\ pc = "loop" => IF checkpoint = NoState THEN IsFresh(rs) ELSE rs = checkpoint
  /\ pc \in {"running", "putting", "logging"} =>
       \A n \in Nodes(Graph) : rs.node_status[n] \in {"SUCCEEDED", "FAILED"} =>
         Decision(n) = rs.node_status[n] \/ (pc = "logging" /\ n \in DOMAIN results)
  /\ pc = "logging" => \A n \in DOMAIN results : Decision(n) = "UNDECIDED"

LEMMA BeginWaveAhead ==
  ASSUME IInv, AheadInv, BeginWave
  PROVE  AheadInv'
<1> DEFINE skipped == AfterSkipping
           ready   == FindReadyNodes(Graph, skipped, MaxParallel)
<1>1. /\ pc = "loop" /\ pc' = "running" /\ checkpoint' = checkpoint
      /\ rs' = [skipped EXCEPT !.node_status =
                  [n \in Nodes(Graph) |-> IF n \in ready THEN "RUNNING" ELSE @[n]]]
  BY DEF BeginWave
<1>2. rs \in RuntimeStates
  BY <1>1 DEF IInv, TypeOK
<1>3. /\ skipped \in RuntimeStates
      /\ \A n \in Nodes(Graph) : \/ skipped.node_status[n] = rs.node_status[n]
                                 \/ skipped.node_status[n] = "SKIPPED"
  BY <1>2, SkipEffect DEF AfterSkipping
<1> HIDE DEF skipped, ready
<1>4. \A n \in Nodes(Graph) : \/ rs'.node_status[n] = rs.node_status[n]
                              \/ rs'.node_status[n] \in {"SKIPPED", "RUNNING"}
  BY <1>1, <1>3 DEF RuntimeStates
<1>5. \A n \in Nodes(Graph) : Decision(n)' = Decision(n)
  BY <1>1 DEF Decision
<1>6. \A n \in Nodes(Graph) : rs.node_status[n] \in {"SUCCEEDED", "FAILED"} =>
        Decision(n) = rs.node_status[n]
  BY <1>1 DEF AheadInv, IsFresh, Decision, Terminal, Dead
<1> QED BY <1>1, <1>4, <1>5, <1>6 DEF AheadInv

LEMMA CommitResultsAhead ==
  ASSUME IInv, AheadInv, CommitResults
  PROVE  AheadInv'
<1>1. /\ pc = "putting" /\ pc' = "logging" /\ rs' = CommitWave(Graph, rs, results)
      /\ UNCHANGED <<results, checkpoint>>
  BY DEF CommitResults, files
<1>2. rs \in RuntimeStates /\ DOMAIN results = Running /\ DOMAIN results \subseteq Nodes(Graph)
  BY <1>1, SentinelAssumption DEF IInv, TypeOK, ResultsInv
<1>3. \A n \in Succeeded(results) : results[n].artifact \in ArtifactIds
  BY DEF IInv, ResultsInv, Succeeded
<1>4. Commits(rs, results, rs')
  BY <1>1, <1>2, <1>3, CommitWaveEffect
<1>5. \A n \in Nodes(Graph) : Decision(n)' = Decision(n)
  BY <1>1 DEF Decision
<1>6. \A n \in DOMAIN results : Decision(n) = "UNDECIDED"
  <2> SUFFICES ASSUME NEW n \in DOMAIN results, checkpoint # NoState,
                      checkpoint.node_status[n] \in Terminal
               PROVE  FALSE
    BY DEF Decision
  <2>1. rs.node_status[n] = "RUNNING" /\ n \in Nodes(Graph)
    BY <1>2 DEF Running
  <2>2. rs.node_status[n] = checkpoint.node_status[n]
    BY <1>1, <2>1 DEF IInv, ExtendsInv
  <2> QED BY <2>1, <2>2 DEF Terminal, Dead
<1>7. \A n \in Nodes(Graph) \ DOMAIN results :
        rs'.node_status[n] \in {"SUCCEEDED", "FAILED"} => Decision(n) = rs'.node_status[n]
  BY <1>1, <1>4 DEF AheadInv, Commits
<1> QED BY <1>1, <1>2, <1>5, <1>6, <1>7 DEF AheadInv

LEMMA NextAhead ==
  ASSUME IInv, AheadInv, [Next]_vars
  PROVE  AheadInv'
<1>1. CASE StartFresh
  <2>1. /\ checkpoint' = NoState /\ pc' = "loop"
        /\ rs' = FreshState([producer |-> NoNode, boot |-> boot'])
    BY <1>1 DEF StartFresh, Start
  <2>2. IsFresh(rs')
    BY <2>1 DEF FreshState, IsFresh
  <2> QED BY <2>1, <2>2 DEF AheadInv
<1>2. CASE Resume \/ RefuseDrift
  BY <1>2 DEF Resume, RefuseDrift, Start, AheadInv
<1>3. CASE BeginWave
  BY <1>3, BeginWaveAhead
<1>4. CASE EndLoop
  BY <1>4 DEF EndLoop, AheadInv
<1>5. CASE (\E n \in Nodes(Graph) : NodeFinishes(n)) \/ WaveEnds \/ PutArtifact
  <2>1. /\ pc \in {"running", "putting"} /\ pc' \in {"running", "putting", "aborted"}
        /\ pc' # "aborted" => rs' = rs
        /\ checkpoint' = checkpoint
    BY <1>5 DEF NodeFinishes, NodeSucceeds, NodeFails, NodeRaises, Finish, WaveEnds, PutArtifact, files
  <2>2. \A n \in Nodes(Graph) : Decision(n)' = Decision(n)
    BY <2>1 DEF Decision
  <2> QED BY <2>1, <2>2 DEF AheadInv
<1>6. CASE CommitResults
  BY <1>6, CommitResultsAhead
<1>7. CASE LogResult
  <2>1. pc = "logging" /\ UNCHANGED <<pc, rs, results, checkpoint>>
    BY <1>7 DEF LogResult
  <2>2. \A n : Decision(n)' = Decision(n)
    BY <2>1 DEF Decision
  <2> QED BY <2>1, <2>2 DEF AheadInv
<1>8. CASE SaveCheckpoint \/ FreezeReturn \/ Crash
  BY <1>8 DEF SaveCheckpoint, FreezeReturn, Crash, AheadInv
<1>9. CASE LogCheckpoint
  <2>1. /\ pc = "saved" /\ pc' \in {"loop", "finishing"}
        /\ UNCHANGED <<rs, checkpoint>>
    BY <1>9 DEF LogCheckpoint
  <2> QED BY <2>1 DEF AheadInv, IInv, SavedInv, TypeOK
<1>10. CASE EditContracts
  BY <1>10 DEF EditContracts, memory, files, Stopped, AheadInv
<1>11. CASE UNCHANGED vars
  BY <1>11 DEF vars, AheadInv, Decision
<1> QED BY <1>1, <1>2, <1>3, <1>4, <1>5, <1>6, <1>7, <1>8, <1>9, <1>10, <1>11 DEF Next, Commit

LEMMA AheadInvariance == Spec => []AheadInv
<1>1. Init => AheadInv
  BY DEF Init, AheadInv
<1>2. IInv /\ AheadInv /\ [Next]_vars => AheadInv'
  BY NextAhead
<1> QED BY <1>1, <1>2, Invariance, PTL DEF Spec

-----------------------------------------------------------------------------
(* A deadlock is final.                                                      *)

(* One pass of skipping leaves nothing to run. *)
StuckState(st) == FindReadyNodes(Graph, Skip(st, ImpossibleNodes(Graph, st)), MaxParallel) = {}

(* Every state that a later start can go on from is stuck and unanswered,    *)
(* and nothing is going on.                                                  *)
Doomed ==
  /\ pc \in Stopped \cup {"loop"}
  /\ IF checkpoint = NoState
     THEN \A st \in RuntimeStates : IsFresh(st) => StuckState(st)
     ELSE ~ checkpoint.frozen /\ StuckState(checkpoint)

(* Two fresh states differ in what they were started from only, which the    *)
(* scheduler does not look at.                                               *)
LEMMA FreshStatesAlike ==
  ASSUME NEW st \in RuntimeStates, NEW other \in RuntimeStates, IsFresh(st), IsFresh(other),
         StuckState(st)
  PROVE  StuckState(other)
<1> DEFINE skipped == Skip(st, ImpossibleNodes(Graph, st))
           again   == Skip(other, ImpossibleNodes(Graph, other))
<1>1. /\ st.node_status = other.node_status
      /\ st.node_outputs = other.node_outputs
      /\ st.active_edges = other.active_edges
      /\ st.inactive_edges = other.inactive_edges
      /\ DOMAIN st.initial_artifacts = DOMAIN other.initial_artifacts
  BY DEF IsFresh, RuntimeStates
<1>2. ImpossibleNodes(Graph, st) = ImpossibleNodes(Graph, other)
  BY <1>1 DEF ImpossibleNodes, EdgeIsDead
<1>3. /\ skipped.node_status = again.node_status
      /\ skipped.node_outputs = again.node_outputs
      /\ skipped.active_edges = again.active_edges
      /\ DOMAIN skipped.initial_artifacts = DOMAIN again.initial_artifacts
  <2> DEFINE impossible == ImpossibleNodes(Graph, st)
  <2>1. skipped = Skip(st, impossible) /\ again = Skip(other, impossible)
    BY <1>2
  <2> HIDE DEF impossible, skipped, again
  <2> QED BY <1>1, <2>1 DEF Skip, RuntimeStates
<1> HIDE DEF skipped, again
<1>4. \A n, slot : Supplying(Graph, skipped, n, slot) = Supplying(Graph, again, n, slot)
  BY <1>3 DEF Supplying, OutputOn
<1>5. \A n : ResolvedSlots(Graph, skipped, n) = ResolvedSlots(Graph, again, n)
  BY <1>3, <1>4 DEF ResolvedSlots
<1>6. Ready(Graph, skipped) = Ready(Graph, again)
  BY <1>3, <1>5 DEF Ready
<1>7. FindReadyNodes(Graph, skipped, MaxParallel) = FindReadyNodes(Graph, again, MaxParallel)
  BY <1>6 DEF FindReadyNodes
<1> QED BY <1>7 DEF StuckState, skipped, again

(* The step that raises GraphDeadlockError seals the fate of the task. *)
LEMMA DeadlockDooms ==
  ASSUME IInv, AheadInv, EndLoop
  PROVE  Doomed'
<1>1. /\ pc = "loop" /\ NothingReady /\ checkpoint' = checkpoint
  BY DEF EndLoop
<1>2. rs \in RuntimeStates /\ rs # NoState /\ ~ rs.frozen
  BY <1>1, SentinelAssumption DEF IInv, TypeOK, LoopInv
<1>3. pc' = "deadlocked"
  BY <1>2 DEF EndLoop, CanFinalize, IInv, FrozenIffAnswered, Loaded
<1>4. StuckState(rs)
  BY <1>1 DEF NothingReady, StuckState, AfterSkipping
<1>5. CASE checkpoint = NoState
  BY <1>1, <1>2, <1>3, <1>4, <1>5, FreshStatesAlike DEF AheadInv, Doomed, Stopped
<1>6. CASE checkpoint # NoState
  BY <1>1, <1>2, <1>3, <1>4, <1>6 DEF AheadInv, Doomed, Stopped
<1> QED BY <1>5, <1>6

(* A doomed task stays doomed: a start goes on from a stuck state, and finds *)
(* nothing to run.                                                           *)
LEMMA DoomedStays ==
  ASSUME IInv, AheadInv, Doomed, [Next]_vars
  PROVE  Doomed'
<1>1. CASE StartFresh \/ Resume \/ RefuseDrift
  <2>1. checkpoint' = checkpoint /\ pc' \in {"loop", "returned", "refused"}
    BY <1>1 DEF StartFresh, Resume, RefuseDrift, Start
  <2> QED BY <2>1 DEF Doomed, Stopped
<1>2. CASE BeginWave
  <2>1. pc = "loop" /\ FindReadyNodes(Graph, AfterSkipping, MaxParallel) # {}
    BY <1>2 DEF BeginWave
  <2>2. rs \in RuntimeStates
    BY <2>1 DEF IInv, TypeOK
  <2>3. StuckState(rs)
    BY <2>1, <2>2 DEF Doomed, AheadInv
  <2> QED BY <2>1, <2>3 DEF StuckState, AfterSkipping
<1>3. CASE EndLoop
  BY <1>3, DeadlockDooms
<1>4. CASE (\E n \in Nodes(Graph) : NodeFinishes(n)) \/ WaveEnds \/ Commit \/ FreezeReturn
  BY <1>4 DEF NodeFinishes, NodeSucceeds, NodeFails, NodeRaises, Finish, WaveEnds, Commit,
              PutArtifact, CommitResults, LogResult, SaveCheckpoint, LogCheckpoint, FreezeReturn,
              Doomed, Stopped
<1>5. CASE Crash \/ EditContracts
  <2>1. checkpoint' = checkpoint /\ (pc' = "down" \/ pc' = pc)
    BY <1>5 DEF Crash, EditContracts, files, memory
  <2> QED BY <2>1 DEF Doomed, Stopped
<1>6. CASE UNCHANGED vars
  BY <1>6 DEF vars, Doomed
<1> QED BY <1>1, <1>2, <1>3, <1>4, <1>5, <1>6 DEF Next

(* Only the end of the loop deadlocks. *)
LEMMA DeadlockedDoomed ==
  ASSUME IInv, AheadInv, pc = "deadlocked" => Doomed, [Next]_vars
  PROVE  pc' = "deadlocked" => Doomed'
<1>1. CASE pc = "deadlocked"
  BY <1>1, DoomedStays
<1>2. CASE pc # "deadlocked"
  <2>1. pc' = "deadlocked" => EndLoop
    BY <1>2 DEF Next, vars, StartFresh, Resume, RefuseDrift, BeginWave, NodeFinishes, NodeSucceeds,
                NodeFails, NodeRaises, Finish, WaveEnds, Commit, PutArtifact, CommitResults,
                LogResult, SaveCheckpoint, LogCheckpoint, FreezeReturn, Crash, EditContracts, memory
  <2> QED BY <2>1, DeadlockDooms
<1> QED BY <1>1, <1>2

(* A task that has once ended in GraphDeadlockError never gets an answer, in *)
(* any number of further starts.                                             *)
THEOREM DeadlockStays == Spec => DeadlockIsForever
<1>1. Init => (pc = "deadlocked" => Doomed)
  BY DEF Init
<1>2. IInv /\ AheadInv /\ (pc = "deadlocked" => Doomed) /\ [Next]_vars
        => (pc = "deadlocked" => Doomed)'
  BY DeadlockedDoomed
<1>3. IInv /\ AheadInv /\ Doomed /\ [Next]_vars => Doomed'
  BY DoomedStays
<1>4. Doomed => (checkpoint # NoState => ~ checkpoint.frozen)
  BY DEF Doomed
<1> QED BY <1>1, <1>2, <1>3, <1>4, Invariance, AheadInvariance, PTL DEF Spec, DeadlockIsForever

-----------------------------------------------------------------------------
(* The checkpoint and the store implement DurableTask.                       *)

(* DurableTask reads the graph as the runtime does. *)
LEMMA SameGraph ==
  /\ Durable!Nodes(Graph) = Nodes(Graph)
  /\ Durable!Edges(Graph) = Edges(Graph)
  /\ \A e : /\ Durable!Source(Graph, e) = Source(Graph, e)
            /\ Durable!Conditional(Graph, e) <=> Conditional(Graph, e)
  /\ \A n : /\ Durable!InputSlots(Graph, n) = InputSlots(Graph, n)
            /\ Durable!PublishedSlot(Graph, n) = PublishedSlot(Graph, n)
  /\ \A cond, payload : Durable!Evaluate(cond, payload) <=> Evaluate(cond, payload)
BY DEF Durable!Nodes, Nodes, Durable!Edges, Edges, Durable!Source, Source, Durable!Conditional,
       Conditional, Durable!InputSlots, InputSlots, Durable!PublishedSlot, PublishedSlot,
       Durable!Evaluate, Evaluate

(* Fed, in the terms of the runtime. *)
LEMMA FedMeans ==
  ASSUME NEW n \in Nodes(Graph)
  PROVE  Durable!Fed(n) <=>
           \A slot \in InputSlots(Graph, n) \ InitialSlots :
             \E e \in Incoming(Graph, n, slot) :
               LET source == Source(Graph, e)
               IN  /\ Decision(source) = "SUCCEEDED"
                   /\ Graph.edges[e].source_output = PublishedSlot(Graph, source)
                   /\ Conditional(Graph, e) =>
                        Evaluate(Graph.edges[e].condition, Product(source))
<1>1. \A slot : Durable!Into(n, slot) = Incoming(Graph, n, slot)
  BY SameGraph DEF Durable!Into, Incoming
<1>2. \A slot, e : e \in Incoming(Graph, n, slot) => Source(Graph, e) \in Nodes(Graph)
  BY EdgeEnds DEF Incoming
<1> QED BY <1>1, <1>2, SameGraph DEF Durable!Fed, Durable!Supplies

(* What the checkpoint holds of a node is what memory holds of it.           *)
LEMMA ProductInMemory ==
  ASSUME IInv, pc \in {"loop", "running", "putting", "logging"},
         NEW n \in Nodes(Graph), Decision(n) = "SUCCEEDED"
  PROVE  Product(n) = store[rs.node_outputs[n]].payload
BY DEF Decision, Product, IInv, ExtendsInv, Terminal

(* Every node of the wave may run by what the files say. *)
LEMMA WaveIsFed ==
  ASSUME IInv, LineageInv, AheadInv, pc = "putting", NEW n \in Running
  PROVE  Durable!Fed(n)
<1>1. rs \in RuntimeStates /\ rs # NoState /\ n \in Nodes(Graph)
  BY SentinelAssumption DEF IInv, TypeOK, Running
<1>2. Sound(store, rs) /\ ResolvedSlots(Graph, rs, n) = InputSlots(Graph, n)
  BY <1>1 DEF LineageInv, StatesSound, Loaded, WaveInv
<1>3. ASSUME NEW slot \in InputSlots(Graph, n) \ InitialSlots
      PROVE  \E e \in Incoming(Graph, n, slot) :
               LET source == Source(Graph, e)
               IN  /\ Decision(source) = "SUCCEEDED"
                   /\ Graph.edges[e].source_output = PublishedSlot(Graph, source)
                   /\ Conditional(Graph, e) =>
                        Evaluate(Graph.edges[e].condition, Product(source))
  <2>1. PICK e \in Incoming(Graph, n, slot) :
               CameOver(rs, e, ResolveInputIds(Graph, rs, n)[slot])
    BY <1>1, <1>2, <1>3, InputsCameOver
  <2> DEFINE source == Source(Graph, e)
  <2>2. e \in Edges(Graph) /\ e \in rs.active_edges /\ OutputOn(Graph, rs, e) # NoArtifact
    BY <2>1 DEF CameOver, Incoming
  <2>3. /\ source \in Nodes(Graph)
        /\ rs.node_outputs[source] # NoArtifact
        /\ Graph.edges[e].source_output = PublishedSlot(Graph, source)
    BY <1>1, <2>2, EdgeEnds, OutputOnSource
  <2>4. rs.node_status[source] = "SUCCEEDED"
    BY <1>2, <2>3 DEF Sound, OutputsOwned
  <2>5. Decision(source) = "SUCCEEDED"
    BY <2>3, <2>4 DEF AheadInv
  <2>6. Product(source) = store[rs.node_outputs[source]].payload
    BY <2>3, <2>5, ProductInMemory
  <2>7. Conditional(Graph, e) => Taken(store, rs, e)
    BY <1>2, <2>2 DEF Sound, EdgesSettled
  <2> QED BY <2>3, <2>5, <2>6, <2>7 DEF Taken
<1> QED BY <1>1, <1>3, FedMeans

(* What is committed in memory and not yet saved was fed. *)
FedInv == pc = "logging" => \A n \in DOMAIN results : Durable!Fed(n)

(* A step that leaves the checkpoint and what it refers to shows nothing.    *)
LEMMA SameFilesStutter ==
  ASSUME IInv, LineageInv, checkpoint' = checkpoint,
         \A st \in Saved : \A id \in Referenced(st) : store'[id] = store[id]
  PROVE  /\ \A n \in Nodes(Graph) : Decision(n)' = Decision(n) /\ Product(n)' = Product(n)
         /\ Answer' = Answer
<1>1. \A n \in Nodes(Graph) : Decision(n)' = Decision(n)
  BY DEF Decision
<1>2. ASSUME NEW n \in Nodes(Graph), Decision(n) = "SUCCEEDED"
      PROVE  store'[checkpoint.node_outputs[n]] = store[checkpoint.node_outputs[n]]
  <2>1. checkpoint # NoState /\ checkpoint.node_status[n] = "SUCCEEDED"
    BY <1>2 DEF Decision, Terminal
  <2>2. checkpoint.node_outputs[n] # NoArtifact
    BY <2>1 DEF LineageInv, StatesSound, Saved, Sound, OutputsOwned
  <2> QED BY <2>1, <2>2 DEF Saved, Referenced, Outputs
<1>3. \A n \in Nodes(Graph) : Product(n)' = Product(n)
  BY <1>1, <1>2 DEF Product
<1> QED BY <1>1, <1>3 DEF Answer

(* Every step but the write of a checkpoint is of this kind. *)
LEMMA OnlySavesShow ==
  ASSUME IInv, LineageInv, [Next]_vars, ~ SaveCheckpoint
  PROVE  /\ checkpoint' = checkpoint
         /\ \A st \in Saved : \A id \in Referenced(st) : store'[id] = store[id]
<1>1. checkpoint' = checkpoint
  BY OnlySaveChangesCheckpoint
<1>2. CASE StartFresh
  BY <1>1, <1>2 DEF StartFresh, Saved
<1>3. CASE PutArtifact
  <2> SUFFICES ASSUME NEW st \in Saved, NEW id \in Referenced(st)
               PROVE  store'[id] = store[id]
    BY <1>1
  <2>1. /\ FirstTodo \in Succeeded(results)
        /\ store' = With(store, ArtifactId(FirstTodo), Envelope(FirstTodo))
        /\ pc = "putting"
    BY <1>3, PutEffect
  <2>2. id \in DOMAIN store
    BY DEF IInv, ReferencedArtifactsStored
  <2>3. id # ArtifactId(FirstTodo)
    BY <2>1, PutIsNew DEF Succeeded
  <2> HIDE DEF ArtifactId
  <2> QED BY <2>1, <2>2, <2>3 DEF With
<1>4. CASE ~ StartFresh /\ ~ PutArtifact
  <2>1. store' = store
    BY <1>4 DEF Next, vars, Resume, RefuseDrift, BeginWave, EndLoop, NodeFinishes, NodeSucceeds,
                NodeFails, NodeRaises, Finish, WaveEnds, Commit, CommitResults, LogResult,
                SaveCheckpoint, LogCheckpoint, FreezeReturn, Crash, EditContracts, files
  <2> QED BY <1>1, <2>1
<1> QED BY <1>2, <1>3, <1>4

LEMMA NextFed ==
  ASSUME IInv, LineageInv, AheadInv, FedInv, [Next]_vars
  PROVE  FedInv'
<1> SUFFICES ASSUME pc' = "logging" PROVE \A n \in DOMAIN results' : Durable!Fed(n)'
  BY DEF FedInv
<1>1. CASE CommitResults \/ LogResult \/ UNCHANGED vars
  <2>1. results' = results /\ UNCHANGED <<store, checkpoint>>
    BY <1>1 DEF CommitResults, LogResult, files, vars
  <2>2. \A n \in DOMAIN results : n \in Nodes(Graph) /\ Durable!Fed(n)
    <3>1. CASE CommitResults
      <4>1. pc = "putting" /\ DOMAIN results = Running
        BY <3>1 DEF CommitResults, IInv, ResultsInv
      <4> QED BY <4>1, WaveIsFed DEF Running
    <3>2. CASE LogResult \/ UNCHANGED vars
      BY <3>2 DEF LogResult, vars, FedInv, IInv, TypeOK
    <3> QED BY <1>1, <3>1, <3>2
  <2>3. \A n \in Nodes(Graph) : Durable!Fed(n)' <=> Durable!Fed(n)
    <3>1. \A n : Decision(n)' = Decision(n) /\ Product(n)' = Product(n)
      BY <2>1 DEF Decision, Product
    <3> QED BY <3>1 DEF Durable!Fed, Durable!Supplies, Durable!Into
  <2> QED BY <2>1, <2>2, <2>3
<1>2. CASE ~ (CommitResults \/ LogResult \/ UNCHANGED vars)
  BY <1>2 DEF Next, StartFresh, Resume, RefuseDrift, BeginWave, EndLoop, NodeFinishes,
              NodeSucceeds, NodeFails, NodeRaises, Finish, WaveEnds, Commit, PutArtifact,
              SaveCheckpoint, LogCheckpoint, FreezeReturn, Crash, EditContracts, memory, Stopped
<1> QED BY <1>1, <1>2

(* What the write of a checkpoint shows of each node. *)
LEMMA SaveShows ==
  ASSUME IInv, LineageInv, AheadInv, SaveCheckpoint, NEW n \in Nodes(Graph)
  PROVE  /\ Decision(n)' = IF rs.node_status[n] \in Terminal THEN rs.node_status[n] ELSE "UNDECIDED"
         /\ Product(n)' = IF rs.node_status[n] = "SUCCEEDED"
                          THEN store[rs.node_outputs[n]].payload ELSE NoPayload
         /\ Decision(n) # "UNDECIDED" => Decision(n)' = Decision(n) /\ Product(n)' = Product(n)
         /\ Decision(n) = "UNDECIDED" => Product(n) = NoPayload
         /\ Decision(n)' \in {"SUCCEEDED", "FAILED"} /\ Decision(n) = "UNDECIDED"
              <=> n \in DOMAIN results
         /\ n \in DOMAIN results =>
              Decision(n)' = IF results[n].succeeded THEN "SUCCEEDED" ELSE "FAILED"
<1>1. pc = "logging" /\ checkpoint' = rs /\ store' = store /\ rs # NoState
  BY DEF SaveCheckpoint, IInv, TypeOK
<1>2. /\ Decision(n)' = IF rs.node_status[n] \in Terminal THEN rs.node_status[n] ELSE "UNDECIDED"
      /\ Product(n)' = IF rs.node_status[n] = "SUCCEEDED"
                       THEN store[rs.node_outputs[n]].payload ELSE NoPayload
  BY <1>1 DEF Decision, Product, Terminal, Dead
<1>3. Decision(n) # "UNDECIDED" => Decision(n)' = Decision(n) /\ Product(n)' = Product(n)
  BY <1>1, <1>2 DEF Decision, Product, IInv, ExtendsInv, Terminal, Dead
<1>4. Decision(n) = "UNDECIDED" => Product(n) = NoPayload
  BY DEF Product
<1>5. n \in DOMAIN results =>
        /\ Decision(n) = "UNDECIDED"
        /\ rs.node_status[n] = IF results[n].succeeded THEN "SUCCEEDED" ELSE "FAILED"
  BY <1>1 DEF AheadInv, LineageInv, CommittedInv
<1>6. rs.node_status[n] \in {"SUCCEEDED", "FAILED"} /\ Decision(n) = "UNDECIDED"
        => n \in DOMAIN results
  BY <1>1 DEF AheadInv
<1> QED BY <1>2, <1>3, <1>4, <1>5, <1>6 DEF Terminal, Dead

(* A node that the checkpoint newly says is skipped can get no input.        *)
LEMMA SkippedIsCutOff ==
  ASSUME IInv, LineageInv, AheadInv, SaveCheckpoint,
         NEW n \in Nodes(Graph), Decision(n)' = "SKIPPED"
  PROVE  Durable!CutOff(n)
<1>1. pc = "logging" /\ rs # NoState /\ rs \in RuntimeStates
  BY SentinelAssumption DEF SaveCheckpoint, IInv, TypeOK
<1>2. Sound(store, rs)
  BY <1>1 DEF LineageInv, StatesSound, Loaded
<1>3. rs.node_status[n] = "SKIPPED"
  BY SaveShows DEF Terminal, Dead
<1>4. PICK slot \in InputSlots(Graph, n) \ InitialSlots :
        /\ Incoming(Graph, n, slot) # {}
        /\ \A e \in Incoming(Graph, n, slot) : EdgeIsDead(Graph, rs, e)
  BY <1>2, <1>3 DEF Sound, SkipsForced
<1>5. Durable!Into(n, slot) = Incoming(Graph, n, slot)
  BY SameGraph DEF Durable!Into, Incoming
<1>6. ASSUME NEW e \in Incoming(Graph, n, slot)
      PROVE  LET m == Source(Graph, e)
             IN  \/ Decision(m)' \in {"FAILED", "SKIPPED"}
                 \/ /\ Decision(m)' = "SUCCEEDED"
                    /\ ~ /\ Graph.edges[e].source_output = PublishedSlot(Graph, m)
                         /\ Conditional(Graph, e) =>
                              Evaluate(Graph.edges[e].condition, Product(m)')
  <2> DEFINE m == Source(Graph, e)
  <2>1. e \in Edges(Graph) /\ m \in Nodes(Graph)
    BY EdgeEnds DEF Incoming
  <2>2. /\ Decision(m)' = IF rs.node_status[m] \in Terminal THEN rs.node_status[m] ELSE "UNDECIDED"
        /\ Product(m)' = IF rs.node_status[m] = "SUCCEEDED"
                         THEN store[rs.node_outputs[m]].payload ELSE NoPayload
    BY <2>1, SaveShows
  <2>3. CASE rs.node_status[m] \in Dead
    BY <2>2, <2>3 DEF Terminal, Dead
  <2>4. CASE e \in rs.inactive_edges
    <3>1. Conditional(Graph, e) /\ rs.node_status[m] = "SUCCEEDED" /\ ~ Taken(store, rs, e)
      BY <1>2, <2>1, <2>4 DEF Sound, EdgesSettled
    <3> QED BY <2>2, <3>1 DEF Taken, Terminal
  <2> QED BY <1>4, <2>3, <2>4 DEF EdgeIsDead
<1>7. \A e \in Incoming(Graph, n, slot) : Source(Graph, e) \in Nodes(Graph)
  BY EdgeEnds DEF Incoming
<1> QED BY <1>4, <1>5, <1>6, <1>7, SameGraph DEF Durable!CutOff, Durable!Supplies

(* The write of a checkpoint decides a batch. *)
LEMMA SaveDecides ==
  ASSUME IInv, LineageInv, AheadInv, FedInv, SaveCheckpoint
  PROVE  Durable!Decide
<1> DEFINE newly == {n \in Nodes(Graph) : Decision(n) = "UNDECIDED" /\ Decision(n)' # "UNDECIDED"}
<1>0. pc = "logging" /\ checkpoint' = rs /\ rs # NoState /\ rs \in RuntimeStates
  BY SentinelAssumption DEF SaveCheckpoint, IInv, TypeOK
<1>1. Durable!NewlyDecided = newly
  BY SameGraph DEF Durable!NewlyDecided
<1>2. Answer = NoArtifact
  <2>1. checkpoint # NoState => checkpoint.final_output = NoArtifact
    BY <1>0 DEF IInv, ExtendsInv, FrozenIffAnswered, Saved
  <2> QED BY <2>1 DEF Answer
<1>3. \A n \in Nodes(Graph) \ newly : Decision(n)' = Decision(n) /\ Product(n)' = Product(n)
  BY SaveShows DEF Terminal
<1>4. \E n \in newly : Decision(n)' \in {"SUCCEEDED", "FAILED"}
  <2>1. DOMAIN results # {} /\ DOMAIN results \subseteq Nodes(Graph)
    BY <1>0 DEF LineageInv, CommittedInv, IInv, TypeOK
  <2> QED BY <2>1, SaveShows
<1>5. ASSUME NEW n \in newly
      PROVE  \/ Decision(n)' \in {"SUCCEEDED", "FAILED"} /\ Durable!Fed(n)
             \/ Decision(n)' = "SKIPPED" /\ Durable!CutOff(n)
  <2>1. CASE Decision(n)' \in {"SUCCEEDED", "FAILED"}
    BY <1>0, <2>1, SaveShows DEF FedInv
  <2>2. CASE Decision(n)' \notin {"SUCCEEDED", "FAILED"}
    <3>1. Decision(n)' = "SKIPPED"
      BY <2>2, SaveShows DEF Terminal, Dead
    <3> QED BY <3>1, SkippedIsCutOff
  <2> QED BY <2>1, <2>2
<1> DEFINE answers == {n \in newly : /\ Decision(n)' = "SUCCEEDED"
                                     /\ PublishedSlot(Graph, n) = Graph.final_output_slot}
<1>6. Durable!Answers = answers
  BY <1>1, SameGraph DEF Durable!Answers
<1>7. answers = FinalProducers(Graph, results)
  <2>1. DOMAIN results \subseteq Nodes(Graph)
    BY DEF IInv, TypeOK
  <2> QED BY <2>1, SaveShows DEF FinalProducers, Succeeded
<1>8. IF answers = {} THEN Answer' = NoArtifact ELSE Answer' \in answers
  <2>1. CASE answers = {}
    BY <1>0, <1>7, <2>1 DEF LineageInv, CommittedInv, Answer
  <2>2. CASE answers # {}
    <3>1. PICK n \in FinalProducers(Graph, results) : rs.final_output = results[n].artifact
      BY <1>0, <1>7, <2>2 DEF LineageInv, CommittedInv
    <3>2. n \in DOMAIN results /\ results[n].succeeded
      BY DEF FinalProducers, Succeeded
    <3>3. results[n].artifact = ArtifactId(n) /\ results[n].artifact \in ArtifactIds
      BY <3>2 DEF LineageInv, WaveInv, IInv, ResultsInv
    <3>4. rs.final_output # NoArtifact /\ rs.final_output.producer = n
      BY <3>1, <3>3, SentinelAssumption DEF ArtifactId
    <3> QED BY <1>0, <1>7, <2>2, <3>4 DEF Answer
  <2> QED BY <2>1, <2>2
<1> HIDE DEF newly, answers
<1>9. newly \subseteq Nodes(Graph)
  BY DEF newly
<1> QED BY <1>1, <1>2, <1>3, <1>4, <1>5, <1>6, <1>8, <1>9, SameGraph DEF Durable!Decide

(* Whoever reads only the checkpoint and the store sees DurableTask, for     *)
(* every graph and every limit, whatever crashed and was started in between. *)
THEOREM FilesImplementDurableTask == Spec => ImplementsDurableTask
<1>1. Init => FedInv
  BY DEF Init, FedInv
<1>2. IInv /\ LineageInv /\ AheadInv /\ FedInv /\ [Next]_vars => FedInv'
  BY NextFed
<1>3. Init => Durable!Init
  <2> SUFFICES ASSUME Init PROVE Durable!Init
    OBVIOUS
  <2>1. \A n : Decision(n) = "UNDECIDED" /\ Product(n) = NoPayload
    BY DEF Init, Decision, Product
  <2>2. Answer = NoArtifact
    BY DEF Init, Answer
  <2> QED BY <2>1, <2>2, SameGraph DEF Durable!Init, NoPayload
<1>4. IInv /\ LineageInv /\ AheadInv /\ FedInv /\ [Next]_vars => [Durable!Next]_(Durable!vars)
  <2> SUFFICES ASSUME IInv, LineageInv, AheadInv, FedInv, [Next]_vars
               PROVE  Durable!Next \/ UNCHANGED Durable!vars
    OBVIOUS
  <2>1. CASE SaveCheckpoint
    BY <2>1, SaveDecides DEF Durable!Next
  <2>2. CASE ~ SaveCheckpoint
    <3>1. /\ \A n \in Nodes(Graph) : Decision(n)' = Decision(n) /\ Product(n)' = Product(n)
          /\ Answer' = Answer
      BY <2>2, OnlySavesShow, SameFilesStutter
    <3> QED BY <3>1 DEF Durable!vars
  <2> QED BY <2>1, <2>2
<1> QED BY <1>1, <1>2, <1>3, <1>4, Invariance, LineageInvariance, AheadInvariance, PTL
        DEF Spec, ImplementsDurableTask, Durable!Spec

-----------------------------------------------------------------------------
(* What a step does to the states, and to the store.                         *)

(* The state new is st with nodes set running, all of whose inputs are       *)
(* there, or skipped.                                                        *)
Dispatches(st, new) ==
  /\ Advances(st, new)
  /\ new.final_output = st.final_output
  /\ new.wave_id = st.wave_id
  /\ \A n \in Nodes(Graph) : new.node_status[n] = "RUNNING" =>
       ResolvedSlots(Graph, new, n) = InputSlots(Graph, n)

LEMMA LoopDispatches ==
  ASSUME IInv, LineageInv, BeginWave \/ EndLoop
  PROVE  Dispatches(rs, rs')
<1>1. pc = "loop" /\ rs \in RuntimeStates /\ rs # NoState
  BY SentinelAssumption DEF BeginWave, EndLoop, IInv, TypeOK
<1>2. \A n \in Nodes(Graph) : rs.node_status[n] # "RUNNING"
  BY <1>1 DEF IInv, LoopInv
<1> DEFINE skipped == AfterSkipping
           ready   == FindReadyNodes(Graph, skipped, MaxParallel)
<1>3. /\ skipped \in RuntimeStates
      /\ Advances(rs, skipped)
      /\ skipped.final_output = rs.final_output
      /\ skipped.frozen = rs.frozen
  BY <1>1, SkipEffect, SkipAdvances DEF AfterSkipping
<1>4. skipped.wave_id = rs.wave_id
  <2> DEFINE impossible == ImpossibleNodes(Graph, rs)
  <2> HIDE DEF impossible
  <2>1. skipped = Skip(rs, impossible)
    BY DEF AfterSkipping, impossible
  <2> QED BY <1>1, <2>1 DEF Skip, RuntimeStates
<1>5. \A n \in Nodes(Graph) : skipped.node_status[n] # "RUNNING"
  BY <1>1, <1>2, SkipEffect DEF AfterSkipping
<1>6. \A n \in ready : /\ n \in Nodes(Graph)
                       /\ skipped.node_status[n] = "PENDING"
                       /\ ResolvedSlots(Graph, skipped, n) = InputSlots(Graph, n)
  BY DEF FindReadyNodes, Ready
<1>7. BeginWave => rs' = [skipped EXCEPT !.node_status =
                            [n \in Nodes(Graph) |-> IF n \in ready THEN "RUNNING" ELSE @[n]]]
  BY DEF BeginWave
<1>8. EndLoop => rs' = skipped
  <2>1. ~ CanFinalize(rs)
    BY <1>1 DEF IInv, LoopInv, FrozenIffAnswered, Loaded, CanFinalize
  <2> QED BY <2>1 DEF EndLoop
<1> HIDE DEF skipped, ready
<1>9. CASE BeginWave
  <2>1. /\ rs'.node_outputs = skipped.node_outputs
        /\ rs'.initial_artifacts = skipped.initial_artifacts
        /\ rs'.active_edges = skipped.active_edges
        /\ rs'.inactive_edges = skipped.inactive_edges
        /\ rs'.final_output = skipped.final_output
        /\ rs'.wave_id = skipped.wave_id
        /\ \A n \in Nodes(Graph) :
             rs'.node_status[n] = IF n \in ready THEN "RUNNING" ELSE skipped.node_status[n]
    BY <1>3, <1>7, <1>9 DEF RuntimeStates
  <2>2. \A n \in Nodes(Graph) : n \in ready => rs.node_status[n] = "PENDING"
    BY <1>3, <1>6 DEF Advances
  <2>3. Advances(rs, rs')
    BY <1>3, <2>1, <2>2 DEF Advances
  <2>4. \A n : ResolvedSlots(Graph, rs', n) = ResolvedSlots(Graph, skipped, n)
    BY <2>1 DEF ResolvedSlots, Supplying, OutputOn
  <2>5. \A n \in Nodes(Graph) : rs'.node_status[n] = "RUNNING" => n \in ready
    BY <1>5, <2>1
  <2> QED BY <1>3, <1>4, <1>6, <2>1, <2>3, <2>4, <2>5 DEF Dispatches
<1>10. CASE EndLoop
  BY <1>3, <1>4, <1>5, <1>8, <1>10 DEF Dispatches
<1> QED BY <1>9, <1>10

(* Where a state of the next moment comes from. *)
LEMMA NewStates ==
  ASSUME IInv, LineageInv, [Next]_vars
  PROVE  \A st \in Loaded' \cup Saved' :
           \/ st \in Loaded \cup Saved
           \/ IsFresh(st) /\ StartFresh
           \/ rs \in Loaded /\ st = rs' /\ Dispatches(rs, st) /\ (BeginWave \/ EndLoop)
           \/ rs \in Loaded /\ st = rs' /\ CommitResults
<1>1. CASE StartFresh
  BY <1>1 DEF StartFresh, Start, FreshState, IsFresh, Loaded, Saved
<1>2. CASE Resume \/ RefuseDrift
  BY <1>2 DEF Resume, RefuseDrift, Start, Loaded, Saved
<1>3. CASE BeginWave \/ EndLoop
  <2>1. checkpoint' = checkpoint /\ rs # NoState
    BY <1>3, SentinelAssumption DEF BeginWave, EndLoop, IInv, TypeOK
  <2> QED BY <1>3, <2>1, LoopDispatches DEF Loaded, Saved
<1>4. CASE CommitResults
  <2>1. checkpoint' = checkpoint /\ rs # NoState
    BY <1>4, SentinelAssumption DEF CommitResults, files, IInv, TypeOK
  <2> QED BY <1>4, <2>1 DEF Loaded, Saved
<1>5. CASE (\E n \in Nodes(Graph) : NodeFinishes(n)) \/ WaveEnds \/ PutArtifact \/ LogResult
             \/ LogCheckpoint \/ FreezeReturn \/ Crash \/ EditContracts \/ UNCHANGED vars
  <2>1. checkpoint' = checkpoint /\ rs' \in {rs, NoState}
    BY <1>5 DEF NodeFinishes, NodeSucceeds, NodeFails, NodeRaises, Finish, WaveEnds, PutArtifact,
                LogResult, LogCheckpoint, FreezeReturn, Crash, EditContracts, files, memory, vars
  <2> QED BY <2>1 DEF Loaded, Saved
<1>6. CASE SaveCheckpoint
  <2>1. checkpoint' = rs /\ rs' = rs /\ rs # NoState
    BY <1>6, SentinelAssumption DEF SaveCheckpoint, IInv, TypeOK
  <2> QED BY <2>1 DEF Loaded, Saved
<1> QED BY <1>1, <1>2, <1>3, <1>4, <1>5, <1>6 DEF Next, Commit

(* What the commit makes of memory, in one place. *)
LEMMA CommitEffect ==
  ASSUME IInv, LineageInv, CommitResults
  PROVE  /\ rs \in RuntimeStates /\ rs # NoState /\ ~ rs.frozen
         /\ rs' = CommitWave(Graph, rs, results)
         /\ Delivered(store, rs, results)
         /\ Sound(store, rs)
         /\ Commits(rs, results, rs')
         /\ CommitsSoundly(store, rs, results, rs')
         /\ pc = "putting" /\ pc' = "logging"
         /\ UNCHANGED <<results, store, checkpoint, events, boot>>
<1>1. /\ pc = "putting" /\ pc' = "logging"
      /\ rs' = CommitWave(Graph, rs, results)
      /\ UNCHANGED <<results, store, checkpoint, events, boot>>
  BY DEF CommitResults, files, config
<1>2. rs \in RuntimeStates /\ rs # NoState /\ ~ rs.frozen
  BY <1>1, SentinelAssumption DEF IInv, TypeOK, LoopInv
<1>3. Delivered(store, rs, results) /\ Sound(store, rs)
  BY <1>2, WaveDelivered DEF LineageInv, StatesSound, Loaded
<1>4. /\ DOMAIN results \subseteq Nodes(Graph)
      /\ \A n \in Succeeded(results) : results[n].artifact \in ArtifactIds
  BY <1>3 DEF Delivered
<1> QED BY <1>1, <1>2, <1>3, <1>4, CommitWaveEffect, CommitSound

(* What has arrived at a node stays there over a commit. *)
LEMMA CommitKeepsArrivals ==
  ASSUME NEW st \in RuntimeStates, NEW res, NEW kept,
         Sound(kept, st), Delivered(kept, st, res),
         NEW e \in Edges(Graph), NEW id, CameOver(st, e, id)
  PROVE  CameOver(CommitWave(Graph, st, res), e, id)
<1> DEFINE settled == Settled(st, res)
           skipped == Skip(settled, ImpossibleNodes(Graph, settled))
           new     == [skipped EXCEPT !.wave_id = @ + 1]
<1>1. CommitWave(Graph, st, res) = new
  BY DEF CommitWave, Settled
<1>2. CameOver(settled, e, id)
  BY SettledKeepsArrivals
<1>3. settled \in RuntimeStates
  BY SettledEffect DEF Delivered
<1> HIDE DEF settled
<1>4. skipped \in RuntimeStates /\ Advances(settled, skipped)
  BY <1>3, SkipEffect, SkipAdvances
<1> HIDE DEF skipped
<1>5. new.node_outputs = settled.node_outputs /\ new.active_edges = settled.active_edges
  BY <1>4 DEF Advances, RuntimeStates
<1> HIDE DEF new
<1> QED BY <1>1, <1>2, <1>5 DEF CameOver, OutputOn

(* A commit is one more wave. *)
LEMMA CommitCounts ==
  ASSUME NEW st \in RuntimeStates, NEW res, NEW kept, Delivered(kept, st, res)
  PROVE  CommitWave(Graph, st, res).wave_id = st.wave_id + 1
<1> DEFINE recorded == RecordResults(st, res)
           frozen   == FreezeFinalOutput(Graph, recorded, res)
           settled  == SettleConditionalEdges(Graph, frozen, res)
           skipped  == Skip(settled, ImpossibleNodes(Graph, settled))
           new      == [skipped EXCEPT !.wave_id = @ + 1]
<1>1. CommitWave(Graph, st, res) = new
  BY DEF CommitWave
<1>2. DOMAIN res \subseteq Nodes(Graph) /\ \A n \in Succeeded(res) : res[n].artifact \in ArtifactIds
  BY DEF Delivered
<1>3. recorded \in RuntimeStates /\ recorded.wave_id = st.wave_id
  <2>1. recorded \in RuntimeStates
    BY <1>2, RecordResultsEffect
  <2>2. recorded.wave_id = st.wave_id
    BY DEF RecordResults, RuntimeStates
  <2> QED BY <2>1, <2>2
<1> HIDE DEF recorded
<1>4. frozen \in RuntimeStates /\ frozen.wave_id = recorded.wave_id
  <2>1. frozen \in RuntimeStates
    BY <1>2, <1>3, FreezeEffect
  <2> DEFINE first == res[FirstNode(Graph, FinalProducers(Graph, res))].artifact
  <2> HIDE DEF first
  <2> QED BY <1>3, <2>1 DEF FreezeFinalOutput, RuntimeStates, first
<1> HIDE DEF frozen
<1>5. settled \in RuntimeStates /\ settled.wave_id = frozen.wave_id
  <2>1. settled \in RuntimeStates
    BY <1>4, SettleEffect
  <2>2. settled.wave_id = frozen.wave_id
    BY <1>4 DEF SettleConditionalEdges, RuntimeStates
  <2> QED BY <2>1, <2>2
<1> HIDE DEF settled
<1>6. skipped \in RuntimeStates /\ skipped.wave_id = settled.wave_id
  <2> DEFINE impossible == ImpossibleNodes(Graph, settled)
  <2>1. skipped \in RuntimeStates
    BY <1>5, SkipEffect
  <2>2. skipped = Skip(settled, impossible)
    OBVIOUS
  <2> HIDE DEF impossible, skipped
  <2> QED BY <1>5, <2>1, <2>2 DEF Skip, RuntimeStates
<1> HIDE DEF skipped
<1> QED BY <1>1, <1>3, <1>4, <1>5, <1>6 DEF RuntimeStates

(* The file of a result is a new one: no checkpoint refers to it, and those  *)
(* of this start that no checkpoint refers to were put before.               *)
LEMMA PutOnNewFile ==
  ASSUME IInv, LineageInv, OrphanInv, PutArtifact
  PROVE  ArtifactId(FirstTodo) \notin DOMAIN store
<1> DEFINE n  == FirstTodo
           id == ArtifactId(n)
<1>1. n \in todo /\ n \in Succeeded(results) /\ pc = "putting"
  BY PutEffect
<1>2. n \in Nodes(Graph) /\ n \in DOMAIN results
  BY <1>1 DEF IInv, TypeOK, Succeeded
<1>3. \A st \in Saved : id \notin Outputs(st)
  BY <1>1, <1>2, PutIsNew DEF Referenced
<1> HIDE DEF n
<1>4. id \notin Made(Succeeded(results) \ todo)
  BY <1>1 DEF Made, ArtifactId
<1>5. id \notin Orphans(boot)
  BY <1>1, <1>4 DEF OrphanInv
<1>6. id.boot = boot /\ id.producer \in Nodes(Graph)
  BY <1>2 DEF ArtifactId
<1> HIDE DEF id
<1>7. id \notin DOMAIN store
  BY <1>3, <1>5, <1>6 DEF Orphans
<1> QED BY <1>7 DEF id, n

(* The store only grows, by the given artifact of a start and by what nodes  *)
(* made.                                                                     *)
LEMMA StoreGrows ==
  ASSUME IInv, LineageInv, OrphanInv, [Next]_vars
  PROVE  /\ DOMAIN store \subseteq DOMAIN store'
         /\ \A id \in DOMAIN store : store'[id] = store[id]
         /\ \A id \in DOMAIN store' \ DOMAIN store :
              id.producer \in Nodes(Graph) =>
                PutArtifact /\ id = ArtifactId(FirstTodo) /\ store'[id] = Envelope(FirstTodo)
<1>1. CASE StartFresh
  <2> DEFINE problem == [producer |-> NoNode, boot |-> boot']
  <2>1. PICK envelope : store' = With(store, problem, envelope)
    BY <1>1 DEF StartFresh
  <2>2. \A id \in DOMAIN store : id.boot \in Nat /\ id.boot <= boot
    BY DEF OrphanInv, IInv, TypeOK, ArtifactIds
  <2>3. boot' = boot + 1 /\ boot \in Nat
    BY <1>1, MaxBootsAssumption DEF StartFresh, Start, IInv, TypeOK
  <2>4. problem \notin DOMAIN store /\ problem.producer \notin Nodes(Graph)
    BY <2>2, <2>3, NoNodeAssumption
  <2> HIDE DEF problem
  <2> QED BY <2>1, <2>4 DEF With
<1>2. CASE PutArtifact
  <2> DEFINE id == ArtifactId(FirstTodo)
  <2>1. store' = With(store, id, Envelope(FirstTodo)) /\ id \notin DOMAIN store
    BY <1>2, PutEffect, PutOnNewFile
  <2> HIDE DEF id
  <2>2. /\ DOMAIN store \subseteq DOMAIN store'
        /\ \A other \in DOMAIN store : store'[other] = store[other]
        /\ \A other \in DOMAIN store' \ DOMAIN store :
             other = id /\ store'[other] = Envelope(FirstTodo)
    BY <2>1 DEF With
  <2> QED BY <1>2, <2>2 DEF id
<1>3. CASE ~ StartFresh /\ ~ PutArtifact
  <2>1. store' = store
    BY <1>3 DEF Next, vars, Resume, RefuseDrift, BeginWave, EndLoop, NodeFinishes, NodeSucceeds,
                NodeFails, NodeRaises, Finish, WaveEnds, Commit, CommitResults, LogResult,
                SaveCheckpoint, LogCheckpoint, FreezeReturn, Crash, EditContracts, files
  <2> QED BY <2>1
<1> QED BY <1>1, <1>2, <1>3

-----------------------------------------------------------------------------
(* Of alternative branches at most one runs.                                 *)

(* A node is started only with all its inputs, and they never go away.       *)
ResolvedInv ==
  \A st \in Loaded \cup Saved : \A n \in Started(st) :
    ResolvedSlots(Graph, st, n) = InputSlots(Graph, n)

(* What a node makes and what is on file of it are of the schema it          *)
(* publishes.                                                                *)
PayloadInv ==
  /\ \A n \in Succeeded(results) : results[n].payload \in SchemaPayloads[PublishedSchema(Graph, n)]
  /\ \A id \in DOMAIN store : id.producer \in Nodes(Graph) =>
       store[id].payload \in SchemaPayloads[PublishedSchema(Graph, id.producer)]

(* A slot is resolved when something has arrived on it. *)
LEMMA ResolvedMeansArrived ==
  ASSUME NEW st \in RuntimeStates, NEW n \in Nodes(Graph)
  PROVE  ResolvedSlots(Graph, st, n) = InputSlots(Graph, n) <=>
           \A slot \in InputSlots(Graph, n) \ InitialSlots :
             \E e \in Incoming(Graph, n, slot) : \E id : CameOver(st, e, id)
<1>1. DOMAIN st.initial_artifacts = InitialSlots
  BY DEF RuntimeStates
<1>2. \A slot : Supplying(Graph, st, n, slot) # {} <=>
        \E e \in Incoming(Graph, n, slot) : \E id : CameOver(st, e, id)
  BY DEF Supplying, CameOver
<1> QED BY <1>1, <1>2 DEF ResolvedSlots

(* More arrivals do not take any away. *)
LEMMA ResolvedStays ==
  ASSUME NEW st \in RuntimeStates, NEW new \in RuntimeStates, NEW n \in Nodes(Graph),
         \A e \in Edges(Graph) : \A id : CameOver(st, e, id) => CameOver(new, e, id),
         ResolvedSlots(Graph, st, n) = InputSlots(Graph, n)
  PROVE  ResolvedSlots(Graph, new, n) = InputSlots(Graph, n)
<1>1. \A slot : Incoming(Graph, n, slot) \subseteq Edges(Graph)
  BY DEF Incoming
<1> QED BY <1>1, ResolvedMeansArrived

LEMMA NextResolved ==
  ASSUME IInv, IInv', LineageInv, ResolvedInv, [Next]_vars
  PROVE  ResolvedInv'
<1> SUFFICES ASSUME NEW st \in Loaded' \cup Saved', NEW n \in Started(st)
             PROVE  ResolvedSlots(Graph, st, n) = InputSlots(Graph, n)
  BY DEF ResolvedInv
<1>0. n \in Nodes(Graph) /\ st.node_status[n] \in {"RUNNING", "SUCCEEDED", "FAILED"}
  BY DEF Started
<1>1. st \in RuntimeStates
  BY DEF IInv, TypeOK, Loaded, Saved
<1>2. CASE st \in Loaded \cup Saved
  BY <1>2 DEF ResolvedInv
<1>3. CASE IsFresh(st)
  BY <1>0, <1>3 DEF IsFresh
<1>4. CASE rs \in Loaded /\ Dispatches(rs, st)
  <2>1. CASE st.node_status[n] = "RUNNING"
    BY <1>0, <1>4, <2>1 DEF Dispatches
  <2>2. CASE st.node_status[n] # "RUNNING"
    <3>1. rs.node_status[n] = st.node_status[n]
      BY <1>0, <1>4, <2>2 DEF Dispatches, Advances
    <3>2. ResolvedSlots(Graph, rs, n) = InputSlots(Graph, n)
      BY <1>0, <1>4, <3>1 DEF ResolvedInv, Started
    <3>3. ResolvedSlots(Graph, st, n) = ResolvedSlots(Graph, rs, n)
      BY <1>4 DEF Dispatches, Advances, ResolvedSlots, Supplying, OutputOn
    <3> QED BY <3>2, <3>3
  <2> QED BY <2>1, <2>2
<1>5. CASE rs \in Loaded /\ st = rs' /\ CommitResults
  <2>1. /\ rs \in RuntimeStates /\ Sound(store, rs) /\ Delivered(store, rs, results)
        /\ st = CommitWave(Graph, rs, results)
        /\ Commits(rs, results, st)
    BY <1>5, CommitEffect
  <2>2. n \in Started(rs)
    <3>1. CASE n \in DOMAIN results
      BY <1>0, <2>1, <3>1 DEF Delivered, Started
    <3>2. CASE n \notin DOMAIN results
      BY <1>0, <2>1, <3>2 DEF Commits, Started
    <3> QED BY <3>1, <3>2
  <2>3. ResolvedSlots(Graph, rs, n) = InputSlots(Graph, n)
    BY <1>5, <2>2 DEF ResolvedInv
  <2>4. \A e \in Edges(Graph) : \A id : CameOver(rs, e, id) => CameOver(st, e, id)
    BY <2>1, CommitKeepsArrivals
  <2> QED BY <1>0, <1>1, <2>1, <2>3, <2>4, ResolvedStays
<1> QED BY <1>2, <1>3, <1>4, <1>5, NewStates

LEMMA NextPayloads ==
  ASSUME IInv, LineageInv, OrphanInv, PayloadInv, [Next]_vars
  PROVE  PayloadInv'
<1>1. \A n \in Succeeded(results') :
        results'[n].payload \in SchemaPayloads[PublishedSchema(Graph, n)]
  <2>1. CASE \E n \in Nodes(Graph) : NodeSucceeds(n)
    <3>1. PICK n \in Nodes(Graph) : NodeSucceeds(n)
      BY <2>1
    <3>2. PICK payload \in SchemaPayloads[PublishedSchema(Graph, n)] :
                 Finish(n, [succeeded |-> TRUE, artifact |-> ArtifactId(n), payload |-> payload])
      BY <3>1 DEF NodeSucceeds
    <3>3. PICK result : /\ result.payload = payload
                        /\ results' = With(results, n, result)
      BY <3>2 DEF Finish
    <3> QED BY <3>3 DEF With, Succeeded, PayloadInv
  <2>2. CASE \E n \in Nodes(Graph) : NodeFails(n)
    <3>1. PICK n \in Nodes(Graph) :
                 \E result : ~ result.succeeded /\ results' = With(results, n, result)
      BY <2>2 DEF NodeFails, Finish
    <3>2. PICK result : ~ result.succeeded /\ results' = With(results, n, result)
      BY <3>1
    <3> QED BY <3>2 DEF With, Succeeded, PayloadInv
  <2>3. CASE results' = results \/ results' = << >>
    BY <2>3 DEF Succeeded, PayloadInv
  <2> QED BY <2>1, <2>2, <2>3
          DEF Next, vars, StartFresh, Resume, RefuseDrift, Start, BeginWave, EndLoop, NodeFinishes,
              NodeRaises, WaveEnds, Commit, PutArtifact, CommitResults, LogResult, SaveCheckpoint,
              LogCheckpoint, FreezeReturn, Crash, EditContracts, memory
<1>2. ASSUME NEW id \in DOMAIN store', id.producer \in Nodes(Graph)
      PROVE  store'[id].payload \in SchemaPayloads[PublishedSchema(Graph, id.producer)]
  <2>1. CASE id \in DOMAIN store
    BY <1>2, <2>1, StoreGrows DEF PayloadInv
  <2>2. CASE id \notin DOMAIN store
    <3>1. PutArtifact /\ id = ArtifactId(FirstTodo) /\ store'[id] = Envelope(FirstTodo)
      BY <1>2, <2>2, StoreGrows
    <3>2. FirstTodo \in Succeeded(results)
      BY <3>1, PutEffect
    <3>3. id.producer = FirstTodo /\ store'[id].payload = results[FirstTodo].payload
      BY <3>1 DEF ArtifactId, Envelope
    <3> QED BY <3>2, <3>3 DEF PayloadInv
  <2> QED BY <2>1, <2>2
<1> QED BY <1>1, <1>2 DEF PayloadInv

(* The invariants hold in every reachable state. *)
LEMMA OrphanInvariance == Spec => []OrphanInv
<1>1. Init => OrphanInv
  BY InitOrphans
<1>2. IInv /\ LineageInv /\ OrphanInv /\ [Next]_vars => OrphanInv'
  BY NextOrphans
<1> QED BY <1>1, <1>2, Invariance, LineageInvariance, PTL DEF Spec

LEMMA ResolvedInvariance == Spec => []ResolvedInv
<1>1. Init => ResolvedInv
  BY DEF Init, ResolvedInv, Loaded, Saved
<1>2. IInv /\ IInv' /\ LineageInv /\ ResolvedInv /\ [Next]_vars => ResolvedInv'
  BY NextResolved
<1> QED BY <1>1, <1>2, Invariance, LineageInvariance, PTL DEF Spec

LEMMA PayloadInvariance == Spec => []PayloadInv
<1>1. Init => PayloadInv
  BY DEF Init, PayloadInv, Succeeded
<1>2. IInv /\ LineageInv /\ OrphanInv /\ PayloadInv /\ [Next]_vars => PayloadInv'
  BY NextPayloads
<1> QED BY <1>1, <1>2, Invariance, LineageInvariance, OrphanInvariance, PTL DEF Spec

(* What a started node has got over an edge, its source has put on file: an  *)
(* artifact of its schema that meets the condition of the edge.              *)
LEMMA ArrivedFrom ==
  ASSUME IInv, LineageInv, ResolvedInv, PayloadInv,
         NEW st \in Loaded \cup Saved, NEW n \in Started(st),
         NEW slot \in InputSlots(Graph, n) \ InitialSlots
  PROVE  \E e \in Incoming(Graph, n, slot) :
           LET source == Source(Graph, e)
               said   == store[st.node_outputs[source]].payload
           IN  /\ source \in Nodes(Graph)
               /\ st.node_status[source] = "SUCCEEDED"
               /\ Graph.edges[e].source_output = PublishedSlot(Graph, source)
               /\ said \in SchemaPayloads[PublishedSchema(Graph, source)]
               /\ Conditional(Graph, e) => Evaluate(Graph.edges[e].condition, said)
<1>1. /\ st \in RuntimeStates /\ n \in Nodes(Graph)
      /\ Sound(store, st) /\ Referenced(st) \subseteq DOMAIN store
  BY StatesTyped DEF Started, LineageInv, StatesSound, IInv, ReferencedArtifactsStored
<1>2. PICK e \in Incoming(Graph, n, slot) : \E id : CameOver(st, e, id)
  BY <1>1, ResolvedMeansArrived DEF ResolvedInv
<1> DEFINE source == Source(Graph, e)
<1>3. e \in Edges(Graph) /\ e \in st.active_edges /\ OutputOn(Graph, st, e) # NoArtifact
  BY <1>2 DEF CameOver, Incoming
<1>4. /\ source \in Nodes(Graph)
      /\ st.node_outputs[source] # NoArtifact
      /\ Graph.edges[e].source_output = PublishedSlot(Graph, source)
  BY <1>1, <1>3, EdgeEnds, OutputOnSource
<1>5. st.node_status[source] = "SUCCEEDED" /\ st.node_outputs[source].producer = source
  BY <1>1, <1>4 DEF Sound, OutputsOwned
<1>6. st.node_outputs[source] \in DOMAIN store
  BY <1>1, <1>4 DEF Referenced, Outputs
<1>7. store[st.node_outputs[source]].payload \in SchemaPayloads[PublishedSchema(Graph, source)]
  BY <1>4, <1>5, <1>6 DEF PayloadInv
<1>8. Conditional(Graph, e) => Taken(store, st, e)
  BY <1>1, <1>3 DEF Sound, EdgesSettled
<1> QED BY <1>4, <1>5, <1>7, <1>8 DEF Taken

(* Of two branches whose conditions nothing their source can say meets both, *)
(* at most one is ever started, in any graph, whatever crashed in between.   *)
THEOREM OneBranchOnly == Spec => []OneBranchRuns
<1>1. IInv /\ LineageInv /\ ResolvedInv /\ PayloadInv => OneBranchRuns
  <2> SUFFICES ASSUME IInv, LineageInv, ResolvedInv, PayloadInv,
                      NEW st \in Loaded \cup Saved, NEW m \in Started(st), NEW n \in AlternativesTo(m),
                      n \in Started(st)
               PROVE  FALSE
    BY DEF OneBranchRuns, Alternatives, Started
  <2>1. PICK s \in InputSlots(Graph, m) \ InitialSlots :
             \E t \in InputSlots(Graph, n) \ InitialSlots :
               \A e \in Incoming(Graph, m, s) : \A f \in Incoming(Graph, n, t) : Exclusive(e, f)
    BY DEF AlternativesTo
  <2>2. PICK t \in InputSlots(Graph, n) \ InitialSlots :
               \A e \in Incoming(Graph, m, s) : \A f \in Incoming(Graph, n, t) : Exclusive(e, f)
    BY <2>1
  <2> DEFINE said(e) == store[st.node_outputs[Source(Graph, e)]].payload
  <2>3. PICK e \in Incoming(Graph, m, s) :
               /\ said(e) \in SchemaPayloads[PublishedSchema(Graph, Source(Graph, e))]
               /\ Conditional(Graph, e) => Evaluate(Graph.edges[e].condition, said(e))
    BY ArrivedFrom
  <2>4. PICK f \in Incoming(Graph, n, t) :
               Conditional(Graph, f) => Evaluate(Graph.edges[f].condition, said(f))
    BY ArrivedFrom
  <2>5. Exclusive(e, f)
    BY <2>2
  <2> QED BY <2>3, <2>4, <2>5 DEF Exclusive
<1> QED BY <1>1, Invariance, LineageInvariance, ResolvedInvariance, PayloadInvariance, PTL

-----------------------------------------------------------------------------
(* A deadlock means a failure, or a graph with a verdict no branch is for.   *)

(* A node that published the final slot has given an answer, its own or that *)
(* of another one.                                                           *)
UnansweredInv ==
  \A st \in Loaded \cup Saved : \A n \in Nodes(Graph) :
    /\ st.node_status[n] = "SUCCEEDED"
    /\ PublishedSlot(Graph, n) = Graph.final_output_slot
    => st.final_output # NoArtifact

LEMMA NextUnanswered ==
  ASSUME IInv, LineageInv, UnansweredInv, [Next]_vars
  PROVE  UnansweredInv'
<1> SUFFICES ASSUME NEW st \in Loaded' \cup Saved', NEW n \in Nodes(Graph),
                    st.node_status[n] = "SUCCEEDED",
                    PublishedSlot(Graph, n) = Graph.final_output_slot
             PROVE  st.final_output # NoArtifact
  BY DEF UnansweredInv
<1>1. CASE st \in Loaded \cup Saved
  BY <1>1 DEF UnansweredInv
<1>2. CASE IsFresh(st)
  BY <1>2 DEF IsFresh
<1>3. CASE rs \in Loaded /\ Dispatches(rs, st)
  <2>1. rs.node_status[n] = "SUCCEEDED" /\ st.final_output = rs.final_output
    BY <1>3 DEF Dispatches, Advances
  <2> QED BY <1>3, <2>1 DEF UnansweredInv
<1>4. CASE rs \in Loaded /\ st = rs' /\ CommitResults
  <2>1. /\ Commits(rs, results, st) /\ CommitsSoundly(store, rs, results, st)
        /\ Delivered(store, rs, results) /\ ~ rs.frozen
    BY <1>4, CommitEffect
  <2>2. CASE FinalProducers(Graph, results) # {}
    <3>1. PICK m \in FinalProducers(Graph, results) : st.final_output = results[m].artifact
      BY <2>1, <2>2 DEF CommitsSoundly
    <3> QED BY <2>1, <3>1, SentinelAssumption DEF FinalProducers, Delivered
  <2>3. CASE FinalProducers(Graph, results) = {}
    <3>1. n \notin Succeeded(results) /\ st.final_output = rs.final_output
      BY <2>1, <2>3 DEF FinalProducers, CommitsSoundly
    <3>2. n \notin DOMAIN results
      BY <2>1, <3>1 DEF Commits
    <3>3. rs.node_status[n] = "SUCCEEDED"
      BY <2>1, <3>2 DEF Commits
    <3> QED BY <1>4, <3>1, <3>3 DEF UnansweredInv
  <2> QED BY <2>2, <2>3
<1> QED BY <1>1, <1>2, <1>3, <1>4, NewStates

(* The scheduler starts a node whenever one is ready. *)
LEMMA SomeReadyRuns ==
  ASSUME NEW st, Ready(Graph, st) # {}
  PROVE  FindReadyNodes(Graph, st, MaxParallel) # {}
<1> DEFINE first == FirstNode(Graph, Ready(Graph, st))
<1>1. Ready(Graph, st) \in SUBSET Nodes(Graph)
  BY DEF Ready
<1>2. /\ first \in Ready(Graph, st)
      /\ \A m \in Ready(Graph, st) \ {first} : Before(Graph, first, m)
  BY <1>1, FirstNodeExists, GraphAssumption
<1>3. \A m \in Nodes(Graph) : Graph.nodes[m].rank \in Nat
  BY GraphAssumption DEF IsGraph, IsNodeSpec, IsBaseNodeSpec
<1> HIDE DEF first
<1>4. {m \in Ready(Graph, st) : Before(Graph, m, first)} = {}
  BY <1>1, <1>2, <1>3 DEF Before
<1>5. Cardinality({m \in Ready(Graph, st) : Before(Graph, m, first)}) < MaxParallel
  BY <1>4, FS_EmptySet, MaxParallelAssumption
<1> QED BY <1>2, <1>5 DEF FindReadyNodes

(* When nothing is ready, running or failed, the nodes that succeeded are    *)
(* those that what they said feeds.                                          *)
LEMMA StuckIsClosed ==
  ASSUME NEW kept, NEW st \in RuntimeStates, Sound(kept, st), Ready(Graph, st) = {},
         \A n \in Nodes(Graph) : st.node_status[n] \notin {"RUNNING", "FAILED"},
         \A n \in Started(st) : ResolvedSlots(Graph, st, n) = InputSlots(Graph, n),
         NEW done, done = {n \in Nodes(Graph) : st.node_status[n] = "SUCCEEDED"},
         NEW said, \A n \in done : said[n] = kept[st.node_outputs[n]].payload
  PROVE  FedBy(Graph, done, said) = done
<1>1. ASSUME NEW e \in Edges(Graph)
      PROVE  (\E id : CameOver(st, e, id)) <=>
               /\ Source(Graph, e) \in done
               /\ Graph.edges[e].source_output = PublishedSlot(Graph, Source(Graph, e))
               /\ Conditional(Graph, e) => Evaluate(Graph.edges[e].condition, said[Source(Graph, e)])
  <2> DEFINE source == Source(Graph, e)
  <2>1. source \in Nodes(Graph) /\ (st.node_outputs[source] # NoArtifact <=> source \in done)
    BY EdgeEnds DEF Sound, OutputsOwned
  <2>2. (\E id : CameOver(st, e, id)) <=> e \in st.active_edges /\ OutputOn(Graph, st, e) # NoArtifact
    BY DEF CameOver
  <2>3. OutputOn(Graph, st, e) # NoArtifact <=>
          source \in done /\ Graph.edges[e].source_output = PublishedSlot(Graph, source)
    BY <2>1 DEF OutputOn
  <2>4. e \in st.active_edges <=> (Conditional(Graph, e) => Taken(kept, st, e))
    BY DEF Sound, EdgesSettled
  <2> QED BY <2>1, <2>2, <2>3, <2>4 DEF Taken
<1>2. \A n, slot : Incoming(Graph, n, slot) \subseteq Edges(Graph)
  BY DEF Incoming
<1>3. \A n \in Nodes(Graph) : n \in FedBy(Graph, done, said) <=>
        ResolvedSlots(Graph, st, n) = InputSlots(Graph, n)
  BY <1>1, <1>2, ResolvedMeansArrived DEF FedBy
<1>4. done \subseteq FedBy(Graph, done, said)
  BY <1>3 DEF Started
<1>5. ASSUME NEW n \in FedBy(Graph, done, said), n \notin done
      PROVE  FALSE
  <2>1. n \in Nodes(Graph) /\ ResolvedSlots(Graph, st, n) = InputSlots(Graph, n)
    BY <1>3 DEF FedBy
  <2>2. st.node_status[n] = "SKIPPED"
    <3>1. st.node_status[n] # "PENDING"
      BY <2>1 DEF Ready
    <3> QED BY <1>5, <2>1, <3>1 DEF RuntimeStates, NodeStatuses, Terminal, Dead
  <2>3. PICK slot \in InputSlots(Graph, n) \ InitialSlots :
               \A e \in Incoming(Graph, n, slot) : EdgeIsDead(Graph, st, e)
    BY <2>1, <2>2 DEF Sound, SkipsForced
  <2>4. PICK e \in Incoming(Graph, n, slot) : \E id : CameOver(st, e, id)
    BY <2>1, ResolvedMeansArrived
  <2>5. e \in Edges(Graph) /\ e \in st.active_edges /\ st.node_status[Source(Graph, e)] = "SUCCEEDED"
    BY <1>1, <1>2, <2>4 DEF CameOver
  <2>6. e \in st.inactive_edges
    BY <2>3, <2>5 DEF EdgeIsDead, Dead
  <2> QED BY <2>5, <2>6 DEF Sound, EdgesSettled
<1> QED BY <1>4, <1>5

(* The step into GraphDeadlockError. *)
LEMMA EndLoopDeadlock ==
  ASSUME IInv, LineageInv, ResolvedInv', PayloadInv, UnansweredInv', EndLoop, LineageInv', IInv'
  PROVE  DeadlockMeansFailure'
<1>1. /\ pc = "loop" /\ NothingReady /\ UNCHANGED <<store, checkpoint>>
  BY DEF EndLoop
<1>2. rs \in RuntimeStates /\ rs # NoState /\ ~ rs.frozen
  BY <1>1, SentinelAssumption DEF IInv, TypeOK, LoopInv
<1>3. ~ CanFinalize(rs)
  BY <1>2 DEF IInv, FrozenIffAnswered, Loaded, CanFinalize
<1>4. pc' = "deadlocked" /\ rs' = AfterSkipping
  BY <1>3 DEF EndLoop
<1>5. Dispatches(rs, rs')
  BY LoopDispatches
<1>6. rs'.final_output = NoArtifact
  BY <1>3, <1>5 DEF CanFinalize, Dispatches
<1>7. rs' \in RuntimeStates /\ rs' \in Loaded'
  BY <1>4, SentinelAssumption DEF IInv, TypeOK, Loaded
<1>8. Sound(store, rs') /\ Referenced(rs') \subseteq DOMAIN store
  BY <1>1, <1>7 DEF LineageInv, StatesSound, IInv, ReferencedArtifactsStored
<1>9. Ready(Graph, rs') = {}
  BY <1>1, <1>4, SomeReadyRuns DEF NothingReady
<1>10. \A n \in Nodes(Graph) : rs'.node_status[n] # "RUNNING"
  <2>1. \A n \in Nodes(Graph) : rs.node_status[n] # "RUNNING"
    BY <1>1 DEF IInv, LoopInv
  <2> QED BY <1>2, <1>4, <2>1, SkipEffect DEF AfterSkipping
<1>11. SUFFICES ASSUME \A n \in Nodes(Graph) : rs'.node_status[n] # "FAILED",
                       AlwaysAnswers(Graph)
                PROVE  FALSE
  BY DEF DeadlockMeansFailure
<1> DEFINE done == {n \in Nodes(Graph) : rs'.node_status[n] = "SUCCEEDED"}
           said == [n \in done |-> store[rs'.node_outputs[n]].payload]
<1>12. \A n \in Started(rs') : ResolvedSlots(Graph, rs', n) = InputSlots(Graph, n)
  BY <1>7 DEF ResolvedInv
<1>13. FedBy(Graph, done, said) = done
  BY <1>7, <1>8, <1>9, <1>10, <1>11, <1>12, StuckIsClosed
<1>14. said \in Reports(Graph, done)
  <2>1. ASSUME NEW n \in done
        PROVE  said[n] \in SchemaPayloads[PublishedSchema(Graph, n)]
    <3>1. rs'.node_outputs[n] # NoArtifact /\ rs'.node_outputs[n].producer = n
      BY <1>8 DEF Sound, OutputsOwned
    <3>2. rs'.node_outputs[n] \in DOMAIN store
      BY <1>8, <3>1 DEF Referenced, Outputs
    <3> QED BY <3>1, <3>2 DEF PayloadInv
  <2> HIDE DEF done
  <2> QED BY <2>1 DEF Reports
<1> HIDE DEF said
<1>15. PICK n \in done : PublishedSlot(Graph, n) = Graph.final_output_slot
  BY <1>11, <1>13, <1>14 DEF AlwaysAnswers
<1> QED BY <1>6, <1>7, <1>15 DEF UnansweredInv

LEMMA NextDeadlock ==
  ASSUME IInv, IInv', LineageInv, LineageInv', ResolvedInv', PayloadInv, UnansweredInv',
         DeadlockMeansFailure, [Next]_vars
  PROVE  DeadlockMeansFailure'
<1>1. CASE EndLoop
  BY <1>1, EndLoopDeadlock
<1>2. CASE EditContracts \/ UNCHANGED vars
  BY <1>2 DEF EditContracts, memory, vars, DeadlockMeansFailure
<1>3. CASE ~ EndLoop /\ ~ EditContracts /\ ~ UNCHANGED vars
  <2>1. pc' # "deadlocked"
    BY <1>3 DEF Next, StartFresh, Resume, RefuseDrift, BeginWave, NodeFinishes, NodeSucceeds,
                NodeFails, NodeRaises, Finish, WaveEnds, Commit, PutArtifact, CommitResults,
                LogResult, SaveCheckpoint, LogCheckpoint, FreezeReturn, Crash
  <2> QED BY <2>1 DEF DeadlockMeansFailure
<1> QED BY <1>1, <1>2, <1>3

(* Where every verdict has a branch, GraphDeadlockError means that a node    *)
(* failed: there is no other way for a task to end without an answer.        *)
THEOREM DeadlockNeedsFailure == Spec => []DeadlockMeansFailure
<1>1. Init => UnansweredInv /\ DeadlockMeansFailure
  BY DEF Init, UnansweredInv, DeadlockMeansFailure, Loaded, Saved
<1>2. IInv /\ LineageInv /\ UnansweredInv /\ [Next]_vars => UnansweredInv'
  BY NextUnanswered
<1>3. IInv /\ IInv' /\ LineageInv /\ LineageInv' /\ ResolvedInv' /\ PayloadInv /\ UnansweredInv'
        /\ DeadlockMeansFailure /\ [Next]_vars => DeadlockMeansFailure'
  BY NextDeadlock
<1> QED BY <1>1, <1>2, <1>3, Invariance, LineageInvariance, ResolvedInvariance,
           PayloadInvariance, PTL DEF Spec

-----------------------------------------------------------------------------
(* The events of nodes, counted.                                             *)

(* The starts of the process that have come to an end. *)
Ended == IF pc \in Active THEN boot - 1 ELSE boot

(* The events of the wave that is in memory and not in the checkpoint. *)
WaveEvents == IF pc = "logging" THEN {ResultEvent(n) : n \in DOMAIN results} ELSE {}

(* Of the events of nodes, kept are about decided nodes, one for each, and   *)
(* lost are of the waves that starts threw away, one wave for each.          *)
Accounts(kept, lost) ==
  /\ NodeEvents \subseteq kept \cup lost \cup WaveEvents
  /\ \A ev \in kept : ev.node \in Decided
  /\ \A ev, other \in kept : ev.node = other.node => ev = other
  /\ IsFiniteSet(lost)
  /\ Cardinality(lost) <= Ended * MaxParallel

CountInv == \E kept, lost : Accounts(kept, lost)

(* There are at most as many events in a wave as nodes may run.              *)
LEMMA WaveEventsWithinLimit ==
  ASSUME IInv, LineageInv
  PROVE  IsFiniteSet(WaveEvents) /\ Cardinality(WaveEvents) <= MaxParallel
<1>1. CASE pc = "logging"
  <2> DEFINE f == [n \in DOMAIN results |-> ResultEvent(n)]
  <2>1. IsFiniteSet(DOMAIN results)
    BY GraphAssumption, FS_Subset DEF IInv, TypeOK, IsGraph
  <2>2. WaveEvents = {ResultEvent(n) : n \in DOMAIN results}
    BY <1>1 DEF WaveEvents
  <2>3. f \in Surjection(DOMAIN results, WaveEvents)
    <3> HIDE DEF ResultEvent
    <3> QED BY <2>2 DEF Surjection
  <2>4. IsFiniteSet(WaveEvents) /\ Cardinality(WaveEvents) <= Cardinality(DOMAIN results)
    BY <2>1, <2>3, FS_Surjection
  <2>5. Cardinality(DOMAIN results) <= MaxParallel
    BY <1>1 DEF LineageInv, CommittedInv
  <2>6. /\ Cardinality(WaveEvents) \in Nat /\ Cardinality(DOMAIN results) \in Nat
        /\ MaxParallel \in Nat
    BY <2>1, <2>4, FS_CardinalityType, MaxParallelAssumption
  <2> QED BY <2>4, <2>5, <2>6
<1>2. CASE pc # "logging"
  BY <1>2, FS_EmptySet, MaxParallelAssumption DEF WaveEvents
<1> QED BY <1>1, <1>2

(* What is decided stays so. *)
LEMMA DecidedGrows ==
  ASSUME IInv, [Next]_vars
  PROVE  Decided \subseteq Decided'
<1>1. CASE checkpoint' = checkpoint
  BY <1>1 DEF Decided
<1>2. CASE checkpoint' # checkpoint
  <2>1. pc = "logging" /\ checkpoint' = rs
    BY <1>2, OnlySaveChangesCheckpoint DEF SaveCheckpoint
  <2>2. rs # NoState
    BY <2>1 DEF IInv, TypeOK
  <2> QED BY <2>1, <2>2 DEF Decided, IInv, ExtendsInv, Terminal, Dead
<1> QED BY <1>1, <1>2

(* A start of the process that ends may have lost one wave, and as it has    *)
(* ended one more is allowed for.                                            *)
LEMMA EndedStep ==
  ASSUME IInv, [Next]_vars
  PROVE  /\ Ended \in Nat /\ Ended' \in Nat
         /\ Ended <= Ended'
         /\ Crash => Ended' = Ended + 1
<1>1. pc \in Active => boot \in 1 .. MaxBoots
  BY SentinelAssumption DEF IInv, TypeOK, ResultsInv, Active
<1>2. boot \in Nat
  BY MaxBootsAssumption DEF IInv, TypeOK
<1>3. CASE StartFresh \/ Resume \/ RefuseDrift
  <2>1. pc \in Stopped /\ boot' = boot + 1
    BY <1>3 DEF StartFresh, Resume, RefuseDrift, Start
  <2> QED BY <1>2, <1>3, <2>1 DEF Ended, Active, Stopped, Crash
<1>4. CASE Crash
  <2>1. pc \in Active /\ pc' = "down" /\ boot' = boot
    BY <1>4 DEF Crash, config
  <2> QED BY <1>1, <1>2, <2>1, MaxBootsAssumption DEF Ended, Active
<1>5. CASE ~ (StartFresh \/ Resume \/ RefuseDrift \/ Crash)
  <2>1. boot' = boot /\ (pc \notin Active => pc' \notin Active)
    BY <1>5 DEF Next, vars, BeginWave, EndLoop, NodeFinishes, NodeSucceeds, NodeFails, NodeRaises,
                Finish, WaveEnds, Commit, PutArtifact, CommitResults, LogResult, SaveCheckpoint,
                LogCheckpoint, FreezeReturn, EditContracts, config, memory, Active
  <2> QED BY <1>1, <1>2, <1>5, <2>1, MaxBootsAssumption DEF Ended
<1> QED BY <1>3, <1>4, <1>5

(* The allowance never shrinks. *)
LEMMA AllowanceGrows ==
  ASSUME NEW a \in Nat, NEW b \in Nat, a <= b
  PROVE  /\ a * MaxParallel \in Nat /\ b * MaxParallel \in Nat
         /\ a * MaxParallel <= b * MaxParallel
         /\ b = a + 1 => b * MaxParallel = a * MaxParallel + MaxParallel
<1>1. MaxParallel \in Nat
  BY MaxParallelAssumption
<1>2. b - a \in Nat /\ b = a + (b - a)
  OBVIOUS
<1>3. b * MaxParallel = a * MaxParallel + (b - a) * MaxParallel
  BY <1>1, <1>2
<1>4. (b - a) * MaxParallel \in Nat /\ a * MaxParallel \in Nat /\ b * MaxParallel \in Nat
  BY <1>1, <1>2
<1> QED BY <1>1, <1>3, <1>4

(* The save takes the events of the wave over: its nodes were not decided.   *)
LEMMA SaveAccounts ==
  ASSUME IInv, LineageInv, AheadInv, SaveCheckpoint, NEW kept, NEW lost, Accounts(kept, lost),
         NEW all, all = kept \cup WaveEvents
  PROVE  Accounts(all, lost)'
<1>1. /\ pc = "logging" /\ pc' = "saved" /\ checkpoint' = rs
      /\ UNCHANGED <<rs, results, events, boot>>
  BY DEF SaveCheckpoint, config
<1>2. rs # NoState
  BY <1>1 DEF IInv, TypeOK
<1>3. \A n \in DOMAIN results : /\ n \in Nodes(Graph)
                                /\ rs.node_status[n] \in {"SUCCEEDED", "FAILED"}
                                /\ n \notin Decided
  <2>1. \A n \in DOMAIN results : rs.node_status[n] \in {"SUCCEEDED", "FAILED"}
    BY <1>1 DEF LineageInv, CommittedInv
  <2>2. \A n \in DOMAIN results : n \in Nodes(Graph) /\ Decision(n) = "UNDECIDED"
    BY <1>1 DEF AheadInv, IInv, TypeOK
  <2> QED BY <2>1, <2>2 DEF Decision, Decided, Terminal, Dead
<1>4. \A ev \in WaveEvents : \E n \in DOMAIN results : ev = ResultEvent(n) /\ ev.node = n
  BY <1>1 DEF WaveEvents, ResultEvent, WaveEvent
<1>5. \A ev \in WaveEvents : ev.node \in Decided' /\ ev.node \notin Decided
  BY <1>1, <1>2, <1>3, <1>4 DEF Decided
<1>6. \A ev, other \in WaveEvents : ev.node = other.node => ev = other
  BY <1>4
<1>7. Decided \subseteq Decided'
  BY DecidedGrows DEF Next, Commit
<1>8. NodeEvents' = NodeEvents /\ Ended' = Ended
  BY <1>1 DEF NodeEvents, Ended, Active
<1>9. WaveEvents' = {}
  BY <1>1 DEF WaveEvents
<1>10. \A ev \in all : ev.node \in Decided'
  BY <1>5, <1>7 DEF Accounts
<1>11. \A ev, other \in all : ev.node = other.node => ev = other
  BY <1>5, <1>6 DEF Accounts
<1>12. NodeEvents' \subseteq all \cup lost \cup WaveEvents'
  BY <1>8 DEF Accounts
<1>13. IsFiniteSet(lost) /\ Cardinality(lost) <= Ended' * MaxParallel
  BY <1>8 DEF Accounts
<1> QED BY <1>10, <1>11, <1>12, <1>13 DEF Accounts

(* A union has no more elements than its parts together. *)
LEMMA UnionWithin ==
  ASSUME NEW S, NEW T, NEW U, IsFiniteSet(S), IsFiniteSet(T), IsFiniteSet(U)
  PROVE  /\ IsFiniteSet(S \cup T \cup U)
         /\ Cardinality(S \cup T \cup U) <= Cardinality(S) + Cardinality(T) + Cardinality(U)
<1>1. /\ IsFiniteSet(S \cup T)
      /\ Cardinality(S \cup T) = Cardinality(S) + Cardinality(T) - Cardinality(S \cap T)
  BY FS_Union
<1>2. /\ IsFiniteSet(S \cup T \cup U)
      /\ Cardinality(S \cup T \cup U)
           = Cardinality(S \cup T) + Cardinality(U) - Cardinality((S \cup T) \cap U)
  BY <1>1, FS_Union
<1>3. IsFiniteSet(S \cap T) /\ IsFiniteSet((S \cup T) \cap U)
  BY <1>1, FS_Subset
<1>4. /\ Cardinality(S) \in Nat /\ Cardinality(T) \in Nat /\ Cardinality(U) \in Nat
      /\ Cardinality(S \cap T) \in Nat /\ Cardinality((S \cup T) \cap U) \in Nat
      /\ Cardinality(S \cup T) \in Nat
  BY <1>1, <1>3, FS_CardinalityType
<1> QED BY <1>1, <1>2, <1>4

LEMMA NextCount ==
  ASSUME IInv, LineageInv, AheadInv, CountInv, [Next]_vars
  PROVE  CountInv'
<1>1. PICK kept, lost : Accounts(kept, lost)
  BY DEF CountInv
<1>2. /\ Ended \in Nat /\ Ended' \in Nat /\ Ended <= Ended'
      /\ Crash => Ended' = Ended + 1
  BY EndedStep
<1>3. /\ Ended * MaxParallel \in Nat /\ Ended' * MaxParallel \in Nat
      /\ Ended * MaxParallel <= Ended' * MaxParallel
      /\ Crash => Ended' * MaxParallel = Ended * MaxParallel + MaxParallel
  BY <1>2, AllowanceGrows
<1>4. IsFiniteSet(lost) /\ Cardinality(lost) \in Nat /\ Cardinality(lost) <= Ended * MaxParallel
  BY <1>1, FS_CardinalityType DEF Accounts
<1>5. Decided \subseteq Decided'
  BY DecidedGrows
<1>6. /\ \A ev \in kept : ev.node \in Decided'
      /\ \A ev, other \in kept : ev.node = other.node => ev = other
  BY <1>1, <1>5 DEF Accounts
<1>7. CASE SaveCheckpoint
  <2>1. PICK all : all = kept \cup WaveEvents
    OBVIOUS
  <2> QED BY <1>1, <1>7, <2>1, SaveAccounts DEF CountInv
<1>8. CASE Crash
  <2>1. PICK more : more = lost \cup WaveEvents
    OBVIOUS
  <2>2. IsFiniteSet(WaveEvents) /\ Cardinality(WaveEvents) <= MaxParallel
    BY WaveEventsWithinLimit
  <2>3. IsFiniteSet(more) /\ Cardinality(more) <= Cardinality(lost) + Cardinality(WaveEvents)
    <3>1. more = lost \cup WaveEvents \cup {} /\ Cardinality({}) = 0 /\ IsFiniteSet({})
      BY <2>1, FS_EmptySet
    <3>2. /\ IsFiniteSet(more)
          /\ Cardinality(more) <= Cardinality(lost) + Cardinality(WaveEvents) + Cardinality({})
      BY <1>4, <2>2, <3>1, UnionWithin
    <3>3. Cardinality(WaveEvents) \in Nat
      BY <2>2, FS_CardinalityType
    <3> QED BY <1>4, <3>1, <3>2, <3>3
  <2>4. /\ Cardinality(WaveEvents) \in Nat /\ Cardinality(more) \in Nat
        /\ MaxParallel \in Nat
    BY <2>2, <2>3, FS_CardinalityType, MaxParallelAssumption
  <2>5. Cardinality(more) <= Ended' * MaxParallel
    BY <1>3, <1>4, <1>8, <2>2, <2>3, <2>4
  <2>6. NodeEvents' = NodeEvents
    BY <1>8 DEF Crash, files, NodeEvents
  <2>7. NodeEvents' \subseteq kept \cup more \cup WaveEvents'
    BY <1>1, <2>1, <2>6 DEF Accounts
  <2>8. Accounts(kept, more)'
    BY <1>6, <2>3, <2>5, <2>7 DEF Accounts
  <2> QED BY <2>8 DEF CountInv
<1>9. CASE ~ SaveCheckpoint /\ ~ Crash
  <2>1. NodeEvents' \subseteq NodeEvents \cup WaveEvents'
    <3>1. CASE LogResult
      <4>1. /\ pc = "logging" /\ UNCHANGED <<pc, rs, results, boot>>
            /\ events' = events \cup {ResultEvent(FirstTodo)}
            /\ FirstTodo \in todo
        BY <3>1, FirstNodeExists, GraphAssumption DEF LogResult, config, FirstTodo, IInv, TypeOK
      <4>2. FirstTodo \in DOMAIN results
        BY <4>1 DEF LineageInv, CommittedInv
      <4>3. ResultEvent(FirstTodo) \in WaveEvents
        BY <4>1, <4>2 DEF WaveEvents
      <4>4. WaveEvents' = WaveEvents
        BY <4>1 DEF WaveEvents, ResultEvent, WaveEvent
      <4> HIDE DEF ResultEvent
      <4> QED BY <4>1, <4>3, <4>4 DEF NodeEvents
    <3>2. CASE BeginWave \/ EndLoop \/ LogCheckpoint \/ FreezeReturn
      <4>1. \A ev \in events' \ events :
              ev.type \in {"NODE_SKIPPED", "CHECKPOINT_SAVED", "FINAL_OUTPUT_FROZEN"}
        BY <3>2 DEF BeginWave, EndLoop, LogCheckpoint, FreezeReturn, SkipEvents, NodeEvent, WaveEvent
      <4> QED BY <4>1 DEF NodeEvents
    <3>3. CASE ~ (LogResult \/ BeginWave \/ EndLoop \/ LogCheckpoint \/ FreezeReturn)
      <4>1. events' = events
        BY <1>9, <3>3 DEF Next, vars, StartFresh, Resume, RefuseDrift, Start, NodeFinishes,
              NodeSucceeds, NodeFails, NodeRaises, Finish, WaveEnds, Commit, PutArtifact,
              CommitResults, EditContracts, files
      <4> QED BY <4>1 DEF NodeEvents
    <3> QED BY <3>1, <3>2, <3>3
  <2>2. WaveEvents \subseteq WaveEvents'
    <3>1. CASE pc # "logging"
      BY <3>1 DEF WaveEvents
    <3>2. CASE pc = "logging"
      <4>1. UNCHANGED <<pc, rs, results, boot>>
        BY <1>9, <3>2 DEF Next, vars, StartFresh, Resume, RefuseDrift, Start, BeginWave, EndLoop,
              NodeFinishes, NodeSucceeds, NodeFails, NodeRaises, Finish, WaveEnds, Commit,
              PutArtifact, CommitResults, LogResult, LogCheckpoint, FreezeReturn, EditContracts,
              memory, config, Stopped
      <4> QED BY <4>1 DEF WaveEvents, ResultEvent, WaveEvent
    <3> QED BY <3>1, <3>2
  <2>3. NodeEvents' \subseteq kept \cup lost \cup WaveEvents'
    BY <1>1, <2>1, <2>2 DEF Accounts
  <2>4. Cardinality(lost) <= Ended' * MaxParallel
    BY <1>3, <1>4
  <2>5. Accounts(kept, lost)'
    BY <1>4, <1>6, <2>3, <2>4 DEF Accounts
  <2> QED BY <2>5 DEF CountInv
<1> QED BY <1>7, <1>8, <1>9

LEMMA CountInvariance == Spec => []CountInv
<1>1. Init => CountInv
  <2> SUFFICES ASSUME Init PROVE Accounts({}, {})
    BY DEF CountInv
  <2>1. events = {} /\ boot = 0 /\ pc = "down"
    BY DEF Init
  <2>2. IsFiniteSet({}) /\ Cardinality({}) = 0
    BY FS_EmptySet
  <2>3. Ended = 0
    BY <2>1 DEF Ended, Active
  <2>4. NodeEvents = {} /\ 0 * MaxParallel = 0
    BY <2>1, MaxParallelAssumption DEF NodeEvents
  <2> QED BY <2>2, <2>3, <2>4 DEF Accounts
<1>2. IInv /\ LineageInv /\ AheadInv /\ CountInv /\ [Next]_vars => CountInv'
  BY NextCount
<1> QED BY <1>1, <1>2, Invariance, LineageInvariance, AheadInvariance, PTL DEF Spec

(* Every call that was paid is in the log, and a wave's more for each start. *)
LEMMA EventsCounted ==
  ASSUME IInv, LineageInv, EventInv, CountInv
  PROVE  EventsWithinCrashes
<1>1. PICK kept, lost : Accounts(kept, lost)
  BY DEF CountInv
<1>2. IsFiniteSet(Decided) /\ Cardinality(Decided) \in Nat
  <2>1. Decided \subseteq Nodes(Graph) /\ IsFiniteSet(Nodes(Graph))
    BY GraphAssumption DEF Decided, IsGraph
  <2> QED BY <2>1, FS_Subset, FS_CardinalityType
<1>3. IsFiniteSet(kept) /\ Cardinality(kept) <= Cardinality(Decided)
  <2> DEFINE f == [ev \in kept |-> ev.node]
  <2>1. f \in Injection(kept, Decided)
    BY <1>1 DEF Accounts, Injection, IsInjective
  <2> QED BY <1>2, <2>1, FS_Injection
<1>4. IsFiniteSet(WaveEvents) /\ Cardinality(WaveEvents) <= MaxParallel
  BY WaveEventsWithinLimit
<1>5. IsFiniteSet(lost) /\ Cardinality(lost) <= Ended * MaxParallel
  BY <1>1 DEF Accounts
<1> DEFINE all == kept \cup lost \cup WaveEvents
<1>6. IsFiniteSet(all) /\ Cardinality(all)
        <= Cardinality(kept) + Cardinality(lost) + Cardinality(WaveEvents)
  BY <1>3, <1>4, <1>5, UnionWithin
<1>7. IsFiniteSet(NodeEvents) /\ Cardinality(NodeEvents) <= Cardinality(all)
  BY <1>1, <1>6, FS_Subset DEF Accounts
<1>8. /\ Cardinality(kept) \in Nat /\ Cardinality(lost) \in Nat /\ Cardinality(WaveEvents) \in Nat
      /\ Cardinality(all) \in Nat /\ Cardinality(NodeEvents) \in Nat
  BY <1>3, <1>4, <1>5, <1>6, <1>7, FS_CardinalityType
<1>9. Cardinality(lost) + Cardinality(WaveEvents) <= boot * MaxParallel
  <2>1. boot \in Nat /\ (pc \in Active => boot \in 1 .. MaxBoots)
    BY MaxBootsAssumption, SentinelAssumption DEF IInv, TypeOK, ResultsInv, Active
  <2>2. CASE pc \in Active
    <3>1. Ended = boot - 1 /\ Ended \in Nat /\ boot = Ended + 1
      BY <2>1, <2>2, MaxBootsAssumption DEF Ended
    <3>2. boot * MaxParallel = Ended * MaxParallel + MaxParallel /\ Ended * MaxParallel \in Nat
      BY <2>1, <3>1, AllowanceGrows
    <3> QED BY <1>4, <1>5, <1>8, <3>2, MaxParallelAssumption
  <2>3. CASE pc \notin Active
    <3>1. Ended = boot /\ boot * MaxParallel \in Nat
      BY <2>1, <2>3, MaxParallelAssumption DEF Ended
    <3>2. Cardinality(WaveEvents) = 0
      BY <2>3, FS_EmptySet DEF WaveEvents, Active
    <3> QED BY <1>5, <1>8, <3>1, <3>2
  <2> QED BY <2>2, <2>3
<1>10. boot * MaxParallel \in Nat
  BY MaxBootsAssumption, MaxParallelAssumption DEF IInv, TypeOK
<1>11. Cardinality(NodeEvents) <= Cardinality(Decided) + boot * MaxParallel
  <2> HIDE DEF all
  <2> QED BY <1>2, <1>3, <1>6, <1>7, <1>8, <1>9, <1>10
<1>12. Cardinality(Decided) <= Cardinality(NodeEvents)
  <2> DEFINE f == [n \in Decided |-> CHOOSE ev \in NodeEvents : ev.node = n]
  <2>1. ASSUME NEW n \in Decided PROVE \E ev \in NodeEvents : ev.node = n
    <3>1. n \in Nodes(Graph) /\ checkpoint \in Saved
          /\ checkpoint.node_status[n] \in {"SUCCEEDED", "FAILED"}
      BY <2>1 DEF Decided, Saved
    <3>2. Explained(events, checkpoint, n)
      BY <3>1 DEF EventInv
    <3>3. PICK ev \in events : ev.node = n /\ ev.type \in {"NODE_COMPLETED", "NODE_FAILED"}
      BY <3>1, <3>2 DEF Explained
    <3> QED BY <3>3 DEF NodeEvents
  <2>2. \A n \in Decided : f[n] \in NodeEvents /\ f[n].node = n
    BY <2>1
  <2>3. f \in Injection(Decided, NodeEvents)
    <3>1. f = [n \in Decided |-> f[n]]
      OBVIOUS
    <3> HIDE DEF f
    <3> QED BY <2>2, <3>1 DEF Injection, IsInjective
  <2> QED BY <1>7, <2>3, FS_Injection
<1> QED BY <1>2, <1>8, <1>10, <1>11, <1>12 DEF EventsWithinCrashes

-----------------------------------------------------------------------------
(* The verdicts, in the order in which they were made.                       *)

(* No file of a node is of a later start than the output that was committed, *)
(* and every output was made before the wave that comes next.                *)
DatesInv ==
  /\ \A id \in DOMAIN store : store[id].wave \in Nat
  /\ \A st \in Loaded \cup Saved : \A n \in Nodes(Graph) :
       st.node_status[n] = "SUCCEEDED" =>
         /\ store[st.node_outputs[n]].wave < st.wave_id
         /\ \A id \in DOMAIN store : id.producer = n => id.boot <= st.node_outputs[n].boot

LEMMA InitDates == Init => DatesInv
BY DEF Init, DatesInv, Loaded, Saved

(* A file that is put is not of a node that has succeeded. *)
LEMMA PutIsOfRunning ==
  ASSUME IInv, LineageInv, PutArtifact, NEW st \in Loaded \cup Saved
  PROVE  st.node_status[FirstTodo] # "SUCCEEDED"
<1>1. FirstTodo \in Succeeded(results) /\ pc = "putting"
  BY PutEffect
<1>2. rs.node_status[FirstTodo] = "RUNNING" /\ FirstTodo \in Nodes(Graph)
  BY <1>1 DEF IInv, ResultsInv, Running, Succeeded
<1> QED BY <1>1, <1>2 DEF Loaded, Saved, IInv, ExtendsInv, Terminal

LEMMA NextDates ==
  ASSUME IInv, IInv', LineageInv, OrphanInv, DatesInv, [Next]_vars
  PROVE  DatesInv'
<1>1. \A id \in DOMAIN store' : store'[id].wave \in Nat
  <2>1. CASE PutArtifact
    <3>1. store' = With(store, ArtifactId(FirstTodo), Envelope(FirstTodo)) /\ pc = "putting"
      BY <2>1, PutEffect
    <3>2. rs.wave_id \in Nat
      BY <3>1, SentinelAssumption DEF IInv, TypeOK, RuntimeStates
    <3> QED BY <3>1, <3>2 DEF With, Envelope, DatesInv
  <2>2. CASE StartFresh
    BY <2>2 DEF StartFresh, With, DatesInv
  <2>3. CASE ~ StartFresh /\ ~ PutArtifact
    <3>1. store' = store
      BY <2>3 DEF Next, vars, Resume, RefuseDrift, BeginWave, EndLoop, NodeFinishes, NodeSucceeds,
                  NodeFails, NodeRaises, Finish, WaveEnds, Commit, CommitResults, LogResult,
                  SaveCheckpoint, LogCheckpoint, FreezeReturn, Crash, EditContracts, files
    <3> QED BY <3>1 DEF DatesInv
  <2> QED BY <2>1, <2>2, <2>3
<1>2. SUFFICES ASSUME NEW st \in Loaded' \cup Saved', NEW n \in Nodes(Graph),
                      st.node_status[n] = "SUCCEEDED"
               PROVE  /\ store'[st.node_outputs[n]].wave < st.wave_id
                      /\ \A id \in DOMAIN store' : id.producer = n =>
                           id.boot <= st.node_outputs[n].boot
  BY <1>1 DEF DatesInv
<1>3. CASE st \in Loaded \cup Saved
  <2>1. st.node_outputs[n] \in DOMAIN store
    BY <1>2, <1>3 DEF LineageInv, StatesSound, Sound, OutputsOwned, IInv,
                      ReferencedArtifactsStored, Referenced, Outputs
  <2>2. store'[st.node_outputs[n]] = store[st.node_outputs[n]]
    BY <2>1, StoreGrows
  <2>3. ASSUME NEW id \in DOMAIN store', id.producer = n
        PROVE  id \in DOMAIN store
    <3> SUFFICES ASSUME id \notin DOMAIN store PROVE FALSE
      OBVIOUS
    <3>1. PutArtifact /\ id = ArtifactId(FirstTodo)
      BY <2>3, StoreGrows
    <3>2. n = FirstTodo
      BY <2>3, <3>1 DEF ArtifactId
    <3> QED BY <1>2, <1>3, <3>1, <3>2, PutIsOfRunning
  <2> QED BY <1>2, <1>3, <2>2, <2>3 DEF DatesInv
<1>4. CASE IsFresh(st)
  BY <1>2, <1>4 DEF IsFresh
<1>5. CASE rs \in Loaded /\ Dispatches(rs, st) /\ (BeginWave \/ EndLoop)
  <2>1. store' = store
    BY <1>5 DEF BeginWave, EndLoop
  <2>2. /\ rs.node_status[n] = "SUCCEEDED"
        /\ st.node_outputs = rs.node_outputs /\ st.wave_id = rs.wave_id
    BY <1>2, <1>5 DEF Dispatches, Advances
  <2> QED BY <1>5, <2>1, <2>2 DEF DatesInv
<1>6. CASE rs \in Loaded /\ st = rs' /\ CommitResults
  <2>1. /\ rs \in RuntimeStates /\ Delivered(store, rs, results)
        /\ st = CommitWave(Graph, rs, results) /\ Commits(rs, results, st)
        /\ store' = store /\ pc = "putting"
    BY <1>6, CommitEffect
  <2>2. st.wave_id = rs.wave_id + 1 /\ rs.wave_id \in Nat
    BY <2>1, CommitCounts DEF RuntimeStates
  <2>3. CASE n \in Succeeded(results)
    <3>1. results[n].artifact = ArtifactId(n) /\ st.node_outputs[n] = results[n].artifact
      BY <2>1, <2>3 DEF LineageInv, WaveInv, Succeeded, Commits
    <3>2. store[results[n].artifact] = Envelope(n)
      BY <1>6, <2>1, <2>3 DEF CommitResults, LineageInv, WaveInv
    <3>3. store[st.node_outputs[n]].wave = rs.wave_id /\ st.node_outputs[n].boot = boot
      BY <3>1, <3>2 DEF Envelope, ArtifactId
    <3> QED BY <2>1, <2>2, <3>3 DEF OrphanInv
  <2>4. CASE n \notin Succeeded(results)
    <3>1. rs.node_status[n] = "SUCCEEDED" /\ st.node_outputs[n] = rs.node_outputs[n]
      <4>1. n \notin DOMAIN results
        BY <1>2, <2>1, <2>4 DEF Commits
      <4> QED BY <1>2, <2>1, <4>1 DEF Commits
    <3>2. rs.node_outputs[n] \in DOMAIN store
      BY <1>6, <3>1 DEF LineageInv, StatesSound, Sound, OutputsOwned, IInv,
                        ReferencedArtifactsStored, Referenced, Outputs
    <3>3. /\ store[rs.node_outputs[n]].wave < rs.wave_id
          /\ store[rs.node_outputs[n]].wave \in Nat
          /\ \A id \in DOMAIN store : id.producer = n => id.boot <= rs.node_outputs[n].boot
      BY <1>6, <3>1, <3>2 DEF DatesInv
    <3> QED BY <2>1, <2>2, <3>1, <3>3
  <2> QED BY <2>3, <2>4
<1> QED BY <1>3, <1>4, <1>5, <1>6, NewStates

LEMMA DatesInvariance == Spec => []DatesInv
<1>1. IInv /\ IInv' /\ LineageInv /\ OrphanInv /\ DatesInv /\ [Next]_vars => DatesInv'
  BY NextDates
<1> QED BY <1>1, InitDates, Invariance, LineageInvariance, OrphanInvariance, PTL DEF Spec

(* A file lies after the committed outputs of all that its node needs. *)
Ordered(id) ==
  \A m \in Nodes(Graph) : Needs(id.producer, m) =>
    Decision(m) = "SUCCEEDED" /\ CreatedBefore(checkpoint.node_outputs[m], id)

(* Its parents are committed ones.  Of a node with no input but initial ones *)
(* that is not so: a start that was lost had initial artifacts of its own.   *)
Rooted(id) ==
  LET n       == id.producer
      parents == store[id].parents
  IN  /\ parents = [slot \in InputSlots(Graph, n) |-> parents[slot]]
      /\ \A slot \in InputSlots(Graph, n) \ InitialSlots : \E e \in Incoming(Graph, n, slot) :
           /\ Decision(Source(Graph, e)) = "SUCCEEDED"
           /\ parents[slot] = checkpoint.node_outputs[Source(Graph, e)]
      /\ InputSlots(Graph, n) \ InitialSlots # {} =>
           \A slot \in InputSlots(Graph, n) \cap InitialSlots :
             parents[slot] = checkpoint.initial_artifacts[slot]

(* Every file of a node is so, those of waves that were lost included, and   *)
(* memory and checkpoint were started from the same initial artifacts.       *)
FilesInv ==
  /\ \A id \in DOMAIN store : id.producer \in Nodes(Graph) => Ordered(id) /\ Rooted(id)
  /\ rs # NoState /\ checkpoint # NoState => rs.initial_artifacts = checkpoint.initial_artifacts

(* The nodes that have succeeded could have got their inputs from each       *)
(* other, and so could one that was started since.                           *)
LEMMA StartedSupported ==
  ASSUME IInv, LineageInv, ResolvedInv, PayloadInv,
         NEW st \in Loaded \cup Saved, NEW n \in Started(st),
         NEW done, done = {n} \cup {m \in Nodes(Graph) : st.node_status[m] = "SUCCEEDED"}
  PROVE  done \in SUBSET Nodes(Graph) /\ Supported(done)
<1>1. done \subseteq Started(st)
  BY DEF Started
<1>2. ASSUME NEW m \in done, NEW slot \in InputSlots(Graph, m) \ InitialSlots
      PROVE  \E e \in Incoming(Graph, m, slot) : Source(Graph, e) \in done
  BY <1>1, ArrivedFrom
<1> QED BY <1>1, <1>2 DEF Supported, Started

(* What memory and checkpoint agree on while a wave is put. *)
LEMMA CommittedInMemory ==
  ASSUME IInv, AheadInv, pc = "putting", NEW n \in Nodes(Graph), rs.node_status[n] = "SUCCEEDED"
  PROVE  /\ Decision(n) = "SUCCEEDED"
         /\ checkpoint # NoState
         /\ checkpoint.node_outputs[n] = rs.node_outputs[n]
<1>1. Decision(n) = "SUCCEEDED"
  BY DEF AheadInv
<1>2. checkpoint # NoState /\ checkpoint.node_status[n] = "SUCCEEDED"
  BY <1>1 DEF Decision
<1> QED BY <1>1, <1>2 DEF IInv, ExtendsInv, Terminal

(* The file that is put is of this kind. *)
LEMMA PutOrdered ==
  ASSUME IInv, LineageInv, OrphanInv, AheadInv, ResolvedInv, PayloadInv, DatesInv, PutArtifact,
         NEW id, id = ArtifactId(FirstTodo)
  PROVE  Ordered(id)'
<1> DEFINE n == FirstTodo
<1>1. /\ n \in Succeeded(results) /\ pc = "putting"
      /\ store' = With(store, id, Envelope(n))
      /\ UNCHANGED <<rs, results, checkpoint, boot>>
  BY PutEffect
<1>2. rs \in RuntimeStates /\ rs \in Loaded
  BY <1>1, SentinelAssumption DEF IInv, TypeOK, Loaded
<1>3. n \in Nodes(Graph) /\ n \in Started(rs) /\ rs.node_status[n] = "RUNNING"
  BY <1>1 DEF IInv, ResultsInv, Running, Succeeded, Started
<1>4. id \notin DOMAIN store /\ id.producer = n /\ id.boot = boot
  BY PutOnNewFile DEF ArtifactId
<1>5. store'[id].wave = rs.wave_id
  BY <1>1 DEF With, Envelope
<1> HIDE DEF n
<1>6. ASSUME NEW m \in Nodes(Graph), Needs(n, m)
      PROVE  /\ Decision(m)' = "SUCCEEDED"
             /\ CreatedBefore(checkpoint.node_outputs[m], id)'
  <2> DEFINE done == {n} \cup {k \in Nodes(Graph) : rs.node_status[k] = "SUCCEEDED"}
             x    == rs.node_outputs[m]
  <2>1. done \in SUBSET Nodes(Graph) /\ Supported(done)
    BY <1>2, <1>3, StartedSupported
  <2>2. m \in done /\ m # n
    BY <1>6, <2>1 DEF Needs
  <2>3. rs.node_status[m] = "SUCCEEDED"
    BY <2>2
  <2>4. /\ Decision(m) = "SUCCEEDED"
        /\ checkpoint.node_outputs[m] = x
    BY <1>1, <1>6, <2>3, CommittedInMemory
  <2>5. Decision(m)' = Decision(m)
    BY <1>1 DEF Decision
  <2>6. x \in DOMAIN store
    BY <1>2, <1>6, <2>3 DEF LineageInv, StatesSound, Sound, OutputsOwned, IInv,
                            ReferencedArtifactsStored, Referenced, Outputs
  <2>7. store'[x] = store[x] /\ x.boot <= boot /\ x.boot \in Nat /\ boot \in Nat
    <3>1. store'[x] = store[x]
      BY <1>1, <1>4, <2>6 DEF With
    <3>2. x \in ArtifactIds /\ x.boot <= boot
      BY <2>6 DEF IInv, TypeOK, OrphanInv
    <3> HIDE DEF x
    <3> QED BY <3>1, <3>2, MaxBootsAssumption DEF IInv, TypeOK, ArtifactIds
  <2>8. store[x].wave < rs.wave_id
    BY <1>2, <1>6, <2>3 DEF DatesInv
  <2>9. x.boot < id.boot \/ (x.boot = id.boot /\ store'[x].wave < store'[id].wave)
    BY <1>4, <1>5, <2>7, <2>8
  <2> HIDE DEF x, done
  <2> QED BY <1>1, <2>4, <2>5, <2>9 DEF CreatedBefore
<1> QED BY <1>4, <1>6 DEF Ordered

LEMMA PutRooted ==
  ASSUME IInv, LineageInv, AheadInv, FilesInv, PutArtifact, NEW id, id = ArtifactId(FirstTodo)
  PROVE  Rooted(id)'
<1> DEFINE n == FirstTodo
           parents == ResolveInputIds(Graph, rs, n)
<1>1. /\ n \in Succeeded(results) /\ pc = "putting"
      /\ store' = With(store, id, Envelope(n))
      /\ UNCHANGED <<rs, results, checkpoint, boot>>
  BY PutEffect
<1>2. rs \in RuntimeStates /\ rs # NoState /\ rs \in Loaded
  BY <1>1, SentinelAssumption DEF IInv, TypeOK, Loaded
<1>3. n \in Nodes(Graph) /\ n \in Running
  BY <1>1 DEF IInv, ResultsInv, Running, Succeeded
<1>4. id.producer = n /\ store'[id].parents = parents
  BY <1>1 DEF ArtifactId, With, Envelope
<1>5. Sound(store, rs) /\ ResolvedSlots(Graph, rs, n) = InputSlots(Graph, n)
  BY <1>1, <1>2, <1>3 DEF LineageInv, StatesSound, WaveInv
<1>6. parents = [slot \in InputSlots(Graph, n) |-> parents[slot]]
  BY <1>5 DEF ResolveInputIds
<1> HIDE DEF n, parents
<1>7. ASSUME NEW slot \in InputSlots(Graph, n) \ InitialSlots
      PROVE  \E e \in Incoming(Graph, n, slot) :
               /\ Decision(Source(Graph, e)) = "SUCCEEDED"
               /\ parents[slot] = checkpoint.node_outputs[Source(Graph, e)]
  <2>1. PICK e \in Incoming(Graph, n, slot) : CameOver(rs, e, parents[slot])
    BY <1>2, <1>3, <1>5, <1>7, InputsCameOver DEF parents
  <2> DEFINE source == Source(Graph, e)
  <2>2. e \in Edges(Graph) /\ OutputOn(Graph, rs, e) # NoArtifact /\ parents[slot] = OutputOn(Graph, rs, e)
    BY <2>1 DEF CameOver, Incoming
  <2>3. source \in Nodes(Graph) /\ parents[slot] = rs.node_outputs[source]
        /\ rs.node_outputs[source] # NoArtifact
    BY <1>2, <2>2, EdgeEnds, OutputOnSource
  <2>4. rs.node_status[source] = "SUCCEEDED"
    BY <1>5, <2>3 DEF Sound, OutputsOwned
  <2>5. Decision(source) = "SUCCEEDED" /\ checkpoint.node_outputs[source] = rs.node_outputs[source]
    BY <1>1, <2>3, <2>4, CommittedInMemory
  <2> QED BY <2>3, <2>5
<1>8. ASSUME InputSlots(Graph, n) \ InitialSlots # {},
             NEW slot \in InputSlots(Graph, n) \cap InitialSlots
      PROVE  parents[slot] = checkpoint.initial_artifacts[slot]
  <2>0. checkpoint # NoState
    BY <1>7, <1>8 DEF Decision
  <2>1. parents[slot] = rs.initial_artifacts[slot]
    BY <1>2, <1>3, <1>5, <1>8, InputsCameOver DEF parents
  <2> QED BY <1>2, <2>0, <2>1 DEF FilesInv
<1>9. \A m : Decision(m)' = Decision(m)
  BY <1>1 DEF Decision
<1> QED BY <1>1, <1>4, <1>6, <1>7, <1>8, <1>9 DEF Rooted

(* What a checkpoint says has succeeded it says for good, of a file that     *)
(* does not change.                                                          *)
LEMMA SuccessStays ==
  ASSUME IInv, LineageInv, OrphanInv, [Next]_vars, NEW m \in Nodes(Graph), Decision(m) = "SUCCEEDED"
  PROVE  /\ Decision(m)' = "SUCCEEDED"
         /\ checkpoint'.node_outputs[m] = checkpoint.node_outputs[m]
         /\ checkpoint.node_outputs[m] \in DOMAIN store
         /\ store'[checkpoint.node_outputs[m]] = store[checkpoint.node_outputs[m]]
<1>1. checkpoint # NoState /\ checkpoint.node_status[m] = "SUCCEEDED"
  BY DEF Decision
<1>2. checkpoint.node_outputs[m] \in DOMAIN store
  BY <1>1 DEF LineageInv, StatesSound, Sound, OutputsOwned, IInv, Saved,
              ReferencedArtifactsStored, Referenced, Outputs
<1>3. store'[checkpoint.node_outputs[m]] = store[checkpoint.node_outputs[m]]
  BY <1>2, StoreGrows
<1>4. CASE checkpoint' = checkpoint
  BY <1>2, <1>3, <1>4 DEF Decision
<1>5. CASE checkpoint' # checkpoint
  <2>1. pc = "logging" /\ checkpoint' = rs
    BY <1>5, OnlySaveChangesCheckpoint DEF SaveCheckpoint
  <2>2. rs # NoState
    BY <2>1 DEF IInv, TypeOK
  <2>3. /\ rs.node_status[m] = "SUCCEEDED"
        /\ rs.node_outputs[m] = checkpoint.node_outputs[m]
    BY <1>1, <2>1 DEF IInv, ExtendsInv, Terminal
  <2> QED BY <1>2, <1>3, <2>1, <2>2, <2>3 DEF Decision, Terminal
<1> QED BY <1>4, <1>5

(* The initial artifacts of a task never change. *)
LEMMA NextInitials ==
  ASSUME IInv, LineageInv, FilesInv, [Next]_vars
  PROVE  /\ rs' # NoState /\ checkpoint' # NoState =>
              rs'.initial_artifacts = checkpoint'.initial_artifacts
         /\ checkpoint # NoState =>
              checkpoint'.initial_artifacts = checkpoint.initial_artifacts
<1>1. CASE StartFresh \/ Resume \/ RefuseDrift
  BY <1>1 DEF StartFresh, Resume, RefuseDrift, Start
<1>2. CASE BeginWave \/ EndLoop
  <2>1. checkpoint' = checkpoint /\ rs # NoState
    BY <1>2, SentinelAssumption DEF BeginWave, EndLoop, IInv, TypeOK
  <2>2. rs'.initial_artifacts = rs.initial_artifacts
    BY <1>2, LoopDispatches DEF Dispatches, Advances
  <2> QED BY <2>1, <2>2 DEF FilesInv
<1>3. CASE CommitResults
  <2>1. rs # NoState /\ checkpoint' = checkpoint /\ rs'.initial_artifacts = rs.initial_artifacts
    BY <1>3, CommitEffect DEF Commits
  <2> QED BY <2>1 DEF FilesInv
<1>4. CASE SaveCheckpoint
  <2>1. checkpoint' = rs /\ rs' = rs /\ rs # NoState
    BY <1>4, SentinelAssumption DEF SaveCheckpoint, IInv, TypeOK
  <2> QED BY <2>1 DEF FilesInv
<1>5. CASE (\E n \in Nodes(Graph) : NodeFinishes(n)) \/ WaveEnds \/ PutArtifact \/ LogResult
             \/ LogCheckpoint \/ FreezeReturn \/ Crash \/ EditContracts \/ UNCHANGED vars
  <2>1. checkpoint' = checkpoint /\ rs' \in {rs, NoState}
    BY <1>5 DEF NodeFinishes, NodeSucceeds, NodeFails, NodeRaises, Finish, WaveEnds, PutArtifact,
                LogResult, LogCheckpoint, FreezeReturn, Crash, EditContracts, files, memory, vars
  <2> QED BY <2>1 DEF FilesInv
<1> QED BY <1>1, <1>2, <1>3, <1>4, <1>5 DEF Next, Commit

LEMMA RootedStays ==
  ASSUME IInv, LineageInv, OrphanInv, FilesInv, [Next]_vars,
         NEW id \in DOMAIN store, id.producer \in Nodes(Graph), Rooted(id)
  PROVE  Rooted(id)'
<1> DEFINE n == id.producer
<1>1. store'[id] = store[id]
  BY StoreGrows
<1>2. ASSUME NEW slot \in InputSlots(Graph, n) \ InitialSlots
      PROVE  /\ \E e \in Incoming(Graph, n, slot) :
                  /\ Decision(Source(Graph, e))' = "SUCCEEDED"
                  /\ store[id].parents[slot] = checkpoint'.node_outputs[Source(Graph, e)]
             /\ checkpoint # NoState
  <2>1. PICK e \in Incoming(Graph, n, slot) :
          /\ Decision(Source(Graph, e)) = "SUCCEEDED"
          /\ store[id].parents[slot] = checkpoint.node_outputs[Source(Graph, e)]
    BY <1>2 DEF Rooted
  <2>2. Source(Graph, e) \in Nodes(Graph)
    BY <2>1, EdgeEnds DEF Incoming
  <2> QED BY <2>1, <2>2, SuccessStays DEF Decision
<1>3. ASSUME InputSlots(Graph, n) \ InitialSlots # {},
             NEW slot \in InputSlots(Graph, n) \cap InitialSlots
      PROVE  store[id].parents[slot] = checkpoint'.initial_artifacts[slot]
  BY <1>2, <1>3, NextInitials DEF Rooted
<1> QED BY <1>1, <1>2, <1>3 DEF Rooted

LEMMA OrderedStays ==
  ASSUME IInv, LineageInv, OrphanInv, [Next]_vars, NEW id \in DOMAIN store, Ordered(id)
  PROVE  Ordered(id)'
<1> SUFFICES ASSUME NEW m \in Nodes(Graph), Needs(id.producer, m)
             PROVE  /\ Decision(m)' = "SUCCEEDED"
                    /\ CreatedBefore(checkpoint.node_outputs[m], id)'
  BY DEF Ordered
<1>1. Decision(m) = "SUCCEEDED" /\ CreatedBefore(checkpoint.node_outputs[m], id)
  BY DEF Ordered
<1>2. store'[id] = store[id]
  BY StoreGrows
<1>3. /\ Decision(m)' = "SUCCEEDED"
      /\ checkpoint'.node_outputs[m] = checkpoint.node_outputs[m]
      /\ store'[checkpoint.node_outputs[m]] = store[checkpoint.node_outputs[m]]
  BY <1>1, SuccessStays
<1> QED BY <1>1, <1>2, <1>3 DEF CreatedBefore

LEMMA NextFiles ==
  ASSUME IInv, LineageInv, OrphanInv, AheadInv, ResolvedInv, PayloadInv, DatesInv, FilesInv,
         [Next]_vars
  PROVE  FilesInv'
<1>1. ASSUME NEW id \in DOMAIN store', id.producer \in Nodes(Graph)
      PROVE  Ordered(id)' /\ Rooted(id)'
  <2>1. CASE id \in DOMAIN store
    BY <1>1, <2>1, OrderedStays, RootedStays DEF FilesInv
  <2>2. CASE id \notin DOMAIN store
    <3>1. PutArtifact /\ id = ArtifactId(FirstTodo)
      BY <1>1, <2>2, StoreGrows
    <3> QED BY <3>1, PutOrdered, PutRooted
  <2> QED BY <2>1, <2>2
<1> QED BY <1>1, NextInitials DEF FilesInv

LEMMA FilesInvariance == Spec => []FilesInv
<1>1. Init => FilesInv
  BY DEF Init, FilesInv
<1>2. IInv /\ LineageInv /\ OrphanInv /\ AheadInv /\ ResolvedInv /\ PayloadInv /\ DatesInv
        /\ FilesInv /\ [Next]_vars => FilesInv'
  BY NextFiles
<1> QED BY <1>1, <1>2, Invariance, LineageInvariance, OrphanInvariance, AheadInvariance,
           ResolvedInvariance, PayloadInvariance, DatesInvariance, PTL DEF Spec

(* What the order of two verdicts rests on: a start leaves at most one file  *)
(* of a node, the committed one is the latest, and every second verdict was  *)
(* made after the first one that was committed.                              *)
LEMMA VerdictFiles ==
  ASSUME IInv, LineageInv, OrphanInv, DatesInv, FilesInv,
         NEW first \in HarnessNodeIds, NEW second \in SecondTo(first)
  PROVE  /\ first \in Nodes(Graph) /\ second \in Nodes(Graph) /\ first # second
         /\ IsFiniteSet(HarnessArtifacts)
         /\ \A x \in HarnessArtifacts :
              /\ x \in DOMAIN store
              /\ x.producer \in {first, second}
              /\ x.boot \in Nat /\ 1 <= x.boot /\ x.boot <= boot
              /\ store[x].wave \in Nat
         /\ \A x, y \in HarnessArtifacts : x.producer = y.producer /\ x.boot = y.boot => x = y
         /\ \A n \in {first, second} : Committed(n) # NoArtifact =>
              /\ Committed(n) \in HarnessArtifacts
              /\ Committed(n).producer = n
              /\ \A x \in HarnessArtifacts : x.producer = n => x.boot <= Committed(n).boot
         /\ \A x \in HarnessArtifacts : x.producer = second =>
              /\ Committed(first) # NoArtifact
              /\ CreatedBefore(Committed(first), x)
<1>1. /\ HarnessNodeIds = {first, second} /\ Needs(second, first)
      /\ first \in Nodes(Graph) /\ second \in Nodes(Graph)
  BY DEF SecondTo, HarnessNodeIds
<1>2. second # first
  BY <1>1 DEF Needs
<1>3. ASSUME NEW x \in HarnessArtifacts
      PROVE  /\ x \in DOMAIN store
             /\ x \in [producer : {first, second}, boot : 1 .. MaxBoots]
             /\ x.boot <= boot
             /\ store[x].wave \in Nat
  <2>1. x \in DOMAIN store /\ x.producer \in {first, second}
    BY <1>1 DEF HarnessArtifacts
  <2>2. x \in ArtifactIds /\ x.boot <= boot
    BY <2>1 DEF IInv, TypeOK, OrphanInv
  <2> QED BY <2>1, <2>2 DEF ArtifactIds, DatesInv
<1>4. IsFiniteSet(HarnessArtifacts)
  <2> DEFINE pairs == {first, second} \X (1 .. MaxBoots)
             f     == [x \in HarnessArtifacts |-> <<x.producer, x.boot>>]
  <2>1. IsFiniteSet({first, second}) /\ IsFiniteSet(1 .. MaxBoots)
    <3>1. IsFiniteSet({first} \cup {second})
      BY FS_Singleton, FS_AddElement
    <3>2. {first} \cup {second} = {first, second}
      OBVIOUS
    <3>3. 1 \in Int /\ MaxBoots \in Int
      BY MaxBootsAssumption
    <3>4. IsFiniteSet(1 .. MaxBoots)
      BY ONLY <3>3, FS_Interval
    <3> QED BY <3>1, <3>2, <3>4
  <2>2. IsFiniteSet(pairs)
    BY <2>1, FS_Product
  <2>3. f \in Injection(HarnessArtifacts, pairs)
    BY <1>3 DEF Injection, IsInjective
  <2> QED BY <2>2, <2>3, FS_Injection
<1>5. ASSUME NEW n \in {first, second}, Committed(n) # NoArtifact
      PROVE  /\ Committed(n) \in HarnessArtifacts
             /\ Committed(n).producer = n
             /\ \A x \in HarnessArtifacts : x.producer = n => x.boot <= Committed(n).boot
  <2>1. checkpoint # NoState /\ checkpoint \in Saved /\ Committed(n) = checkpoint.node_outputs[n]
    BY <1>5 DEF Committed, Saved
  <2>2. /\ checkpoint.node_status[n] = "SUCCEEDED" /\ Committed(n).producer = n
        /\ Committed(n) \in DOMAIN store
    BY <1>1, <1>5, <2>1 DEF LineageInv, StatesSound, Sound, OutputsOwned, IInv,
                            ReferencedArtifactsStored, Referenced, Outputs
  <2>3. \A x \in DOMAIN store : x.producer = n => x.boot <= Committed(n).boot
    BY <1>1, <2>1, <2>2 DEF DatesInv
  <2> QED BY <1>1, <2>2, <2>3 DEF HarnessArtifacts
<1>6. ASSUME NEW x \in HarnessArtifacts, x.producer = second
      PROVE  Committed(first) # NoArtifact /\ CreatedBefore(Committed(first), x)
  <2>1. Ordered(x)
    BY <1>1, <1>3, <1>6 DEF FilesInv
  <2>2. Decision(first) = "SUCCEEDED" /\ CreatedBefore(checkpoint.node_outputs[first], x)
    BY <1>1, <1>6, <2>1 DEF Ordered
  <2>3. checkpoint # NoState /\ checkpoint.node_status[first] = "SUCCEEDED"
    BY <2>2 DEF Decision
  <2>4. checkpoint.node_outputs[first] # NoArtifact
    BY <1>1, <2>3 DEF LineageInv, StatesSound, Sound, OutputsOwned, Saved
  <2> QED BY <2>2, <2>3, <2>4 DEF Committed
<1>7. \A x, y \in HarnessArtifacts : x.producer = y.producer /\ x.boot = y.boot => x = y
  BY <1>3
<1>8. \A x \in HarnessArtifacts : x.boot \in Nat /\ 1 <= x.boot /\ x.producer \in {first, second}
  BY <1>3, MaxBootsAssumption
<1> QED BY <1>1, <1>2, <1>3, <1>4, <1>5, <1>6, <1>7, <1>8

(* The verdict from which the rate before repair is taken is on the draft    *)
(* that was committed.                                                       *)
LEMMA FirstVerdictHolds ==
  ASSUME IInv, LineageInv, OrphanInv, DatesInv, FilesInv,
         NEW first \in HarnessNodeIds, NEW second \in SecondTo(first),
         Committed(first) # NoArtifact
  PROVE  store[FirstVerdict].parents = store[Committed(first)].parents
<1> DEFINE c1    == Committed(first)
           Earliest(x) == \A y \in HarnessArtifacts : ~ CreatedBefore(y, x)
           boots == {x.boot : x \in {y \in HarnessArtifacts : y.producer = first}}
<1>1. c1 \in HarnessArtifacts /\ c1.producer = first
  BY VerdictFiles
<1>2. PICK x \in HarnessArtifacts : x.producer = first /\ \A b \in boots : x.boot <= b
  <2>1. boots \in SUBSET Nat /\ boots # {}
    BY <1>1, VerdictFiles
  <2> QED BY <2>1, LeastNatural
<1>3. Earliest(x)
  <2> SUFFICES ASSUME NEW y \in HarnessArtifacts, CreatedBefore(y, x) PROVE FALSE
    OBVIOUS
  <2>1. /\ x.boot \in Nat /\ y.boot \in Nat /\ c1.boot \in Nat
        /\ store[x].wave \in Nat /\ store[y].wave \in Nat /\ store[c1].wave \in Nat
    BY <1>1, <1>2, VerdictFiles
  <2>2. x.boot <= c1.boot
    BY <1>1, <1>2
  <2>3. CASE y.producer = first
    <3>1. x.boot <= y.boot
      BY <1>2, <2>3
    <3>2. x.boot = y.boot => x = y
      BY <1>2, <2>3, VerdictFiles
    <3> QED BY <2>1, <3>1, <3>2 DEF CreatedBefore
  <2>4. CASE y.producer = second
    <3>1. CreatedBefore(c1, y)
      BY <2>4, VerdictFiles
    <3>2. x.boot = c1.boot => x = c1
      BY <1>1, <1>2, VerdictFiles
    <3> HIDE DEF c1
    <3> QED BY <2>1, <2>2, <3>1, <3>2 DEF CreatedBefore
  <2> QED BY <2>3, <2>4, VerdictFiles
<1>4. FirstVerdict \in HarnessArtifacts /\ Earliest(FirstVerdict)
  BY <1>2, <1>3 DEF FirstVerdict
<1>5. FirstVerdict.producer = first
  BY <1>1, <1>4, VerdictFiles
<1> DEFINE parents(z) == store[z].parents
<1>6. Rooted(FirstVerdict) /\ Rooted(c1)
  BY <1>1, <1>4, <1>5, VerdictFiles DEF FilesInv
<1> HIDE DEF c1
<1>7. /\ InputSlots(Graph, first) \ InitialSlots # {}
      /\ \A slot \in InputSlots(Graph, first) :
           \A e, f \in Incoming(Graph, first, slot) : e = f
  BY DEF SecondTo
<1>8. ASSUME NEW slot \in InputSlots(Graph, first)
      PROVE  parents(FirstVerdict)[slot] = parents(c1)[slot]
  <2>1. CASE slot \in InitialSlots
    BY <1>1, <1>5, <1>6, <1>7, <2>1 DEF Rooted
  <2>2. CASE slot \notin InitialSlots
    <3>1. PICK e \in Incoming(Graph, first, slot) :
            parents(FirstVerdict)[slot] = checkpoint.node_outputs[Source(Graph, e)]
      BY <1>5, <1>6, <2>2 DEF Rooted
    <3>2. PICK f \in Incoming(Graph, first, slot) :
            parents(c1)[slot] = checkpoint.node_outputs[Source(Graph, f)]
      BY <1>1, <1>6, <2>2 DEF Rooted
    <3>3. e = f
      BY <1>7, <3>1, <3>2
    <3> QED BY <3>1, <3>2, <3>3
  <2> QED BY <2>1, <2>2
<1>9. /\ parents(FirstVerdict) = [slot \in InputSlots(Graph, first) |-> parents(FirstVerdict)[slot]]
      /\ parents(c1) = [slot \in InputSlots(Graph, first) |-> parents(c1)[slot]]
  BY <1>1, <1>5, <1>6 DEF Rooted
<1>10. [slot \in InputSlots(Graph, first) |-> parents(FirstVerdict)[slot]]
         = [slot \in InputSlots(Graph, first) |-> parents(c1)[slot]]
  BY <1>8
<1> QED BY <1>9, <1>10 DEF c1

(* A verdict after which none was made is the last one if it is the second   *)
(* node's and no other second verdict could be.                              *)
LEMMA SecondVerdictIsLast ==
  ASSUME IInv, LineageInv, OrphanInv, DatesInv, FilesInv,
         NEW first \in HarnessNodeIds, NEW second \in SecondTo(first),
         NEW x \in HarnessArtifacts, x.producer = second,
         \A y \in HarnessArtifacts : y.producer = second => y.boot <= x.boot
  PROVE  CountsAsRepaired /\ LastVerdict = x
<1> DEFINE c1 == Committed(first)
           Latest(z) == \A y \in HarnessArtifacts : ~ CreatedBefore(z, y)
<1>1. c1 \in HarnessArtifacts /\ c1.producer = first /\ CreatedBefore(c1, x) /\ c1 # x
  BY VerdictFiles
<1>2. ASSUME NEW y \in HarnessArtifacts, y # x
      PROVE  CreatedBefore(y, x) /\ ~ CreatedBefore(x, y)
  <2>1. /\ x.boot \in Nat /\ y.boot \in Nat /\ c1.boot \in Nat
        /\ store[x].wave \in Nat /\ store[y].wave \in Nat /\ store[c1].wave \in Nat
    BY <1>1, VerdictFiles
  <2>2. CASE y.producer = second
    <3>1. y.boot <= x.boot /\ y.boot # x.boot
      BY <1>2, <2>2, VerdictFiles
    <3> QED BY <2>1, <3>1 DEF CreatedBefore
  <2>3. CASE y.producer = first
    <3>1. y.boot <= c1.boot /\ (y.boot = c1.boot => y = c1)
      BY <1>1, <2>3, VerdictFiles
    <3> HIDE DEF c1
    <3> QED BY <1>1, <2>1, <3>1 DEF CreatedBefore
  <2> QED BY <2>2, <2>3, VerdictFiles
<1>3. ~ CreatedBefore(x, x)
  BY VerdictFiles DEF CreatedBefore
<1>4. Latest(x) /\ \A z \in HarnessArtifacts : Latest(z) => z = x
  BY <1>2, <1>3
<1>5. LastVerdict = x
  BY <1>4 DEF LastVerdict
<1>6. CountsAsRepaired
  <2>1. IsFiniteSet(HarnessArtifacts) /\ {c1, x} \subseteq HarnessArtifacts
    BY <1>1, VerdictFiles
  <2>2. Cardinality({c1} \cup {x}) = 2
    <3>1. IsFiniteSet({c1}) /\ Cardinality({c1}) = 1 /\ x \notin {c1}
      BY <1>1, FS_Singleton
    <3> QED BY <3>1, FS_AddElement
  <2>3. {c1} \cup {x} = {c1, x}
    OBVIOUS
  <2>4. 2 <= Cardinality(HarnessArtifacts) /\ Cardinality(HarnessArtifacts) \in Nat
    <3> HIDE DEF c1
    <3> QED BY <2>1, <2>2, <2>3, FS_Subset, FS_CardinalityType
  <2> QED BY <2>4 DEF CountsAsRepaired
<1> QED BY <1>5, <1>6

(* A task that was never started again counts as repaired only if it was.    *)
LEMMA RepairedOrRestarted ==
  ASSUME IInv, LineageInv, OrphanInv, DatesInv, FilesInv,
         NEW first \in HarnessNodeIds, NEW second \in SecondTo(first),
         CountsAsRepaired, LastVerdict.producer = first
  PROVE  boot > 1
<1> SUFFICES ASSUME ~ (boot > 1) PROVE FALSE
  OBVIOUS
<1>1. \A x \in HarnessArtifacts : x.boot = 1
  <2>1. boot \in Nat
    BY MaxBootsAssumption DEF IInv, TypeOK
  <2> QED BY <2>1, VerdictFiles
<1>2. PICK x \in HarnessArtifacts : x.producer = second
  <2> SUFFICES ASSUME \A x \in HarnessArtifacts : x.producer # second PROVE FALSE
    OBVIOUS
  <2>1. \A x, y \in HarnessArtifacts : x = y
    BY <1>1, VerdictFiles
  <2>2. HarnessArtifacts = {} \/ \E x : HarnessArtifacts = {x}
    BY <2>1
  <2>3. Cardinality(HarnessArtifacts) \in {0, 1}
    BY <2>2, FS_EmptySet, FS_Singleton
  <2> QED BY <2>3 DEF CountsAsRepaired
<1>3. LastVerdict = x
  BY <1>1, <1>2, SecondVerdictIsLast
<1> QED BY <1>2, <1>3, VerdictFiles

(* The verdicts in the summary are of what was committed. *)
LEMMA VerdictsHold ==
  ASSUME IInv, LineageInv, OrphanInv, DatesInv, FilesInv,
         NEW first \in HarnessNodeIds, NEW second \in SecondTo(first)
  PROVE  VerdictsWithinCrashes(first, second)
<1>1. Committed(second) # NoArtifact =>
        CountsAsRepaired /\ LastVerdict = Committed(second)
  <2> SUFFICES ASSUME Committed(second) # NoArtifact
               PROVE  CountsAsRepaired /\ LastVerdict = Committed(second)
    OBVIOUS
  <2>1. /\ Committed(second) \in HarnessArtifacts
        /\ Committed(second).producer = second
        /\ \A y \in HarnessArtifacts : y.producer = second => y.boot <= Committed(second).boot
    BY VerdictFiles
  <2> QED BY <2>1, SecondVerdictIsLast
<1> QED BY <1>1, FirstVerdictHolds, RepairedOrRestarted DEF VerdictsWithinCrashes

(* cli/summarize.py says of every task what its committed verdicts say, and  *)
(* counts the calls of at most one wave too many for every start, though it  *)
(* reads files and events that no checkpoint stands for.                     *)
THEOREM SummaryHolds == Spec => []SummaryWithinCrashes
<1>1. ASSUME IInv, LineageInv, OrphanInv, EventInv, CountInv, DatesInv, FilesInv
      PROVE  SummaryWithinCrashes
  <2>1. ASSUME NEW pair \in VerdictPairs
        PROVE  VerdictsWithinCrashes(pair[1], pair[2])
    <3>1. PICK first \in HarnessNodeIds : pair \in {first} \X SecondTo(first)
      BY <2>1 DEF VerdictPairs
    <3>2. pair[1] = first /\ pair[2] \in SecondTo(first)
      BY <3>1
    <3> QED BY <1>1, <3>2, VerdictsHold
  <2> QED BY <1>1, <2>1, EventsCounted DEF SummaryWithinCrashes
<1>2. IInv /\ LineageInv /\ OrphanInv /\ EventInv /\ CountInv /\ DatesInv /\ FilesInv
        => SummaryWithinCrashes
  BY <1>1
<1> QED BY <1>2, Invariance, LineageInvariance, OrphanInvariance, EventInvariance,
           CountInvariance, DatesInvariance, FilesInvariance, PTL

-----------------------------------------------------------------------------
(* What the commands of a benchmark rely on (TaskOutcomes).                  *)

CheckpointStatus ==
  IF checkpoint = NoState THEN "missing"
  ELSE IF checkpoint.frozen THEN "frozen"
  ELSE IF StuckState(checkpoint) THEN "dead"
  ELSE "partial"

(* Wherever a process is killed, the checkpoint changes by waves alone, and  *)
(* how execute ends tells what it is: the answer is there when execute       *)
(* returns, GraphDeadlockError is raised by a dead task only, and a task     *)
(* from which an exception comes can be taken up again.                      *)
ServesCommands ==
  /\ [][CheckpointStatus' \in AfterWave(CheckpointStatus)]_CheckpointStatus
  /\ [](\A end \in DOMAIN StatusWhen : pc = end => CheckpointStatus \in StatusWhen[end])

(* What the place in execute says of the checkpoint. *)
StatusInv ==
  /\ pc \in {"running", "putting", "logging", "aborted"} => CheckpointStatus \in Unsettled
  /\ pc \in {"finishing", "returned"} => CheckpointStatus = "frozen"
  /\ pc = "deadlocked" => CheckpointStatus = "dead"

(* A task that has not begun has something to run. *)
LEMMA FreshRuns ==
  ASSUME NEW n \in Nodes(Graph), InputSlots(Graph, n) \subseteq InitialSlots,
         NEW st \in RuntimeStates, IsFresh(st)
  PROVE  ~ StuckState(st)
<1> DEFINE impossible == ImpossibleNodes(Graph, st)
           skipped    == Skip(st, impossible)
<1>1. DOMAIN st.initial_artifacts = InitialSlots
  BY DEF RuntimeStates
<1>2. n \notin impossible
  BY <1>1 DEF ImpossibleNodes
<1>3. /\ skipped.node_status[n] = "PENDING"
      /\ skipped.initial_artifacts = st.initial_artifacts
  <2> HIDE DEF impossible
  <2> QED BY <1>2 DEF Skip, RuntimeStates, IsFresh
<1> HIDE DEF skipped
<1>4. ResolvedSlots(Graph, skipped, n) = InputSlots(Graph, n)
  BY <1>1, <1>3 DEF ResolvedSlots
<1>5. n \in Ready(Graph, skipped)
  BY <1>3, <1>4 DEF Ready
<1> QED BY <1>5, SomeReadyRuns DEF StuckState, skipped

(* A wave begins in a task that is not settled. *)
LEMMA BeginWaveStatus ==
  ASSUME IInv, AheadInv, BeginWave
  PROVE  CheckpointStatus \in Unsettled
<1>1. pc = "loop" /\ FindReadyNodes(Graph, AfterSkipping, MaxParallel) # {}
  BY DEF BeginWave
<1>2. ~ StuckState(rs) /\ ~ rs.frozen
  BY <1>1 DEF StuckState, AfterSkipping, IInv, LoopInv
<1> QED BY <1>1, <1>2 DEF AheadInv, CheckpointStatus, Unsettled

(* The loop ends with GraphDeadlockError, in a dead task. *)
LEMMA EndLoopStatus ==
  ASSUME IInv, AheadInv, EndLoop,
         NEW n \in Nodes(Graph), InputSlots(Graph, n) \subseteq InitialSlots
  PROVE  pc' = "deadlocked" /\ CheckpointStatus = "dead"
<1>1. pc = "loop" /\ NothingReady
  BY DEF EndLoop
<1>2. rs \in RuntimeStates /\ rs # NoState /\ ~ rs.frozen
  BY <1>1, SentinelAssumption DEF IInv, TypeOK, LoopInv
<1>3. pc' = "deadlocked"
  BY <1>2 DEF EndLoop, CanFinalize, IInv, FrozenIffAnswered, Loaded
<1>4. StuckState(rs)
  BY <1>1 DEF NothingReady, StuckState, AfterSkipping
<1>5. ~ IsFresh(rs)
  BY <1>2, <1>4, FreshRuns
<1> QED BY <1>1, <1>2, <1>3, <1>4, <1>5 DEF AheadInv, CheckpointStatus

LEMMA NextStatus ==
  ASSUME IInv, AheadInv, StatusInv, [Next]_vars,
         NEW n \in Nodes(Graph), InputSlots(Graph, n) \subseteq InitialSlots
  PROVE  StatusInv'
<1>1. CASE SaveCheckpoint
  BY <1>1 DEF SaveCheckpoint, StatusInv
<1>2. CASE ~ SaveCheckpoint
  <2>1. checkpoint' = checkpoint
    BY <1>2, OnlySaveChangesCheckpoint
  <2>2. CheckpointStatus' = CheckpointStatus
    BY <2>1 DEF CheckpointStatus, StuckState
  <2>3. CASE Resume
    BY <2>2, <2>3 DEF Resume, StatusInv, CheckpointStatus
  <2>4. CASE BeginWave
    <3>1. pc' = "running"
      BY <2>4 DEF BeginWave
    <3> QED BY <2>2, <2>4, <3>1, BeginWaveStatus DEF StatusInv
  <2>5. CASE EndLoop
    BY <2>2, <2>5, EndLoopStatus DEF StatusInv
  <2>6. CASE LogCheckpoint
    <3>1. pc = "saved" /\ pc' = IF rs.frozen THEN "finishing" ELSE "loop"
      BY <2>6 DEF LogCheckpoint
    <3>2. checkpoint = rs /\ rs # NoState
      BY <3>1, SentinelAssumption DEF IInv, SavedInv, TypeOK
    <3> QED BY <2>2, <3>1, <3>2 DEF StatusInv, CheckpointStatus
  <2>7. CASE \/ StartFresh \/ RefuseDrift \/ (\E m \in Nodes(Graph) : NodeFinishes(m)) \/ WaveEnds
             \/ PutArtifact \/ CommitResults \/ LogResult \/ FreezeReturn \/ Crash
             \/ EditContracts \/ UNCHANGED vars
    <3>1. \/ pc' = pc
          \/ pc = "running" /\ pc' \in {"putting", "aborted"}
          \/ pc = "putting" /\ pc' = "logging"
          \/ pc = "finishing" /\ pc' = "returned"
          \/ pc' \in {"loop", "refused", "down"}
      BY <2>7 DEF StartFresh, RefuseDrift, NodeFinishes, NodeSucceeds, NodeFails, NodeRaises,
                  Finish, WaveEnds, PutArtifact, CommitResults, LogResult, FreezeReturn, Crash,
                  EditContracts, memory, vars
    <3> QED BY <2>2, <3>1 DEF StatusInv
  <2> QED BY <1>2, <2>3, <2>4, <2>5, <2>6, <2>7 DEF Next, Commit
<1> QED BY <1>1, <1>2

(* The runtime keeps to what the model of the commands assumes of it, for    *)
(* every graph with an entry node, as the compiler demands one.              *)
THEOREM RuntimeServesCommands ==
  ASSUME \E n \in Nodes(Graph) : InputSlots(Graph, n) \subseteq InitialSlots
  PROVE  Spec => ServesCommands
<1>1. Init => StatusInv
  BY DEF Init, StatusInv
<1>2. IInv /\ AheadInv /\ StatusInv /\ [Next]_vars => StatusInv'
  BY NextStatus
<1>3. IInv /\ StatusInv /\ [Next]_vars =>
        [CheckpointStatus' \in AfterWave(CheckpointStatus)]_CheckpointStatus
  <2> SUFFICES ASSUME IInv, StatusInv, [Next]_vars, CheckpointStatus' # CheckpointStatus
               PROVE  CheckpointStatus' \in AfterWave(CheckpointStatus)
    OBVIOUS
  <2>1. SaveCheckpoint
    <3>1. checkpoint' # checkpoint
      BY DEF CheckpointStatus, StuckState
    <3> QED BY <3>1, OnlySaveChangesCheckpoint
  <2>2. CheckpointStatus \in Unsettled /\ checkpoint' = rs /\ rs # NoState
    BY <2>1, SentinelAssumption DEF SaveCheckpoint, StatusInv, IInv, TypeOK
  <2> QED BY <2>2 DEF AfterWave, CheckpointStatus
<1>4. StatusInv => \A end \in DOMAIN StatusWhen : pc = end => CheckpointStatus \in StatusWhen[end]
  BY DEF StatusInv, StatusWhen
<1> QED BY <1>1, <1>2, <1>3, <1>4, Invariance, AheadInvariance, PTL DEF Spec, ServesCommands
=============================================================================
