------------------------- MODULE RuntimeProperties -------------------------
(***************************************************************************)
(* What NativeAsyncRuntime has to guarantee, for any graph.                *)
(***************************************************************************)
EXTENDS NativeAsyncRuntime

ArtifactIds == [producer : Nodes(Graph) \cup {NoNode}, boot : 1 .. MaxBoots]

RuntimeStates ==
  [ node_status       : [Nodes(Graph) -> NodeStatuses],
    node_outputs      : [Nodes(Graph) -> ArtifactIds \cup {NoArtifact}],
    initial_artifacts : [InitialSlots -> ArtifactIds],
    active_edges      : SUBSET Edges(Graph),
    inactive_edges    : SUBSET Edges(Graph),
    final_output      : ArtifactIds \cup {NoArtifact},
    frozen            : BOOLEAN,
    wave_id           : Nat,
    contract_hash     : Contracts ]

(* The two sentinels are not values of the kinds they stand beside. *)
ASSUME SentinelAssumption == NoState \notin RuntimeStates /\ NoArtifact \notin ArtifactIds

(* Every variable holds a value of its kind, and execute has a state in      *)
(* memory exactly where the code has bound `state`.                          *)
TypeOK ==
  /\ pc \in Active \cup Stopped
  /\ rs \in RuntimeStates \cup {NoState}
  /\ rs = NoState <=> pc \in {"down", "aborted", "refused"}
  /\ checkpoint \in RuntimeStates \cup {NoState}
  /\ DOMAIN results \subseteq Nodes(Graph)
  /\ todo \subseteq Nodes(Graph)
  /\ DOMAIN store \subseteq ArtifactIds
  /\ boot \in 0 .. MaxBoots
  /\ contract \in Contracts
  /\ allow_drift \in BOOLEAN

-----------------------------------------------------------------------------

Outputs(st) == {st.node_outputs[n] : n \in Nodes(Graph)} \ {NoArtifact}

InitialIds(st) == {st.initial_artifacts[slot] : slot \in DOMAIN st.initial_artifacts}

Referenced(st) == Outputs(st) \cup InitialIds(st)

Loaded == IF rs = NoState THEN {} ELSE {rs}
Saved  == IF checkpoint = NoState THEN {} ELSE {checkpoint}

(* Whatever the process holds in memory or left in a checkpoint refers only  *)
(* to artifacts that are in the store, so that neither the read-back of a    *)
(* resume nor _load_inputs can raise KeyError, wherever the last process     *)
(* was killed (committer.py writes artifacts before it exposes outputs).     *)
ReferencedArtifactsStored ==
  \A st \in Loaded \cup Saved : Referenced(st) \subseteq DOMAIN store

(* A checkpoint never says that a node is running: after a crash nobody      *)
(* would finish such a node, and the scheduler starts only pending ones.     *)
CheckpointQuiescent ==
  \A st \in Saved : \A n \in Nodes(Graph) : st.node_status[n] # "RUNNING"

(* A state is frozen exactly when it has a final output, and that is the     *)
(* output of a node that succeeded and publishes the final slot (so          *)
(* can_finalize never finds work the committer has not done).                *)
FrozenIffAnswered ==
  \A st \in Loaded \cup Saved :
    /\ st.frozen <=> st.final_output # NoArtifact
    /\ st.frozen => \E n \in Nodes(Graph) :
                      /\ st.node_status[n] = "SUCCEEDED"
                      /\ st.node_outputs[n] = st.final_output
                      /\ PublishedSlot(Graph, n) = Graph.final_output_slot

(* What the checkpoint has decided stays decided over every later step,      *)
(* crash and restart: it is never lost, a terminal node keeps its status and *)
(* its output, and a frozen checkpoint never changes.                        *)
KeepsDecisions(old, new) ==
  /\ new # NoState
  /\ \A n \in Nodes(Graph) :
       old.node_status[n] \in Terminal =>
         /\ new.node_status[n] = old.node_status[n]
         /\ new.node_outputs[n] = old.node_outputs[n]
  /\ old.frozen => new = old

DecisionsAreFinal == [][checkpoint # NoState => KeepsDecisions(checkpoint, checkpoint')]_vars

(* The parents an artifact records are the artifacts its own state refers    *)
(* to, on every input slot, and each came over an edge whose condition the   *)
(* stored parent meets.  No committed answer descends from an artifact of a  *)
(* wave that a crash threw away, nor from a branch that was not taken.       *)
CommittedLineage ==
  \A st \in Loaded \cup Saved : \A n \in Nodes(Graph) :
    st.node_outputs[n] # NoArtifact =>
      LET parents == store[st.node_outputs[n]].parents
      IN  /\ DOMAIN parents = InputSlots(Graph, n)
          /\ \A slot \in DOMAIN parents :
               IF slot \in InitialSlots
               THEN parents[slot] = st.initial_artifacts[slot]
               ELSE \E e \in Incoming(Graph, n, slot) :
                      /\ parents[slot] = OutputOn(Graph, st, e)
                      /\ Conditional(Graph, e) =>
                           Evaluate(Graph.edges[e].condition, store[parents[slot]].payload)

(* A crash costs at most one wave: of the artifacts that one start of the    *)
(* process made, at most max_parallel_nodes are in no checkpoint.            *)
Orphans(b) ==
  {id \in DOMAIN store : id.boot = b /\ id.producer \in Nodes(Graph)}
    \ UNION {Outputs(st) : st \in Saved}

CrashCostsOneWave == \A b \in 1 .. boot : Cardinality(Orphans(b)) <= MaxParallel

(* The log never lags behind the checkpoint: a node whose result it holds    *)
(* has its event, from the very start of the process that produced it.       *)
CheckpointExplained ==
  \A st \in Saved : \A n \in Nodes(Graph) :
    /\ st.node_status[n] = "SUCCEEDED" =>
         \E ev \in events : /\ ev.type = "NODE_COMPLETED"
                            /\ ev.node = n
                            /\ ev.boot = st.node_outputs[n].boot
    /\ st.node_status[n] = "FAILED" =>
         \E ev \in events : ev.type = "NODE_FAILED" /\ ev.node = n

(* Without --allow-config-drift a running task combines only artifacts made  *)
(* under the contracts it runs with.                                         *)
NoSilentDrift ==
  pc \in Active /\ ~ allow_drift =>
    \A id \in Referenced(rs) : store[id].contract = contract

(* A task that ended in GraphDeadlockError has no answer after any number of *)
(* further starts: failures are in the checkpoint and are not tried again.   *)
DeadlockIsForever ==
  [](pc = "deadlocked" => [](checkpoint # NoState => ~ checkpoint.frozen))

(* Edges out of one node whose conditions nothing it can produce meets both. *)
Exclusive(e, f) ==
  /\ Conditional(Graph, e) /\ Conditional(Graph, f)
  /\ Source(Graph, e) = Source(Graph, f)
  /\ \A payload \in SchemaPayloads[PublishedSchema(Graph, Source(Graph, e))] :
       ~ (/\ Evaluate(Graph.edges[e].condition, payload)
          /\ Evaluate(Graph.edges[f].condition, payload))

(* Nodes each of which has an input that comes over such an edge only.       *)
AlternativesTo(m) ==
  {n \in Nodes(Graph) :
     \E s \in InputSlots(Graph, m) \ InitialSlots :
     \E t \in InputSlots(Graph, n) \ InitialSlots :
       \A e \in Incoming(Graph, m, s) : \A f \in Incoming(Graph, n, t) : Exclusive(e, f)}

Alternatives == UNION {{m} \X AlternativesTo(m) : m \in Nodes(Graph)}

Started(st) == {n \in Nodes(Graph) : st.node_status[n] \in {"RUNNING", "SUCCEEDED", "FAILED"}}

(* Of alternative branches at most one runs: once the verdict of the harness *)
(* sends a baseline's task one way, no crash or restart sends it the other,  *)
(* so that the extra LLM call of a repair is never made for passing code.    *)
OneBranchRuns ==
  \A st \in Loaded \cup Saved : \A pair \in Alternatives :
    ~ (pair[1] \in Started(st) /\ pair[2] \in Started(st))

(* The nodes that have all their inputs if the nodes of done have succeeded  *)
(* and said what they did.                                                   *)
FedBy(g, done, said) ==
  {n \in Nodes(g) :
     \A slot \in InputSlots(g, n) \ InitialSlots : \E e \in Incoming(g, n, slot) :
       /\ Source(g, e) \in done
       /\ g.edges[e].source_output = PublishedSlot(g, Source(g, e))
       /\ Conditional(g, e) => Evaluate(g.edges[e].condition, said[Source(g, e)])}

(* What the nodes of done can have said. *)
Reports(g, done) ==
  {said \in [done -> UNION {SchemaPayloads[PublishedSchema(g, n)] : n \in done}] :
     \A n \in done : said[n] \in SchemaPayloads[PublishedSchema(g, n)]}

(* Whatever the nodes say, when all that can run have succeeded one of them  *)
(* has published the final slot: no verdict is left without a branch.        *)
AlwaysAnswers(g) ==
  \A done \in SUBSET Nodes(g) : \A said \in Reports(g, done) :
    FedBy(g, done, said) = done =>
      \E n \in done : PublishedSlot(g, n) = g.final_output_slot

(* A task whose graph leaves no verdict without a branch, as those of the    *)
(* baselines, ends in GraphDeadlockError only if one of its nodes failed.    *)
DeadlockMeansFailure ==
  pc = "deadlocked" =>
    \/ \E n \in Nodes(Graph) : rs.node_status[n] = "FAILED"
    \/ ~ AlwaysAnswers(Graph)

(* Every start of the process comes to an end. *)
EveryStartEnds == (pc \in Active) ~> (pc \in Stopped)

-----------------------------------------------------------------------------
(* The files implement DurableTask: whoever reads only the checkpoint and    *)
(* the store sees nodes decided in batches by the declarative meaning of the *)
(* graph, whatever crashed in between.                                       *)

Decision(n) ==
  IF checkpoint = NoState THEN "UNDECIDED"
  ELSE IF checkpoint.node_status[n] \in Terminal THEN checkpoint.node_status[n]
  ELSE "UNDECIDED"

Product(n) ==
  IF Decision(n) = "SUCCEEDED" THEN store[checkpoint.node_outputs[n]].payload ELSE NoPayload

Answer ==
  IF checkpoint = NoState \/ checkpoint.final_output = NoArtifact THEN NoArtifact
  ELSE checkpoint.final_output.producer

Durable == INSTANCE DurableTask WITH
  Given   <- InitialSlots,
  outcome <- [n \in Nodes(Graph) |-> Decision(n)],
  output  <- [n \in Nodes(Graph) |-> Product(n)],
  answer  <- Answer

ImplementsDurableTask == Durable!Spec

-----------------------------------------------------------------------------
(***************************************************************************)
(* The inductive strengthening of the safety invariants, used in           *)
(* RuntimeProofs: what holds of the memory at every point of execute.      *)
(***************************************************************************)

(* Results exist for nodes of the wave only, and name artifacts of this      *)
(* start of the process.                                                     *)
ResultsInv ==
  /\ rs # NoState => boot \in 1 .. MaxBoots
  /\ \A n \in DOMAIN results :
       results[n].succeeded => results[n].artifact \in ArtifactIds
  /\ pc = "running" => DOMAIN results \subseteq Running
  /\ pc = "putting" => DOMAIN results = Running

(* While a wave is put, what has been visited is stored. *)
PutInv ==
  pc = "putting" =>
    /\ todo \subseteq Succeeded(results)
    /\ \A n \in Succeeded(results) \ todo : results[n].artifact \in DOMAIN store

(* Nodes are running in memory only between the start of a wave and its      *)
(* commit, and the loop goes on only while there is no answer.               *)
LoopInv ==
  /\ pc \in {"loop", "logging", "saved", "finishing"} =>
       \A n \in Nodes(Graph) : rs.node_status[n] # "RUNNING"
  /\ pc \in {"loop", "running", "putting"} => ~ rs.frozen

(* The memory of an active process extends the checkpoint, which is not      *)
(* frozen until the process has saved its last wave.                         *)
ExtendsInv ==
  checkpoint # NoState =>
    /\ pc \in {"loop", "running", "putting", "logging"} => ~ checkpoint.frozen
    /\ pc \in {"loop", "running", "putting", "logging"} =>
         \A n \in Nodes(Graph) : checkpoint.node_status[n] \in Terminal =>
           /\ rs.node_status[n] = checkpoint.node_status[n]
           /\ rs.node_outputs[n] = checkpoint.node_outputs[n]

SavedInv == pc = "saved" => checkpoint = rs

IInv ==
  /\ TypeOK
  /\ ResultsInv
  /\ PutInv
  /\ LoopInv
  /\ ExtendsInv
  /\ SavedInv
  /\ ReferencedArtifactsStored
  /\ CheckpointQuiescent
  /\ FrozenIffAnswered

=============================================================================
