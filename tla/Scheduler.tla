----------------------------- MODULE Scheduler -----------------------------
(***************************************************************************)
(* src/orchestra/runtime/scheduler.py: which nodes may run next and which  *)
(* never can.  Pure functions of the graph g and the RuntimeState st.      *)
(***************************************************************************)
EXTENDS OrchestraIR

(* NodeStatus (runtime/state.py).  READY and CANCELLED are declared there   *)
(* and assigned nowhere, so no state holds them.                            *)
NodeStatuses == {"PENDING", "RUNNING", "SUCCEEDED", "FAILED", "SKIPPED"}

Dead == {"FAILED", "SKIPPED"}

Terminal == {"SUCCEEDED"} \cup Dead

Incoming(g, n, slot) ==
  {e \in Edges(g) : /\ g.edges[e].destination_node = n
                    /\ g.edges[e].destination_input = slot}

(* node_outputs.get(source_node, {}).get(source_output) *)
OutputOn(g, st, e) ==
  IF g.edges[e].source_output = PublishedSlot(g, Source(g, e))
  THEN st.node_outputs[Source(g, e)]
  ELSE NoArtifact

(* The mutated form: the scheduler forgets to ask whether the edge is active. *)
SupplyingIgnoringConditions(g, st, n, slot) ==
  {e \in Incoming(g, n, slot) : OutputOn(g, st, e) # NoArtifact}

(* The active edges of a slot whose source has published on the edge's output. *)
Supplying(g, st, n, slot) ==
  {e \in Incoming(g, n, slot) : /\ e \in st.active_edges
                                /\ OutputOn(g, st, e) # NoArtifact}

FirstEdge(E) == CHOOSE e \in E : \A f \in E : e <= f

ResolvedSlots(g, st, n) ==
  {slot \in InputSlots(g, n) : \/ slot \in DOMAIN st.initial_artifacts
                               \/ Supplying(g, st, n, slot) # {}}

(* An initial artifact shadows every edge into a slot of the same name. *)
ResolveInputIds(g, st, n) ==
  [slot \in ResolvedSlots(g, st, n) |->
     IF slot \in DOMAIN st.initial_artifacts
     THEN st.initial_artifacts[slot]
     ELSE OutputOn(g, st, FirstEdge(Supplying(g, st, n, slot)))]

(* The mutated form: a failed node counts as runnable again. *)
ReadyIncludingFailed(g, st) ==
  {n \in Nodes(g) : /\ st.node_status[n] \in {"PENDING", "FAILED"}
                    /\ ResolvedSlots(g, st, n) = InputSlots(g, n)}

Ready(g, st) ==
  {n \in Nodes(g) : /\ st.node_status[n] = "PENDING"
                    /\ ResolvedSlots(g, st, n) = InputSlots(g, n)}

Before(g, m, n) == g.nodes[m].rank < g.nodes[n].rank

(* The first max_parallel_nodes ready nodes in node-id order. *)
FindReadyNodes(g, st, max_parallel_nodes) ==
  {n \in Ready(g, st) :
     Cardinality({m \in Ready(g, st) : Before(g, m, n)}) < max_parallel_nodes}

(* The mutated form: a condition that has not been evaluated yet counts as   *)
(* one that was not met.                                                     *)
EdgeIsDeadUnlessActive(g, st, e) ==
  \/ e \notin st.active_edges
  \/ st.node_status[Source(g, e)] \in Dead

EdgeIsDead(g, st, e) ==
  \/ e \in st.inactive_edges
  \/ st.node_status[Source(g, e)] \in Dead

(* The mutated form: one dead edge is enough, as if a slot had one source. *)
ImpossibleWhenAnyEdgeDead(g, st) ==
  {n \in Nodes(g) :
     /\ st.node_status[n] = "PENDING"
     /\ \E slot \in InputSlots(g, n) \ DOMAIN st.initial_artifacts :
          \E e \in Incoming(g, n, slot) : EdgeIsDead(g, st, e)}

(***************************************************************************)
(* One pass over the nodes: a node is impossible when some slot has        *)
(* incoming edges and all of them are dead.  Skipping a node can make      *)
(* another one impossible; the callers run one pass each, so a chain is    *)
(* skipped one link at a time.                                             *)
(***************************************************************************)
ImpossibleNodes(g, st) ==
  {n \in Nodes(g) :
     /\ st.node_status[n] = "PENDING"
     /\ \E slot \in InputSlots(g, n) \ DOMAIN st.initial_artifacts :
          /\ Incoming(g, n, slot) # {}
          /\ \A e \in Incoming(g, n, slot) : EdgeIsDead(g, st, e)}

CanFinalize(st) == st.final_output # NoArtifact
=============================================================================
