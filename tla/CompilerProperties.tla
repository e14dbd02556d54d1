------------------------- MODULE CompilerProperties -------------------------
(***************************************************************************)
(* What acceptance by the compiler is worth to the runtime.                *)
(***************************************************************************)
EXTENDS GraphCompiler, WaveCommitter

Stages == {"identifiers", "components", "edges", "slots", "entries", "waves",
           "producers", "reaching", "accepted", "rejected"}

Faults == {"duplicate id", "component", "edge", "unbound slot", "no entry node",
           "cycle", "no final producer", "unreachable output"}

(* Every variable holds a value of its kind, and a fault is named exactly    *)
(* when the graph is rejected.                                               *)
TypeOK ==
  /\ stage \in Stages
  /\ reason \in Faults \cup {"none"}
  /\ reason # "none" <=> stage = "rejected"
  /\ entry_nodes \cup current \cup reachable \subseteq Nodes(graph)
  /\ \A i \in DOMAIN waves : waves[i] \subseteq Nodes(graph)
  /\ visited \in Nat

Layered == UNION {waves[i] : i \in DOMAIN waves}

Accepted == stage = "accepted"

(* An accepted graph is one the runtime can index without a KeyError: ids    *)
(* are unique, every edge joins two slots that exist and carry one schema.   *)
AcceptedIsGraph ==
  Accepted =>
    /\ IsGraph(graph)
    /\ \A e \in Edges(graph) :
         graph.nodes[Source(graph, e)].output_slots[graph.edges[e].source_output]
           = graph.nodes[Destination(graph, e)].input_slots[graph.edges[e].destination_input]

(* The waves of an accepted graph are the depths of its nodes: each node is  *)
(* in one wave, which comes after those of all its sources and directly      *)
(* after that of one of them.                                                *)
WavesAreDepths ==
  Accepted =>
    /\ Layered = Nodes(graph)
    /\ \A i, j \in DOMAIN waves : \A n \in waves[i] \cap waves[j] : i = j
    /\ \A i \in DOMAIN waves : \A n \in waves[i] :
         LET sources == {Source(graph, e) : e \in {f \in Edges(graph) : Destination(graph, f) = n}}
         IN  /\ sources \subseteq UNION {waves[j] : j \in 1 .. i - 1}
             /\ i = 1 <=> sources = {}
             /\ i > 1 => sources \cap waves[i - 1] # {}

(* A set of nodes each of which waits for another one of the set. *)
HasCycle(g) ==
  \E S \in (SUBSET Nodes(g)) \ {{}} :
    \A n \in S : \E e \in Edges(g) : Destination(g, e) = n /\ Source(g, e) \in S

(* "Graph contains a cycle" is said of graphs that have one, self-loops and  *)
(* parallel edges included, and no other graph reaches the runtime.          *)
CycleVerdictExact ==
  /\ reason = "cycle" => HasCycle(graph)
  /\ stage \in {"producers", "reaching", "accepted"} => ~ HasCycle(graph)

-----------------------------------------------------------------------------
(* The wave loop of the runtime with every node succeeding, by the           *)
(* scheduler's and the committer's own definitions.                          *)

(* An artifact is named after the node that it came from, and no node's id is None. *)
ASSUME NodeIdsAssumption == \A d \in Declarations : NoArtifact \notin NodeIds(d)

UntouchedState(g) ==
  [ node_status       |-> [n \in Nodes(g) |-> "PENDING"],
    node_outputs      |-> [n \in Nodes(g) |-> NoArtifact],
    initial_artifacts |-> [slot \in DOMAIN g.initial_artifact_slots |-> slot],
    active_edges      |-> {e \in Edges(g) : ~ Conditional(g, e)},
    inactive_edges    |-> {},
    final_output      |-> NoArtifact,
    frozen            |-> FALSE,
    wave_id           |-> 0 ]

AllSucceed(g, st) ==
  CommitWave(g, st, [n \in FindReadyNodes(g, st, 1) |->
                       [succeeded |-> TRUE, artifact |-> n, payload |-> << >>]])

Delivers(g) ==
  LET after[k \in 0 .. Cardinality(Nodes(g))] ==
        IF k = 0 THEN UntouchedState(g)
        ELSE IF after[k - 1].frozen \/ Ready(g, after[k - 1]) = {} THEN after[k - 1]
        ELSE AllSucceed(g, after[k - 1])
  IN  after[Cardinality(Nodes(g))].frozen

(* Nodes publish on their first output slot only; no condition is in play.   *)
PublishedOnly(g) ==
  /\ \A e \in Edges(g) : /\ ~ Conditional(g, e)
                         /\ g.edges[e].source_output = PublishedSlot(g, Source(g, e))
  /\ \A n \in FinalProducerNodes(g) : PublishedSlot(g, n) = g.final_output_slot

(* An accepted graph without conditions cannot deadlock while its nodes      *)
(* succeed: started one node at a time it reaches a final output.            *)
AcceptedGraphsDeliver == Accepted /\ PublishedOnly(graph) => Delivers(graph)

(* "It must reject a graph when a conditional branch can never activate."    *)
EveryBranchCanActivate ==
  Accepted =>
    \A e \in Edges(graph) : Conditional(graph, e) =>
      \E payload \in SchemaPayloads[PublishedSchema(graph, Source(graph, e))] :
        Evaluate(graph.edges[e].condition, payload)
=============================================================================
