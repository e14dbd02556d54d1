--------------------------- MODULE GraphCompiler ---------------------------
(***************************************************************************)
(* GraphCompiler.compile (src/orchestra/ir/compiler.py): a graph as it is  *)
(* declared is checked, layered into waves and tested for a reachable      *)
(* answer, and is either accepted or rejected with the first fault found.  *)
(* Each action is one block of checks or one turn of one of its loops.     *)
(*                                                                         *)
(* A declaration is a record                                               *)
(*   nodes  sequence of [node_id, component, spec]                         *)
(*   edges  sequence of [edge_id, spec]                                    *)
(*   initial_artifact_slots, final_output_slot                             *)
(* component is the contract_id, harness_id, transform_id or selector_id.  *)
(***************************************************************************)
EXTENDS OrchestraIR
LOCAL INSTANCE Functions

CONSTANTS
  Declarations,    \* the graphs handed to the compiler
  AgentContracts,  \* contract id -> [input_schema, output_schema]
  ComponentIds,    \* kind -> ids registered for it (harness, transform, selector)
  SchemaFields,    \* PAYLOAD_SCHEMAS: schema -> its top-level fields
  PathRoot         \* path of a condition -> its first component

(* What the models of pydantic let through: lists of node and edge           *)
(* specifications.  rank orders the ids.  Nothing asks for an output slot.   *)
IsDeclaration(d) ==
  /\ DOMAIN d.nodes = 1 .. Len(d.nodes) /\ Len(d.nodes) \in Nat
  /\ DOMAIN d.edges = 1 .. Len(d.edges) /\ Len(d.edges) \in Nat
  /\ \A i \in DOMAIN d.nodes : IsBaseNodeSpec(d.nodes[i].spec)
  /\ \A i, j \in DOMAIN d.nodes : d.nodes[i].spec.rank = d.nodes[j].spec.rank =>
                                   d.nodes[i].node_id = d.nodes[j].node_id
  /\ \A i \in DOMAIN d.edges : IsEdgeSpec(d.edges[i].spec)

ASSUME DeclarationsAssumption == \A d \in Declarations : IsDeclaration(d)

VARIABLES stage, reason, declared, graph, entry_nodes,
          indegree, current, waves, visited, reachable

vars == <<stage, reason, declared, graph, entry_nodes,
          indegree, current, waves, visited, reachable>>

layering == <<indegree, current, waves, visited>>

NodeIds(d) == {d.nodes[i].node_id : i \in DOMAIN d.nodes}

NodeIdsInOrder(d) == [i \in DOMAIN d.nodes |-> d.nodes[i].node_id]
EdgeIdsInOrder(d) == [i \in DOMAIN d.edges |-> d.edges[i].edge_id]

(* nodes = {node.node_id: node ...}, and the edges by position *)
GraphOf(d) ==
  [ nodes |-> [id \in NodeIds(d) |->
                 (CHOOSE node \in {d.nodes[i] : i \in DOMAIN d.nodes} : node.node_id = id).spec],
    edges |-> [i \in DOMAIN d.edges |-> d.edges[i].spec],
    initial_artifact_slots |-> d.initial_artifact_slots,
    final_output_slot      |-> d.final_output_slot ]

Schemas(slots) == {slots[s] : s \in DOMAIN slots}

Destination(g, e) == g.edges[e].destination_node

Targets(g, S) == {Destination(g, e) : e \in {f \in Edges(g) : Source(g, f) \in S}}

-----------------------------------------------------------------------------
(* The checks. *)

ComponentKnown(node) ==
  IF node.spec.node_kind # "agent"
  THEN node.component \in ComponentIds[node.spec.node_kind]
  ELSE /\ node.component \in DOMAIN AgentContracts
       /\ AgentContracts[node.component].output_schema \in Schemas(node.spec.output_slots)
       /\ AgentContracts[node.component].input_schema
            \in {"ArtifactBundle"} \cup Schemas(node.spec.input_slots)

(* The mutated form: the destination's slots are not looked at. *)
EdgeFitsSource(g, e) ==
  LET edge == g.edges[e]
  IN  /\ {edge.source_node, edge.destination_node} \subseteq Nodes(g)
      /\ edge.source_output \in OutputSlots(g, edge.source_node)

(* Of the path of a condition only the first component is looked up, and its *)
(* operator and value are not looked at.                                     *)
EdgeFits(g, e) ==
  LET edge == g.edges[e]
  IN  /\ {edge.source_node, edge.destination_node} \subseteq Nodes(g)
      /\ edge.source_output \in OutputSlots(g, edge.source_node)
      /\ edge.destination_input \in InputSlots(g, edge.destination_node)
      /\ LET type == g.nodes[edge.source_node].output_slots[edge.source_output]
         IN  /\ type = g.nodes[edge.destination_node].input_slots[edge.destination_input]
             /\ Conditional(g, e) =>
                  /\ type \in DOMAIN SchemaFields
                  /\ PathRoot[edge.condition.source_field] \in SchemaFields[type]

SlotBound(g, n, slot) ==
  \/ slot \in DOMAIN g.initial_artifact_slots
  \/ \E e \in Edges(g) : Destination(g, e) = n /\ g.edges[e].destination_input = slot

(* The mutated form: one bound slot of a node is enough. *)
AnySlotBound(g) ==
  \A n \in Nodes(g) :
    InputSlots(g, n) # {} => \E slot \in InputSlots(g, n) : SlotBound(g, n, slot)

AllSlotsBound(g) ==
  \A n \in Nodes(g) : \A slot \in InputSlots(g, n) : SlotBound(g, n, slot)

(* initial_match: all input slots are initial ones, of the same schema *)
EntryNodes(g) ==
  {n \in Nodes(g) : \A slot \in InputSlots(g, n) :
     /\ slot \in DOMAIN g.initial_artifact_slots
     /\ g.initial_artifact_slots[slot] = g.nodes[n].input_slots[slot]}

(* The mutated form: an edge from a node to itself is not counted. *)
IndegreesWithoutLoops(g) ==
  [n \in Nodes(g) |-> Cardinality({e \in Edges(g) : /\ Destination(g, e) = n
                                                    /\ Source(g, e) # n})]

Indegrees(g) == [n \in Nodes(g) |-> Cardinality({e \in Edges(g) : Destination(g, e) = n})]

FinalProducerNodes(g) == {n \in Nodes(g) : g.final_output_slot \in OutputSlots(g, n)}

-----------------------------------------------------------------------------
(* The stages. *)

(* The mutated form: the fault is noted but nothing is raised. *)
CheckWithoutRaising(from, ok, to, fault) ==
  /\ stage = from
  /\ stage' = to
  /\ reason' = IF ok THEN reason ELSE fault

(* A fault raises GraphCompilationError, and nothing else is looked at. *)
Check(from, ok, to, fault) ==
  /\ stage = from
  /\ stage' = IF ok THEN to ELSE "rejected"
  /\ reason' = IF ok THEN reason ELSE fault

CheckIdentifiers ==
  /\ Check("identifiers",
           IsInjective(NodeIdsInOrder(declared)) /\ IsInjective(EdgeIdsInOrder(declared)),
           "components", "duplicate id")
  /\ graph' = GraphOf(declared)
  /\ UNCHANGED <<declared, entry_nodes, layering, reachable>>

CheckComponents ==
  /\ Check("components", \A i \in DOMAIN declared.nodes : ComponentKnown(declared.nodes[i]),
           "edges", "component")
  /\ UNCHANGED <<declared, graph, entry_nodes, layering, reachable>>

CheckEdges ==
  /\ Check("edges", \A e \in Edges(graph) : EdgeFits(graph, e), "slots", "edge")
  /\ indegree' = IF stage' = "slots" THEN Indegrees(graph) ELSE indegree
  /\ UNCHANGED <<declared, graph, entry_nodes, current, waves, visited, reachable>>

BindSlots ==
  /\ Check("slots", AllSlotsBound(graph), "entries", "unbound slot")
  /\ entry_nodes' = EntryNodes(graph)
  /\ UNCHANGED <<declared, graph, layering, reachable>>

FindEntries ==
  /\ Check("entries", entry_nodes # {}, "waves", "no entry node")
  /\ current' = {n \in Nodes(graph) : indegree[n] = 0}
  /\ UNCHANGED <<declared, graph, entry_nodes, indegree, waves, visited, reachable>>

(* What is left of a node's indegree once the current wave is visited: its   *)
(* edges are counted one by one, parallel ones too.                          *)
Remaining(n) ==
  indegree[n] - Cardinality({e \in Edges(graph) : /\ Source(graph, e) \in current
                                                  /\ Destination(graph, e) = n})

(* The mutated form: a node is due as soon as one of its sources is visited. *)
TakeWaveEagerly ==
  /\ stage = "waves"
  /\ current # {}
  /\ waves' = Append(waves, current)
  /\ visited' = visited + Cardinality(current)
  /\ indegree' = [n \in Nodes(graph) |-> IF n \in Targets(graph, current) THEN 0 ELSE indegree[n]]
  /\ current' = {n \in Targets(graph, current) : indegree[n] > 0}
  /\ UNCHANGED <<stage, reason, declared, graph, entry_nodes, reachable>>

TakeWave ==
  /\ stage = "waves"
  /\ current # {}
  /\ waves' = Append(waves, current)
  /\ visited' = visited + Cardinality(current)
  /\ indegree' = [n \in Nodes(graph) |-> Remaining(n)]
  /\ current' = {n \in Targets(graph, current) : indegree[n] > 0 /\ Remaining(n) <= 0}
  /\ UNCHANGED <<stage, reason, declared, graph, entry_nodes, reachable>>

CloseWaves ==
  /\ current = {}
  /\ Check("waves", visited = Cardinality(Nodes(graph)), "producers", "cycle")
  /\ UNCHANGED <<declared, graph, entry_nodes, layering, reachable>>

FindProducers ==
  /\ Check("producers", FinalProducerNodes(graph) # {}, "reaching", "no final producer")
  /\ reachable' = entry_nodes
  /\ UNCHANGED <<declared, graph, entry_nodes, layering>>

Reach ==
  /\ stage = "reaching"
  /\ ~ Targets(graph, reachable) \subseteq reachable
  /\ reachable' = reachable \cup Targets(graph, reachable)
  /\ UNCHANGED <<stage, reason, declared, graph, entry_nodes, layering>>

Finish ==
  /\ Targets(graph, reachable) \subseteq reachable
  /\ Check("reaching", FinalProducerNodes(graph) \cap reachable # {},
           "accepted", "unreachable output")
  /\ UNCHANGED <<declared, graph, entry_nodes, layering, reachable>>

-----------------------------------------------------------------------------

NoGraph == [nodes |-> << >>, edges |-> << >>]

Init ==
  /\ stage = "identifiers"
  /\ reason = "none"
  /\ declared \in Declarations
  /\ graph = NoGraph
  /\ entry_nodes = {}
  /\ indegree = << >>
  /\ current = {}
  /\ waves = << >>
  /\ visited = 0
  /\ reachable = {}

Next ==
  \/ CheckIdentifiers \/ CheckComponents \/ CheckEdges
  \/ BindSlots \/ FindEntries
  \/ TakeWave \/ CloseWaves
  \/ FindProducers \/ Reach \/ Finish

Spec == Init /\ [][Next]_vars

(* compile is one synchronous call. *)
FairSpec == Spec /\ WF_vars(Next)
=============================================================================
