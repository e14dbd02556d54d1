---------------------------- MODULE OrchestraIR ----------------------------
(***************************************************************************)
(* The typed graph that every baseline is written in (src/orchestra/ir).   *)
(*                                                                         *)
(* A graph is a record                                                     *)
(*   nodes                   node id -> node specification                 *)
(*   edges                   the list of edge specifications               *)
(*   initial_artifact_slots  slot -> schema of the artifacts given         *)
(*   final_output_slot       the slot whose artifact is the task's answer  *)
(* An edge is named by its position in the list: the compiler rejects      *)
(* duplicate edge ids, so position and id are interchangeable, and the     *)
(* scheduler's "first active edge" is the least position.                  *)
(***************************************************************************)
EXTENDS Integers, FiniteSets, Sequences

CONSTANTS
  NoArtifact,       \* a slot nothing was published on (None)
  NoCondition,      \* an unconditional edge (condition: null)
  SchemaPayloads    \* schema name -> the payloads an executor may produce

NodeKinds == {"agent", "harness", "transform", "selector"}

(***************************************************************************)
(* ir/nodes.py.  rank is the position of the node id in sorted order: ids  *)
(* are compared only to sort.  first_output is next(iter(output_slots)),   *)
(* the one slot that every executor publishes on.                          *)
(***************************************************************************)
IsBaseNodeSpec(spec) ==
  /\ DOMAIN spec = {"node_kind", "rank", "input_slots", "output_slots", "first_output"}
  /\ spec.node_kind \in NodeKinds
  /\ spec.rank \in Nat

(* A node that an executor can publish for: next(iter(...)) finds a slot. *)
IsNodeSpec(spec) ==
  /\ IsBaseNodeSpec(spec)
  /\ spec.first_output \in DOMAIN spec.output_slots

(* ir/edges.py, EdgeSpec: payload_policy has the single value "full". *)
IsEdgeSpec(spec) ==
  DOMAIN spec = {"source_node", "source_output",
                 "destination_node", "destination_input", "condition"}

Nodes(g) == DOMAIN g.nodes

Edges(g) == DOMAIN g.edges

InputSlots(g, n) == DOMAIN g.nodes[n].input_slots

OutputSlots(g, n) == DOMAIN g.nodes[n].output_slots

PublishedSlot(g, n) == g.nodes[n].first_output

PublishedSchema(g, n) == g.nodes[n].output_slots[g.nodes[n].first_output]

Source(g, e) == g.edges[e].source_node

Conditional(g, e) == g.edges[e].condition # NoCondition

(***************************************************************************)
(* What the compiler guarantees of a graph that is about to run, as far as *)
(* the runtime relies on it (GraphCompiler models the check itself).       *)
(***************************************************************************)
IsGraph(g) ==
  /\ DOMAIN g = {"nodes", "edges", "initial_artifact_slots", "final_output_slot"}
  /\ IsFiniteSet(Nodes(g))
  /\ \A n \in Nodes(g) : IsNodeSpec(g.nodes[n])
  /\ \A m, n \in Nodes(g) : g.nodes[m].rank = g.nodes[n].rank => m = n
  /\ Edges(g) = 1 .. Len(g.edges)
  /\ \A e \in Edges(g) :
       /\ IsEdgeSpec(g.edges[e])
       /\ g.edges[e].source_node \in Nodes(g)
       /\ g.edges[e].destination_node \in Nodes(g)
       /\ g.edges[e].source_output \in OutputSlots(g, g.edges[e].source_node)
       /\ g.edges[e].destination_input \in InputSlots(g, g.edges[e].destination_node)

(***************************************************************************)
(* EdgeCondition.evaluate.  A payload is a function from the dotted paths  *)
(* it has to their values; a path it does not have makes every operator,   *)
(* "not_equals" and "is_false" included, answer FALSE.                     *)
(***************************************************************************)
Evaluate(cond, payload) ==
  /\ cond.source_field \in DOMAIN payload
  /\ \/ cond.operator = "equals"       /\ payload[cond.source_field] = cond.value
     \/ cond.operator = "not_equals"   /\ payload[cond.source_field] # cond.value
     \/ cond.operator = "greater_than" /\ payload[cond.source_field] > cond.value
     \/ cond.operator = "less_than"    /\ payload[cond.source_field] < cond.value
     \/ cond.operator = "is_true"      /\ payload[cond.source_field] = TRUE
     \/ cond.operator = "is_false"     /\ payload[cond.source_field] = FALSE
=============================================================================
