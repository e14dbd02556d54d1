---------------------------- MODULE DurableTask ----------------------------
(***************************************************************************)
(* What a task promises whatever happens to the process: the nodes of the  *)
(* graph are decided in batches, a decision is never revised, and the task *)
(* ends with the first answer.  There is no process here, no wave, no set  *)
(* of active edges and no crash: a node may run when each of its inputs is *)
(* given or comes over an edge whose condition the source's output meets,  *)
(* and is given up when some input can no longer come.                     *)
(***************************************************************************)
EXTENDS OrchestraIR

CONSTANTS Graph, Given     \* Given: the slots of the initial artifacts

VARIABLES
  outcome,   \* node -> "UNDECIDED", "SUCCEEDED", "FAILED" or "SKIPPED"
  output,    \* node -> the payload it produced
  answer     \* the node whose output is the task's answer, or NoArtifact

vars == <<outcome, output, answer>>

Supplies(e, success, payloads) ==
  /\ Source(Graph, e) \in success
  /\ Graph.edges[e].source_output = PublishedSlot(Graph, Source(Graph, e))
  /\ Conditional(Graph, e) =>
       Evaluate(Graph.edges[e].condition, payloads[Source(Graph, e)])

Into(n, slot) == {e \in Edges(Graph) : /\ Graph.edges[e].destination_node = n
                                       /\ Graph.edges[e].destination_input = slot}

Fed(n) ==
  LET success == {m \in Nodes(Graph) : outcome[m] = "SUCCEEDED"}
  IN  \A slot \in InputSlots(Graph, n) \ Given :
        \E e \in Into(n, slot) : Supplies(e, success, output)

(* Skipping counts the decisions of the same batch. *)
CutOff(n) ==
  \E slot \in InputSlots(Graph, n) \ Given :
    /\ Into(n, slot) # {}
    /\ \A e \in Into(n, slot) :
         LET m == Source(Graph, e)
         IN  \/ outcome'[m] \in {"FAILED", "SKIPPED"}
             \/ outcome'[m] = "SUCCEEDED" /\ ~ Supplies(e, {m}, output')

Init ==
  /\ outcome = [n \in Nodes(Graph) |-> "UNDECIDED"]
  /\ output = [n \in Nodes(Graph) |-> << >>]
  /\ answer = NoArtifact

NewlyDecided == {n \in Nodes(Graph) : outcome[n] = "UNDECIDED" /\ outcome'[n] # "UNDECIDED"}

Answers == {n \in NewlyDecided : /\ outcome'[n] = "SUCCEEDED"
                                 /\ PublishedSlot(Graph, n) = Graph.final_output_slot}

Decide ==
  /\ answer = NoArtifact
  /\ DOMAIN outcome' = Nodes(Graph)
  /\ \A n \in Nodes(Graph) \ NewlyDecided :
       outcome'[n] = outcome[n] /\ output'[n] = output[n]
  /\ \E n \in NewlyDecided : outcome'[n] \in {"SUCCEEDED", "FAILED"}
  /\ \A n \in NewlyDecided :
       \/ outcome'[n] \in {"SUCCEEDED", "FAILED"} /\ Fed(n)
       \/ outcome'[n] = "SKIPPED" /\ CutOff(n)
  /\ IF Answers = {} THEN answer' = NoArtifact ELSE answer' \in Answers

Next == Decide

Spec == Init /\ [][Next]_vars
=============================================================================
