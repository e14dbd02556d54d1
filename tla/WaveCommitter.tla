--------------------------- MODULE WaveCommitter ---------------------------
(***************************************************************************)
(* src/orchestra/runtime/committer.py: the part of commit_wave that comes  *)
(* after every artifact of the wave is in the store, as a function from    *)
(* the state before the wave and the wave's results to the state after it. *)
(* The writes to the store come first, one at a time, and are actions of   *)
(* NativeAsyncRuntime.                                                     *)
(*                                                                         *)
(* results maps every node of the wave to its NodeExecutionResult:         *)
(*   [succeeded |-> TRUE, artifact |-> id, payload |-> p]  or              *)
(*   [succeeded |-> FALSE].                                                *)
(***************************************************************************)
EXTENDS Scheduler

Succeeded(results) == {n \in DOMAIN results : results[n].succeeded}

Skip(st, nodes) ==
  [st EXCEPT !.node_status =
     [n \in DOMAIN @ |-> IF n \in nodes THEN "SKIPPED" ELSE @[n]]]

(* The mutated form: the result of a failed node is passed over. *)
RecordOnlySuccesses(st, results) ==
  [st EXCEPT
     !.node_status = [n \in DOMAIN @ |->
        IF n \in Succeeded(results) THEN "SUCCEEDED" ELSE @[n]],
     !.node_outputs = [n \in DOMAIN @ |->
        IF n \in Succeeded(results) THEN results[n].artifact ELSE @[n]]]

RecordResults(st, results) ==
  [st EXCEPT
     !.node_status = [n \in DOMAIN @ |->
        IF n \in Succeeded(results) THEN "SUCCEEDED"
        ELSE IF n \in DOMAIN results THEN "FAILED"
        ELSE @[n]],
     !.node_outputs = [n \in DOMAIN @ |->
        IF n \in Succeeded(results) THEN results[n].artifact ELSE @[n]]]

FinalProducers(g, results) ==
  {n \in Succeeded(results) : PublishedSlot(g, n) = g.final_output_slot}

FirstNode(g, S) == CHOOSE n \in S : \A m \in S \ {n} : Before(g, n, m)

(* The mutated form: the answer is recorded but the state is not frozen. *)
RecordAnswerOnly(g, st, results) ==
  IF st.frozen \/ FinalProducers(g, results) = {}
  THEN st
  ELSE [st EXCEPT !.final_output = results[FirstNode(g, FinalProducers(g, results))].artifact]

(* Results are visited in node-id order, so the first producer of the wave  *)
(* wins and freezes the state; a later one leaves the final output alone.   *)
FreezeFinalOutput(g, st, results) ==
  IF st.frozen \/ FinalProducers(g, results) = {}
  THEN st
  ELSE [st EXCEPT !.final_output = results[FirstNode(g, FinalProducers(g, results))].artifact,
                  !.frozen = TRUE]

(* The conditional edges that leave a node which succeeded in this wave. *)
SettledEdges(g, results) ==
  {e \in Edges(g) : Conditional(g, e) /\ Source(g, e) \in Succeeded(results)}

(* The mutated form: it is enough that there is an artifact. *)
EdgeEnabledByArtifact(g, results, e) ==
  g.edges[e].source_output = PublishedSlot(g, Source(g, e))

EdgeEnabled(g, results, e) ==
  /\ g.edges[e].source_output = PublishedSlot(g, Source(g, e))
  /\ Evaluate(g.edges[e].condition, results[Source(g, e)].payload)

SettleConditionalEdges(g, st, results) ==
  LET settled == SettledEdges(g, results)
      enabled == {e \in settled : EdgeEnabled(g, results, e)}
  IN  [st EXCEPT !.active_edges   = @ \cup enabled,
                 !.inactive_edges = @ \cup (settled \ enabled)]

(***************************************************************************)
(* commit_wave.  checkpoint_count is incremented with wave_id and starts   *)
(* at the same value, so wave_id stands for both.                          *)
(***************************************************************************)
CommitWave(g, st, results) ==
  LET recorded == RecordResults(st, results)
      frozen   == FreezeFinalOutput(g, recorded, results)
      settled  == SettleConditionalEdges(g, frozen, results)
      skipped  == Skip(settled, ImpossibleNodes(g, settled))
  IN  [skipped EXCEPT !.wave_id = @ + 1]
=============================================================================
