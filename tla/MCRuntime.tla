----------------------------- MODULE MCRuntime -----------------------------
(***************************************************************************)
(* The runtime on the shipped baselines and on the mixed graph.            *)
(***************************************************************************)
EXTENDS TelemetrySummary, BaselineGraphs

(* The baselines leave no verdict of a harness without a branch, and in B1   *)
(* and B2 a passed and a failed one have different branches.                 *)
ASSUME BaselinesAnswer ==
  SchemaPayloads = BaselinePayloads => \A g \in {B0, B1, B2} : AlwaysAnswers(g)

ASSUME BaselinesBranch ==
  Graph = B2 => /\ <<"freeze_initial", "repair_agent">> \in Alternatives
                /\ <<"public_harness_initial", "public_harness_repaired">> \in VerdictPairs
=============================================================================
