--------------------------- MODULE BaselineGraphs ---------------------------
(***************************************************************************)
(* The graphs the benchmark ships (configs/graphs), and one that no        *)
(* baseline uses but the compiler accepts.  Edges keep the order of the    *)
(* files; nodes are keyed by id, and rank is their place in sorted order.  *)
(***************************************************************************)
EXTENDS OrchestraIR

Node(kind, rank, inputs, slot, schema) ==
  [ node_kind    |-> kind,
    rank         |-> rank,
    input_slots  |-> inputs,
    output_slots |-> [s \in {slot} |-> schema],
    first_output |-> slot ]

EdgeIf(from, output, to, input, condition) ==
  [ source_node      |-> from, source_output     |-> output,
    destination_node |-> to,   destination_input |-> input,
    condition        |-> condition ]

Edge(from, output, to, input) == EdgeIf(from, output, to, input, NoCondition)

Test(field, operator, value) ==
  [source_field |-> field, operator |-> operator, value |-> value]

Passed     == Test("passed", "is_true", NoCondition)
NotPassed  == Test("passed", "is_false", NoCondition)

Problem == [problem |-> "ProblemArtifact"]

TaskGraph(nodes, edges) ==
  [ nodes |-> nodes, edges |-> edges,
    initial_artifact_slots |-> Problem,
    final_output_slot      |-> "final_code" ]

(* The part of a payload that conditions read.  "passed" is the only field  *)
(* the baselines test.                                                      *)
BaselinePayloads ==
  [ AlgorithmPlanArtifact       |-> {<< >>},
    EdgeCaseArtifact            |-> {<< >>},
    CombinedPlanArtifact        |-> {<< >>},
    CodeArtifact                |-> {<< >>},
    RepairArtifact              |-> {<< >>},
    FinalCodeArtifact           |-> {<< >>},
    PublicHarnessResultArtifact |-> [{"passed"} -> BOOLEAN] ]

-----------------------------------------------------------------------------
(* configs/graphs/b0_direct.yaml *)
B0 == TaskGraph(
  [ direct_coder |-> Node("agent", 2, Problem, "code", "CodeArtifact"),
    code_parser  |-> Node("transform", 1, [code |-> "CodeArtifact"], "code", "CodeArtifact"),
    freeze       |-> Node("transform", 3, [code |-> "CodeArtifact"],
                          "final_code", "FinalCodeArtifact") ],
  << Edge("direct_coder", "code", "code_parser", "code"),
     Edge("code_parser", "code", "freeze", "code") >>)

(* configs/graphs/b1_single_harness.yaml *)
B1 == TaskGraph(
  [ direct_coder            |-> Node("agent", 1, Problem, "code", "CodeArtifact"),
    public_harness_initial  |-> Node("harness", 4,
        [problem |-> "ProblemArtifact", code |-> "CodeArtifact"],
        "result", "PublicHarnessResultArtifact"),
    freeze_initial          |-> Node("transform", 2,
        [code |-> "CodeArtifact", gate |-> "PublicHarnessResultArtifact"],
        "final_code", "FinalCodeArtifact"),
    same_coder_repair       |-> Node("agent", 7,
        [problem |-> "ProblemArtifact", previous_code |-> "CodeArtifact",
         public_result |-> "PublicHarnessResultArtifact"],
        "repair", "RepairArtifact"),
    repair_to_code          |-> Node("transform", 6, [repair |-> "RepairArtifact"],
        "code", "CodeArtifact"),
    public_harness_repaired |-> Node("harness", 5,
        [problem |-> "ProblemArtifact", code |-> "CodeArtifact"],
        "result", "PublicHarnessResultArtifact"),
    selector                |-> Node("selector", 8,
        [initial_code |-> "CodeArtifact", initial_result |-> "PublicHarnessResultArtifact",
         repaired_code |-> "CodeArtifact", repaired_result |-> "PublicHarnessResultArtifact"],
        "code", "CodeArtifact"),
    freeze_selected         |-> Node("transform", 3, [code |-> "CodeArtifact"],
        "final_code", "FinalCodeArtifact") ],
  << Edge("direct_coder", "code", "public_harness_initial", "code"),
     Edge("direct_coder", "code", "freeze_initial", "code"),
     EdgeIf("public_harness_initial", "result", "freeze_initial", "gate", Passed),
     Edge("direct_coder", "code", "same_coder_repair", "previous_code"),
     EdgeIf("public_harness_initial", "result", "same_coder_repair", "public_result", NotPassed),
     Edge("same_coder_repair", "repair", "repair_to_code", "repair"),
     Edge("repair_to_code", "code", "public_harness_repaired", "code"),
     Edge("direct_coder", "code", "selector", "initial_code"),
     Edge("public_harness_initial", "result", "selector", "initial_result"),
     Edge("repair_to_code", "code", "selector", "repaired_code"),
     Edge("public_harness_repaired", "result", "selector", "repaired_result"),
     Edge("selector", "code", "freeze_selected", "code") >>)

(* configs/graphs/b2_fixed_mas.yaml: two analysts, whose plans are merged for *)
(* the coder; from the coder on it is B1 with the plan as an extra input.      *)
B2 == TaskGraph(
  [ algorithm_analyst       |-> Node("agent", 1, Problem, "plan", "AlgorithmPlanArtifact"),
    edge_case_analyst       |-> Node("agent", 2, Problem, "edge_cases", "EdgeCaseArtifact"),
    plan_merger             |-> Node("transform", 5,
        [plan |-> "AlgorithmPlanArtifact", edge_cases |-> "EdgeCaseArtifact"],
        "combined_plan", "CombinedPlanArtifact"),
    solution_coder          |-> Node("agent", 11,
        [problem |-> "ProblemArtifact", combined_plan |-> "CombinedPlanArtifact"],
        "code", "CodeArtifact"),
    public_harness_initial  |-> [B1.nodes["public_harness_initial"] EXCEPT !.rank = 6],
    freeze_initial          |-> [B1.nodes["freeze_initial"] EXCEPT !.rank = 3],
    repair_agent            |-> Node("agent", 8,
        [problem |-> "ProblemArtifact", combined_plan |-> "CombinedPlanArtifact",
         previous_code |-> "CodeArtifact", public_result |-> "PublicHarnessResultArtifact"],
        "repair", "RepairArtifact"),
    repair_to_code          |-> [B1.nodes["repair_to_code"] EXCEPT !.rank = 9],
    public_harness_repaired |-> [B1.nodes["public_harness_repaired"] EXCEPT !.rank = 7],
    selector                |-> [B1.nodes["selector"] EXCEPT !.rank = 10],
    freeze_selected         |-> [B1.nodes["freeze_selected"] EXCEPT !.rank = 4] ],
  << Edge("algorithm_analyst", "plan", "plan_merger", "plan"),
     Edge("edge_case_analyst", "edge_cases", "plan_merger", "edge_cases"),
     Edge("plan_merger", "combined_plan", "solution_coder", "combined_plan"),
     Edge("solution_coder", "code", "public_harness_initial", "code"),
     Edge("solution_coder", "code", "freeze_initial", "code"),
     EdgeIf("public_harness_initial", "result", "freeze_initial", "gate", Passed),
     Edge("plan_merger", "combined_plan", "repair_agent", "combined_plan"),
     Edge("solution_coder", "code", "repair_agent", "previous_code"),
     EdgeIf("public_harness_initial", "result", "repair_agent", "public_result", NotPassed),
     Edge("repair_agent", "repair", "repair_to_code", "repair"),
     Edge("repair_to_code", "code", "public_harness_repaired", "code"),
     Edge("solution_coder", "code", "selector", "initial_code"),
     Edge("public_harness_initial", "result", "selector", "initial_result"),
     Edge("repair_to_code", "code", "selector", "repaired_code"),
     Edge("public_harness_repaired", "result", "selector", "repaired_result"),
     Edge("selector", "code", "freeze_selected", "code") >>)

-----------------------------------------------------------------------------
(***************************************************************************)
(* Not a baseline: what the compiler allows and the baselines do not use.  *)
(*   draft, scout, spare   three entry nodes, more than MaxParallel        *)
(*   join     takes code from either of two nodes, and a gate that scout   *)
(*            opens on a high or a low pass_ratio; on pass_ratio 1 neither condition *)
(*            holds and the gate waits for the unconditional review        *)
(*   publish, publish_late  both publish the final slot, in the same wave  *)
(*   orphan   waits for a second output slot, which nothing publishes on   *)
(***************************************************************************)
MixedPayloads ==
  [BaselinePayloads EXCEPT !.PublicHarnessResultArtifact = [{"pass_ratio"} -> 0 .. 2]]

Mixed == TaskGraph(
  [ draft        |-> Node("agent", 1, Problem, "code", "CodeArtifact"),
    scout        |-> [Node("harness", 7, Problem, "result", "PublicHarnessResultArtifact")
                        EXCEPT !.output_slots =
                          [result |-> "PublicHarnessResultArtifact", note |-> "CodeArtifact"]],
    spare        |-> Node("agent", 8, Problem, "code", "CodeArtifact"),
    review       |-> Node("harness", 6, [code |-> "CodeArtifact"],
                        "result", "PublicHarnessResultArtifact"),
    join         |-> Node("transform", 2,
                        [code |-> "CodeArtifact", gate |-> "PublicHarnessResultArtifact"],
                        "code", "CodeArtifact"),
    publish      |-> Node("transform", 4, [code |-> "CodeArtifact"],
                        "final_code", "FinalCodeArtifact"),
    publish_late |-> Node("transform", 5, [code |-> "CodeArtifact"],
                        "final_code", "FinalCodeArtifact"),
    orphan       |-> Node("transform", 3, [note |-> "CodeArtifact"], "code", "CodeArtifact") ],
  << Edge("draft", "code", "join", "code"),
     Edge("spare", "code", "join", "code"),
     Edge("draft", "code", "review", "code"),
     EdgeIf("scout", "result", "join", "gate", Test("pass_ratio", "greater_than", 1)),
     EdgeIf("scout", "result", "join", "gate", Test("pass_ratio", "less_than", 1)),
     Edge("review", "result", "join", "gate"),
     Edge("join", "code", "publish", "code"),
     Edge("join", "code", "publish_late", "code"),
     Edge("scout", "note", "orphan", "note") >>)
=============================================================================
