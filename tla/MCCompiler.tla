---------------------------- MODULE MCCompiler ----------------------------
(***************************************************************************)
(* Declarations for the compiler: every graph on three nodes, the shipped  *)
(* baselines, and the baselines with one fault each.                       *)
(***************************************************************************)
EXTENDS CompilerProperties, BaselineGraphs

(* configs/contracts *)
ShippedContracts ==
  LET Contract(input, output) == [input_schema |-> input, output_schema |-> output]
  IN  [ algorithm_analyst   |-> Contract("ProblemArtifact", "AlgorithmPlanArtifact"),
        edge_case_analyst   |-> Contract("ProblemArtifact", "EdgeCaseArtifact"),
        direct_coder        |-> Contract("ProblemArtifact", "CodeArtifact"),
        solution_coder      |-> Contract("ArtifactBundle", "CodeArtifact"),
        single_agent_repair |-> Contract("ArtifactBundle", "RepairArtifact"),
        repair_agent        |-> Contract("ArtifactBundle", "RepairArtifact") ]

(* cli/validate_graph.py, build_compiler *)
ShippedComponents ==
  [ harness   |-> {"public_code_harness"},
    transform |-> {"identity_code", "merge_analysis_artifacts", "repair_to_code", "freeze_code"},
    selector  |-> {"deterministic_code_selector"} ]

(* schemas/artifacts.py, the fields that conditions below name *)
ShippedFields ==
  [ PublicHarnessResultArtifact |-> {"passed", "pass_ratio", "failure_summary"},
    CodeArtifact                |-> {"code"} ]

ShippedRoots ==
  [path \in {"passed", "pass_ratio", "failure_summary.timeout", "failure_summary.passed",
             "verdict"} |->
     IF path \in {"failure_summary.timeout", "failure_summary.passed"}
     THEN "failure_summary" ELSE path]

CompilerPayloads ==
  [BaselinePayloads EXCEPT !.PublicHarnessResultArtifact =
     [{"passed", "failure_summary.timeout"} -> BOOLEAN]]

-----------------------------------------------------------------------------
ComponentOf ==
  [ direct_coder |-> "direct_coder", code_parser |-> "identity_code", freeze |-> "freeze_code",
    public_harness_initial |-> "public_code_harness", freeze_initial |-> "freeze_code",
    same_coder_repair |-> "single_agent_repair", repair_to_code |-> "repair_to_code",
    public_harness_repaired |-> "public_code_harness",
    selector |-> "deterministic_code_selector", freeze_selected |-> "freeze_code",
    algorithm_analyst |-> "algorithm_analyst", edge_case_analyst |-> "edge_case_analyst",
    plan_merger |-> "merge_analysis_artifacts", solution_coder |-> "solution_coder",
    repair_agent |-> "repair_agent" ]

Declare(g) ==
  [ nodes |-> [i \in 1 .. Cardinality(Nodes(g)) |->
                 LET id == CHOOSE n \in Nodes(g) : g.nodes[n].rank = i
                 IN  [node_id |-> id, component |-> ComponentOf[id], spec |-> g.nodes[id]]],
    edges |-> [i \in Edges(g) |-> [edge_id |-> i, spec |-> g.edges[i]]],
    initial_artifact_slots |-> g.initial_artifact_slots,
    final_output_slot      |-> g.final_output_slot ]

Shipped == {Declare(B0), Declare(B1), Declare(B2)}

-----------------------------------------------------------------------------
(* Every set of edges between three nodes: self-loops of a and b, and two     *)
(* parallel edges from a to b, into its slots x and y.  A node takes the      *)
(* problem, code, or both; c may or may not publish the answer.               *)

Slots == [problem |-> "ProblemArtifact", x |-> "CodeArtifact", y |-> "CodeArtifact"]

InputChoices(names) == {[s \in S |-> Slots[s]] : S \in (SUBSET names) \ {{}}}

Lines == << <<"a", "a", "x">>, <<"a", "b", "x">>, <<"a", "b", "y">>, <<"a", "c", "x">>,
            <<"b", "a", "x">>, <<"b", "b", "x">>, <<"b", "c", "x">>,
            <<"c", "a", "x">>, <<"c", "b", "x">> >>

Shape(inputs, chosen, last) ==
  LET Publishes(n)  == IF n = "c" THEN last ELSE "code"
      Spec3(n, rank) == Node("transform", rank, inputs[n], Publishes(n), "CodeArtifact")
      Decl(n, rank)  == [node_id |-> n, component |-> "identity_code", spec |-> Spec3(n, rank)]
      Joining(line)  == Edge(line[1], Publishes(line[1]), line[2], line[3])
      kept           == SelectSeq([i \in DOMAIN Lines |-> i], LAMBDA i : i \in chosen)
  IN  [ nodes |-> <<Decl("a", 1), Decl("b", 2), Decl("c", 3)>>,
        edges |-> [k \in DOMAIN kept |-> [edge_id |-> k, spec |-> Joining(Lines[kept[k]])]],
        initial_artifact_slots |-> Problem,
        final_output_slot      |-> "final" ]

Shapes ==
  {Shape([a |-> of_a, b |-> of_b, c |-> of_c], chosen, last) :
     of_a   \in InputChoices({"problem", "x"}),
     of_b   \in InputChoices({"problem", "x", "y"}),
     of_c   \in InputChoices({"problem", "x"}),
     chosen \in SUBSET DOMAIN Lines,
     last   \in {"code", "final"}}

-----------------------------------------------------------------------------
(* One fault each, in B0 and B1. *)

Base == Declare(B0)     \* nodes: code_parser, direct_coder, freeze
Branching == Declare(B1)

Faulty ==
  { [Base EXCEPT !.nodes[3].node_id = "direct_coder"],
    [Base EXCEPT !.edges[2].edge_id = 1],
    [Base EXCEPT !.nodes[2].component = "missing"],
    [Base EXCEPT !.nodes[2].component = "solution_coder", !.nodes[2].spec.output_slots.code = "RepairArtifact"],
    [Base EXCEPT !.nodes[2].component = "edge_case_analyst"],
    [Base EXCEPT !.nodes[2].spec.input_slots = [code |-> "CodeArtifact"]],
    [Base EXCEPT !.nodes[1].component = "missing"],
    [Base EXCEPT !.edges[1].spec.source_node = "nobody"],
    [Base EXCEPT !.edges[2].spec.destination_node = "nobody"],
    [Base EXCEPT !.edges[1].spec.source_output = "nothing"],
    [Base EXCEPT !.edges[1].spec.destination_input = "nothing"],
    [Base EXCEPT !.nodes[3].spec.input_slots.code = "RepairArtifact"],
    [Base EXCEPT !.edges = SubSeq(@, 1, 1)],
    [Base EXCEPT !.final_output_slot = "answer"],
    [Base EXCEPT !.initial_artifact_slots.problem = "CodeArtifact"],
    [Base EXCEPT !.initial_artifact_slots.problem = "CodeArtifact",
                 !.nodes[1].spec.input_slots = << >>,
                 !.nodes[3].spec.input_slots = [problem |-> "ProblemArtifact"],
                 !.edges = << >>],
    [Branching EXCEPT !.edges[3].spec.condition = Test("verdict", "is_true", NoCondition)] }

(* Conditions whose first component is a field, and whose path may not be. *)
Conditions ==
  {[Branching EXCEPT !.edges[5].spec.condition = Test(path, "is_true", NoCondition)] :
     path \in {"failure_summary.timeout", "failure_summary.passed"}}

AllDeclarations == Shapes \cup Shipped \cup Faulty \cup Conditions
=============================================================================
