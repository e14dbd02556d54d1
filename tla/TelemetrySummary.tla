-------------------------- MODULE TelemetrySummary --------------------------
(***************************************************************************)
(* What cli/summarize.py reports of a task (telemetry/summary.py).  It     *)
(* reads neither checkpoint nor state, but whatever artifact files and     *)
(* events the starts of the process have left, those of waves that a crash *)
(* threw away included.                                                    *)
(***************************************************************************)
EXTENDS RuntimeProperties

HarnessNodeIds ==
  {n \in Nodes(Graph) : PublishedSchema(Graph, n) = "PublicHarnessResultArtifact"}

HarnessArtifacts == {id \in DOMAIN store : id.producer \in HarnessNodeIds}

(* The mutated form: as if a task were never started again. *)
CreatedInEarlierWave(x, y) == store[x].wave < store[y].wave

(* The order of created_at, of artifacts of different waves. *)
CreatedBefore(x, y) ==
  \/ x.boot < y.boot
  \/ x.boot = y.boot /\ store[x].wave < store[y].wave

(* public_pass_before_repair and compile_success_rate *)
FirstVerdict == CHOOSE x \in HarnessArtifacts : \A y \in HarnessArtifacts : ~ CreatedBefore(y, x)

(* public_pass_after_repair *)
LastVerdict == CHOOSE x \in HarnessArtifacts : \A y \in HarnessArtifacts : ~ CreatedBefore(x, y)

CountsAsRepaired == Cardinality(HarnessArtifacts) > 1

(* The events whose tokens and costs are added up. *)
NodeEvents == {ev \in events : ev.type \in {"NODE_COMPLETED", "NODE_FAILED"}}

-----------------------------------------------------------------------------

Committed(n) == IF checkpoint = NoState THEN NoArtifact ELSE checkpoint.node_outputs[n]

Decided ==
  IF checkpoint = NoState THEN {}
  ELSE {n \in Nodes(Graph) : checkpoint.node_status[n] \in {"SUCCEEDED", "FAILED"}}

(* A set of nodes each of which could have got its inputs from the others.   *)
Supported(done) ==
  \A n \in done : \A slot \in InputSlots(Graph, n) \ InitialSlots :
    \E e \in Incoming(Graph, n, slot) : Source(Graph, e) \in done

(* No node n without m. *)
Needs(n, m) ==
  /\ n # m
  /\ \A done \in SUBSET Nodes(Graph) : n \in done /\ Supported(done) => m \in done

(* The two harness nodes of a graph that has one before a repair and one     *)
(* after it, of which the first judges what another node has drafted.        *)
SecondTo(first) ==
  {second \in HarnessNodeIds :
     /\ HarnessNodeIds = {first, second}
     /\ Needs(second, first)
     /\ InputSlots(Graph, first) \ InitialSlots # {}
     /\ \A slot \in InputSlots(Graph, first) :
          \A e, f \in Incoming(Graph, first, slot) : e = f}

VerdictPairs == UNION {{first} \X SecondTo(first) : first \in HarnessNodeIds}

(* The rate before repair is of a verdict on the very draft that was         *)
(* committed, the rate after repair of the committed verdict on the repair,  *)
(* and a task that was not repaired counts there only if it was restarted.   *)
VerdictsWithinCrashes(first, second) ==
  /\ Committed(first) # NoArtifact =>
       store[FirstVerdict].parents = store[Committed(first)].parents
  /\ Committed(second) # NoArtifact => CountsAsRepaired /\ LastVerdict = Committed(second)
  /\ CountsAsRepaired /\ LastVerdict.producer = first => boot > 1

(* The calls that were paid are all counted, and at most a wave's per start  *)
(* too often.                                                                *)
EventsWithinCrashes ==
  Cardinality(NodeEvents) \in
    Cardinality(Decided) .. Cardinality(Decided) + boot * MaxParallel

(* What the summary says of a task holds up to what crashes cost.            *)
SummaryWithinCrashes ==
  /\ \A pair \in VerdictPairs : VerdictsWithinCrashes(pair[1], pair[2])
  /\ EventsWithinCrashes
=============================================================================
