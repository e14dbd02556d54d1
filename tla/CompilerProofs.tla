--------------------------- MODULE CompilerProofs ---------------------------
(***************************************************************************)
(* The graph compiler, for any declarations, contracts and components: its *)
(* layering loop visits the nodes by depth, and says "cycle" exactly of    *)
(* the graphs that have one.                                               *)
(***************************************************************************)
EXTENDS CompilerProperties, SchedulerProofs

(* The stages that a graph whose edges fit may be in. *)
EdgesChecked == {"slots", "entries", "waves", "producers", "reaching", "accepted"}

(* Those that a graph whose input slots are bound may be in. *)
SlotsBound == EdgesChecked \ {"slots"}

(* The stages before the layering, those from it on, and those after it. *)
Unlayered == {"identifiers", "components", "edges", "slots", "entries"}

Layering == {"waves", "producers", "reaching", "accepted"}

LayeringOver == {"producers", "reaching", "accepted"}

(* What the checks so far have established of the graph. *)
ChecksInv ==
  /\ declared \in Declarations
  /\ stage = "identifiers" => graph = NoGraph
  /\ stage # "identifiers" => graph = GraphOf(declared)
  /\ stage \in EdgesChecked => \A e \in Edges(graph) : EdgeFits(graph, e)
  /\ stage \in SlotsBound => AllSlotsBound(graph)
  /\ stage \in {"reaching", "accepted"} => FinalProducerNodes(graph) # {}

(* The edges into n that no visited node has been counted for. *)
Waiting(n) == {e \in Edges(graph) : Destination(graph, e) = n /\ Source(graph, e) \notin Layered}

SourcesOf(n) == {Source(graph, e) : e \in {f \in Edges(graph) : Destination(graph, f) = n}}

(* Every node of S waits for one of S. *)
WaitsForItself(S) ==
  \A n \in S : \E e \in Edges(graph) : Destination(graph, e) = n /\ Source(graph, e) \in S

(* The loop: what is visited waits for nothing, the next wave is what waits  *)
(* for nothing more, and no node of a cycle has been visited.                *)
LoopInv ==
  /\ waves \in Seq(SUBSET Nodes(graph))
  /\ indegree = [n \in Nodes(graph) |-> Cardinality(Waiting(n))]
  /\ current = {n \in Nodes(graph) \ Layered : Waiting(n) = {}}
  /\ visited = Cardinality(Layered)
  /\ \A n \in Layered : Waiting(n) = {}
  /\ \A S \in SUBSET Nodes(graph) : WaitsForItself(S) => S \cap Layered = {}

(* The waves so far are depths, and the next one will be. *)
DepthInv ==
  /\ \A i, j \in DOMAIN waves : \A n \in waves[i] \cap waves[j] : i = j
  /\ \A i \in DOMAIN waves : \A n \in waves[i] :
       /\ SourcesOf(n) \subseteq UNION {waves[j] : j \in 1 .. i - 1}
       /\ i = 1 <=> SourcesOf(n) = {}
       /\ i > 1 => SourcesOf(n) \cap waves[i - 1] # {}
  /\ \A n \in current : waves # << >> => SourcesOf(n) \cap waves[Len(waves)] # {}

LayersInv ==
  /\ stage \in Unlayered => waves = << >> /\ current = {} /\ visited = 0
  /\ stage \in {"slots", "entries"} => indegree = Indegrees(graph)
  /\ stage \in Layering => LoopInv /\ DepthInv
  /\ stage \in LayeringOver => Layered = Nodes(graph)
  /\ reason = "cycle" => HasCycle(graph)

CompilerInv == TypeOK /\ ChecksInv /\ LayersInv

-----------------------------------------------------------------------------
(* The graph of a declaration. *)

LEMMA GraphOfDeclaration ==
  ASSUME NEW d \in Declarations
  PROVE  /\ Nodes(GraphOf(d)) = NodeIds(d) /\ IsFiniteSet(NodeIds(d))
         /\ Len(d.edges) \in Nat /\ Edges(GraphOf(d)) = 1 .. Len(d.edges)
         /\ Len(GraphOf(d).edges) = Len(d.edges)
         /\ IsFiniteSet(Edges(GraphOf(d)))
         /\ \A n \in NodeIds(d) : \E i \in DOMAIN d.nodes :
              n = d.nodes[i].node_id /\ GraphOf(d).nodes[n] = d.nodes[i].spec
         /\ \A e \in DOMAIN d.edges : GraphOf(d).edges[e] = d.edges[e].spec
<1>1. IsDeclaration(d)
  BY DeclarationsAssumption
<1> DEFINE g == GraphOf(d)
           chosen(id) == CHOOSE node \in {d.nodes[i] : i \in DOMAIN d.nodes} : node.node_id = id
<1>2. /\ g.nodes = [id \in NodeIds(d) |-> chosen(id).spec]
      /\ g.edges = [i \in DOMAIN d.edges |-> d.edges[i].spec]
  BY DEF GraphOf
<1>3. Nodes(g) = NodeIds(d)
  BY <1>2 DEF Nodes
<1>4. IsFiniteSet(NodeIds(d))
  <2> DEFINE f == [i \in 1 .. Len(d.nodes) |-> d.nodes[i].node_id]
  <2>1. Len(d.nodes) \in Nat /\ DOMAIN d.nodes = 1 .. Len(d.nodes)
    BY <1>1 DEF IsDeclaration
  <2>2. f \in Surjection(1 .. Len(d.nodes), NodeIds(d))
    BY <2>1 DEF Surjection, NodeIds
  <2>3. IsFiniteSet(1 .. Len(d.nodes))
    <3> HIDE DEF f
    <3>1. 1 \in Int /\ Len(d.nodes) \in Int
      BY <2>1
    <3> QED BY <3>1, FS_Interval
  <2> QED BY <2>2, <2>3, FS_Surjection
<1>5. /\ Len(d.edges) \in Nat /\ DOMAIN d.edges = 1 .. Len(d.edges)
      /\ Edges(g) = 1 .. Len(d.edges)
  BY <1>1, <1>2 DEF IsDeclaration, Edges
<1>6. Len(g.edges) = Len(d.edges)
  <2>1. g.edges = [i \in 1 .. Len(d.edges) |-> d.edges[i].spec]
    BY <1>2, <1>5
  <2> HIDE DEF g
  <2> QED BY <1>5, <2>1
<1>7. IsFiniteSet(Edges(g))
  BY <1>5, FS_Interval
<1>8. ASSUME NEW n \in NodeIds(d)
      PROVE  \E i \in DOMAIN d.nodes : n = d.nodes[i].node_id /\ g.nodes[n] = d.nodes[i].spec
  <2>1. \E node \in {d.nodes[i] : i \in DOMAIN d.nodes} : node.node_id = n
    BY DEF NodeIds
  <2>2. chosen(n) \in {d.nodes[i] : i \in DOMAIN d.nodes} /\ chosen(n).node_id = n
    BY <2>1
  <2> HIDE DEF chosen
  <2> QED BY <1>2, <2>2
<1>9. \A e \in DOMAIN d.edges : g.edges[e] = d.edges[e].spec
  BY <1>2
<1> HIDE DEF g
<1> QED BY <1>3, <1>4, <1>5, <1>6, <1>7, <1>8, <1>9 DEF g

(* What the checks make of it: finite, and with edges between its nodes.     *)
LEMMA GraphFits ==
  ASSUME ChecksInv, stage # "identifiers"
  PROVE  /\ IsFiniteSet(Nodes(graph)) /\ IsFiniteSet(Edges(graph))
         /\ stage \in EdgesChecked =>
              \A e \in Edges(graph) : /\ Source(graph, e) \in Nodes(graph)
                                      /\ Destination(graph, e) \in Nodes(graph)
<1>1. graph = GraphOf(declared) /\ declared \in Declarations
  BY DEF ChecksInv
<1>2. IsFiniteSet(Nodes(graph)) /\ IsFiniteSet(Edges(graph))
  BY <1>1, GraphOfDeclaration
<1>3. stage \in EdgesChecked =>
        \A e \in Edges(graph) : Source(graph, e) \in Nodes(graph)
                                /\ Destination(graph, e) \in Nodes(graph)
  BY DEF ChecksInv, EdgeFits, Source, Destination
<1> QED BY <1>2, <1>3

(* A check that leaves its stage leaves it for these two.                    *)
LEMMA CheckGoes ==
  ASSUME NEW from, NEW ok, NEW to, NEW fault, Check(from, ok, to, fault)
  PROVE  /\ stage = from
         /\ ok => stage' = to /\ reason' = reason
         /\ ~ ok => stage' = "rejected" /\ reason' = fault
BY DEF Check

(* What has been checked once stays so, as the graph stays what it is.       *)
LEMMA ChecksStep == TypeOK /\ ChecksInv /\ [Next]_vars => ChecksInv'
<1> SUFFICES ASSUME TypeOK, ChecksInv, [Next]_vars PROVE ChecksInv'
  OBVIOUS
<1> USE DEF EdgesChecked, SlotsBound
<1>1. CASE UNCHANGED vars
  BY <1>1 DEF vars, ChecksInv
<1>2. CASE CheckIdentifiers
  <2>1. /\ stage' \in {"components", "rejected"} /\ stage = "identifiers"
        /\ graph' = GraphOf(declared) /\ declared' = declared
    BY <1>2 DEF CheckIdentifiers, Check
  <2> QED BY <2>1 DEF ChecksInv
<1>3. CASE CheckComponents
  <2>1. stage' \in {"edges", "rejected"} /\ stage = "components" /\ UNCHANGED <<graph, declared>>
    BY <1>3 DEF CheckComponents, Check
  <2> QED BY <2>1 DEF ChecksInv
<1>4. CASE CheckEdges
  <2>1. /\ stage = "edges" /\ UNCHANGED <<graph, declared>>
        /\ (stage' = "slots" /\ (\A e \in Edges(graph) : EdgeFits(graph, e))) \/ stage' = "rejected"
    BY <1>4 DEF CheckEdges, Check
  <2> QED BY <2>1 DEF ChecksInv
<1>5. CASE BindSlots
  <2>1. /\ stage = "slots" /\ UNCHANGED <<graph, declared>>
        /\ (stage' = "entries" /\ AllSlotsBound(graph)) \/ stage' = "rejected"
    BY <1>5 DEF BindSlots, Check
  <2> QED BY <2>1 DEF ChecksInv
<1>6. CASE FindEntries \/ TakeWave \/ CloseWaves
  <2>1. /\ stage \in {"entries", "waves"} /\ stage' \in {"waves", "producers", "rejected"}
        /\ UNCHANGED <<graph, declared>>
    BY <1>6 DEF FindEntries, TakeWave, CloseWaves, Check
  <2> QED BY <2>1 DEF ChecksInv
<1>7. CASE FindProducers
  <2>1. /\ stage = "producers" /\ UNCHANGED <<graph, declared>>
        /\ (stage' = "reaching" /\ FinalProducerNodes(graph) # {}) \/ stage' = "rejected"
    BY <1>7 DEF FindProducers, Check
  <2> QED BY <2>1 DEF ChecksInv
<1>8. CASE Reach \/ Finish
  <2>1. /\ stage = "reaching" /\ stage' \in {"reaching", "accepted", "rejected"}
        /\ UNCHANGED <<graph, declared>>
    BY <1>8 DEF Reach, Finish, Check
  <2> QED BY <2>1 DEF ChecksInv
<1> QED BY <1>1, <1>2, <1>3, <1>4, <1>5, <1>6, <1>7, <1>8 DEF Next

-----------------------------------------------------------------------------
(* The kinds of the variables. *)

LEMMA CompilerInit == Init => CompilerInv
<1> SUFFICES ASSUME Init PROVE CompilerInv
  OBVIOUS
<1>1. TypeOK
  <2>1. entry_nodes \cup current \cup reachable \subseteq Nodes(graph)
    BY DEF Init
  <2>2. \A i \in DOMAIN waves : waves[i] \subseteq Nodes(graph)
    BY DEF Init
  <2> QED BY <2>1, <2>2 DEF Init, TypeOK, Stages, Faults
<1>2. ChecksInv
  <2>1. stage = "identifiers" /\ graph = NoGraph /\ declared \in Declarations
    BY DEF Init
  <2> QED BY <2>1 DEF ChecksInv, EdgesChecked, SlotsBound
<1>3. LayersInv
  BY DEF Init, LayersInv, Unlayered, Layering, LayeringOver
<1> QED BY <1>1, <1>2, <1>3 DEF CompilerInv

LEMMA TypeStep == CompilerInv /\ [Next]_vars => TypeOK'
<1> SUFFICES ASSUME TypeOK, ChecksInv, LayersInv, [Next]_vars PROVE TypeOK'
  BY DEF CompilerInv
<1> USE DEF Stages, Faults
<1>1. CASE UNCHANGED vars
  BY <1>1 DEF vars, TypeOK
<1>2. CASE CheckIdentifiers
  <2>1. /\ stage' \in {"components", "rejected"} /\ reason' \in Faults \cup {"none"}
        /\ reason' # "none" <=> stage' = "rejected"
    BY <1>2 DEF CheckIdentifiers, Check, TypeOK
  <2>2. entry_nodes \cup current \cup reachable = {} /\ waves = << >>
    <3>1. graph = NoGraph /\ waves = << >>
      BY <1>2 DEF CheckIdentifiers, Check, ChecksInv, LayersInv, Unlayered
    <3>2. NoGraph.nodes = << >>
      BY DEF NoGraph
    <3>3. Nodes(graph) = {}
      BY <3>1, <3>2 DEF Nodes
    <3> QED BY <3>1, <3>3 DEF TypeOK
  <2>3. UNCHANGED <<entry_nodes, layering, reachable>>
    BY <1>2 DEF CheckIdentifiers
  <2>4. /\ entry_nodes' \cup current' \cup reachable' \subseteq Nodes(graph')
        /\ \A i \in DOMAIN waves' : waves'[i] \subseteq Nodes(graph')
    BY <2>2, <2>3 DEF layering
  <2> QED BY <2>1, <2>3, <2>4 DEF layering, TypeOK
<1>3. CASE CheckComponents
  BY <1>3 DEF CheckComponents, Check, layering, TypeOK
<1>4. CASE CheckEdges
  BY <1>4 DEF CheckEdges, Check, TypeOK
<1>5. CASE BindSlots
  <2>1. EntryNodes(graph) \subseteq Nodes(graph)
    BY DEF EntryNodes
  <2> QED BY <1>5, <2>1 DEF BindSlots, Check, layering, TypeOK
<1>6. CASE FindEntries
  BY <1>6 DEF FindEntries, Check, TypeOK
<1>7. ASSUME NEW S, stage \in EdgesChecked PROVE Targets(graph, S) \subseteq Nodes(graph)
  BY <1>7, GraphFits DEF Targets, EdgesChecked
<1>8. CASE TakeWave
  <2>1. stage = "waves" /\ UNCHANGED <<stage, reason, graph, entry_nodes, reachable>>
    BY <1>8 DEF TakeWave
  <2>2. current' \subseteq Nodes(graph)
    BY <1>7, <1>8, <2>1 DEF TakeWave, EdgesChecked
  <2>3. waves' = Append(waves, current) /\ waves \in Seq(SUBSET Nodes(graph))
        /\ current \in SUBSET Nodes(graph)
    BY <1>8, <2>1 DEF TakeWave, LayersInv, Layering, LoopInv
  <2>4. \A i \in DOMAIN waves' : waves'[i] \subseteq Nodes(graph)
    BY <2>3
  <2>5. visited' \in Nat
    <3>1. IsFiniteSet(Nodes(graph))
      BY <2>1, GraphFits
    <3>2. Cardinality(current) \in Nat
      BY <2>3, <3>1, FS_Subset, FS_CardinalityType
    <3> QED BY <1>8, <3>2 DEF TakeWave, TypeOK
  <2> QED BY <2>1, <2>2, <2>4, <2>5 DEF TypeOK
<1>9. CASE CloseWaves
  BY <1>9 DEF CloseWaves, Check, layering, TypeOK
<1>10. CASE FindProducers
  BY <1>10 DEF FindProducers, Check, layering, TypeOK
<1>11. CASE Reach
  <2>1. Targets(graph, reachable) \subseteq Nodes(graph)
    BY <1>7, <1>11 DEF Reach, EdgesChecked
  <2> QED BY <1>11, <2>1 DEF Reach, layering, TypeOK
<1>12. CASE Finish
  BY <1>12 DEF Finish, Check, layering, TypeOK
<1> QED
  BY <1>1, <1>2, <1>3, <1>4, <1>5, <1>6, <1>8, <1>9, <1>10, <1>11, <1>12 DEF Next

-----------------------------------------------------------------------------
(* The layering. *)

(* A finite set of edges is empty when none is counted.                      *)
LEMMA NoneCounted ==
  ASSUME NEW S, IsFiniteSet(S)
  PROVE  Cardinality(S) \in Nat /\ (Cardinality(S) = 0 <=> S = {})
BY FS_CardinalityType, FS_EmptySet

LEMMA LayeringStarts ==
  ASSUME TypeOK, ChecksInv, LayersInv, FindEntries, stage' = "waves"
  PROVE  LoopInv' /\ DepthInv'
<1>1. /\ stage = "entries" /\ graph' = graph /\ indegree' = Indegrees(graph)
      /\ waves' = << >> /\ visited' = 0
      /\ current' = {n \in Nodes(graph) : indegree'[n] = 0}
  BY DEF FindEntries, Check, LayersInv, Unlayered
<1>2. Layered' = {}
  <2>1. Layered' = UNION {waves'[i] : i \in DOMAIN waves'}
    BY DEF Layered
  <2>2. DOMAIN waves' = {}
    BY <1>1
  <2> QED BY <2>1, <2>2
<1> DEFINE Into(n) == {e \in Edges(graph) : Destination(graph, e) = n}
<1>3. ASSUME NEW n PROVE Waiting(n)' = Into(n) /\ IsFiniteSet(Into(n))
  <2>1. Waiting(n)' = Into(n)
    BY <1>1, <1>2 DEF Waiting, Edges, Destination, Source
  <2>2. IsFiniteSet(Edges(graph))
    BY <1>1, GraphFits
  <2> QED BY <2>1, <2>2, FS_Subset
<1>4. indegree' = [n \in Nodes(graph) |-> Cardinality(Into(n))]
  BY <1>1 DEF Indegrees
<1> HIDE DEF Into
<1>5. indegree' = [n \in Nodes(graph') |-> Cardinality(Waiting(n)')]
  BY <1>1, <1>3, <1>4
<1>6. current' = {n \in Nodes(graph) : Waiting(n)' = {}}
  <2>1. ASSUME NEW n \in Nodes(graph) PROVE indegree'[n] = 0 <=> Waiting(n)' = {}
    <3>1. indegree'[n] = Cardinality(Into(n))
      BY <1>4
    <3> QED BY <1>3, <3>1, NoneCounted
  <2> QED BY <1>1, <2>1
<1>7. LoopInv'
  <2>1. waves' \in Seq(SUBSET Nodes(graph'))
    BY <1>1
  <2>2. visited' = Cardinality(Layered')
    BY <1>1, <1>2, FS_EmptySet
  <2> QED BY <1>1, <1>2, <1>5, <1>6, <2>1, <2>2 DEF LoopInv
<1>8. DepthInv'
  <2>1. DOMAIN waves' = {}
    BY <1>1
  <2> QED BY <1>1, <2>1 DEF DepthInv
<1> QED BY <1>7, <1>8

(* Appending the current wave: what the steps below need of it.              *)
LEMMA WaveTaken ==
  ASSUME TypeOK, ChecksInv, LayersInv, TakeWave
  PROVE  /\ graph' = graph /\ stage = "waves" /\ stage' = "waves"
         /\ Len(waves) \in Nat /\ Len(waves') = Len(waves) + 1
         /\ DOMAIN waves = 1 .. Len(waves) /\ DOMAIN waves' = 1 .. Len(waves) + 1
         /\ \A i \in 1 .. Len(waves) : waves'[i] = waves[i]
         /\ waves'[Len(waves) + 1] = current
         /\ waves' \in Seq(SUBSET Nodes(graph))
         /\ current \subseteq Nodes(graph) /\ Layered \subseteq Nodes(graph)
         /\ current \cap Layered = {} /\ Layered' = Layered \cup current
         /\ LoopInv /\ DepthInv
<1>1. /\ graph' = graph /\ stage = "waves" /\ stage' = "waves"
      /\ waves' = Append(waves, current)
  BY DEF TakeWave
<1>2. LoopInv /\ DepthInv
  BY <1>1 DEF LayersInv, Layering
<1>3. waves \in Seq(SUBSET Nodes(graph)) /\ current \in SUBSET Nodes(graph)
  BY <1>2 DEF LoopInv
<1>4. /\ Len(waves) \in Nat /\ Len(waves') = Len(waves) + 1
      /\ DOMAIN waves = 1 .. Len(waves) /\ DOMAIN waves' = 1 .. Len(waves) + 1
      /\ \A i \in 1 .. Len(waves) : waves'[i] = waves[i]
      /\ waves'[Len(waves) + 1] = current
      /\ waves' \in Seq(SUBSET Nodes(graph))
  BY <1>1, <1>3
<1>5. Layered \subseteq Nodes(graph) /\ current \cap Layered = {}
  BY <1>2, <1>3 DEF LoopInv, TypeOK, Layered
<1>6. Layered' = Layered \cup current
  <2>1. Layered' = UNION {waves'[i] : i \in DOMAIN waves'}
    BY DEF Layered
  <2>2. DOMAIN waves' = DOMAIN waves \cup {Len(waves) + 1}
    BY <1>4
  <2> QED BY <1>4, <2>1, <2>2 DEF Layered
<1> QED BY <1>1, <1>2, <1>3, <1>4, <1>5, <1>6

(* Taking the wave takes its edges off what the other nodes wait for.        *)
LEMMA WaitingShrinks ==
  ASSUME TypeOK, ChecksInv, LayersInv, TakeWave, NEW n
  PROVE  /\ Waiting(n)' = {e \in Waiting(n) : Source(graph, e) \notin current}
         /\ IsFiniteSet(Waiting(n)) /\ IsFiniteSet(Waiting(n)')
         /\ n \in Nodes(graph) =>
              /\ indegree[n] = Cardinality(Waiting(n))
              /\ Remaining(n) = Cardinality(Waiting(n)')
<1> DEFINE from == {e \in Edges(graph) : Source(graph, e) \in current /\ Destination(graph, e) = n}
<1>1. Waiting(n)' = {e \in Waiting(n) : Source(graph, e) \notin current}
  BY WaveTaken DEF Waiting, Edges, Source, Destination
<1>2. from \subseteq Waiting(n) /\ Waiting(n)' = Waiting(n) \ from
  BY <1>1, WaveTaken DEF Waiting
<1>3. IsFiniteSet(Waiting(n)) /\ IsFiniteSet(Waiting(n)') /\ IsFiniteSet(from)
  <2>1. IsFiniteSet(Edges(graph))
    BY GraphFits, WaveTaken
  <2>2. Waiting(n) \subseteq Edges(graph)
    BY DEF Waiting
  <2> HIDE DEF from
  <2>3. IsFiniteSet(Waiting(n))
    BY <2>1, <2>2, FS_Subset
  <2> QED BY <1>2, <2>3, FS_Subset
<1>4. ASSUME n \in Nodes(graph)
      PROVE  indegree[n] = Cardinality(Waiting(n)) /\ Remaining(n) = Cardinality(Waiting(n)')
  <2>1. indegree[n] = Cardinality(Waiting(n))
    BY <1>4, WaveTaken DEF LoopInv
  <2>2. Remaining(n) = Cardinality(Waiting(n)) - Cardinality(from)
    BY <2>1 DEF Remaining
  <2> HIDE DEF from
  <2>3. Cardinality(Waiting(n) \ from)
          = Cardinality(Waiting(n)) - Cardinality(Waiting(n) \cap from)
    BY <1>3, FS_Difference
  <2>4. Waiting(n) \cap from = from
    BY <1>2
  <2> QED BY <1>2, <2>1, <2>2, <2>3, <2>4
<1> QED BY <1>1, <1>3, <1>4

LEMMA LoopKept ==
  ASSUME TypeOK, ChecksInv, LayersInv, TakeWave
  PROVE  LoopInv'
<1>1. /\ graph' = graph /\ current \subseteq Nodes(graph) /\ Layered \subseteq Nodes(graph)
      /\ current \cap Layered = {} /\ Layered' = Layered \cup current
      /\ waves' \in Seq(SUBSET Nodes(graph)) /\ LoopInv
      /\ IsFiniteSet(Nodes(graph))
  BY WaveTaken, GraphFits
<1>2. \A n : /\ Waiting(n)' = {e \in Waiting(n) : Source(graph, e) \notin current}
             /\ IsFiniteSet(Waiting(n)) /\ IsFiniteSet(Waiting(n)')
             /\ n \in Nodes(graph) => /\ indegree[n] = Cardinality(Waiting(n))
                                      /\ Remaining(n) = Cardinality(Waiting(n)')
  BY WaitingShrinks
<1>3. indegree' = [n \in Nodes(graph) |-> Cardinality(Waiting(n)')]
  BY <1>2 DEF TakeWave
<1>4. \A n \in Nodes(graph) : /\ indegree[n] > 0 <=> Waiting(n) # {}
                              /\ Remaining(n) <= 0 <=> Waiting(n)' = {}
  <2>1. ASSUME NEW n \in Nodes(graph)
        PROVE  /\ indegree[n] > 0 <=> Waiting(n) # {}
               /\ Remaining(n) <= 0 <=> Waiting(n)' = {}
    <3>1. Cardinality(Waiting(n)) \in Nat /\ (Cardinality(Waiting(n)) = 0 <=> Waiting(n) = {})
      BY <1>2, NoneCounted
    <3>2. Cardinality(Waiting(n)') \in Nat /\ (Cardinality(Waiting(n)') = 0 <=> Waiting(n)' = {})
      BY <1>2, NoneCounted
    <3>3. indegree[n] = Cardinality(Waiting(n)) /\ Remaining(n) = Cardinality(Waiting(n)')
      BY <1>2
    <3> QED BY <3>1, <3>2, <3>3
  <2> QED BY <2>1
<1>5. current' = {n \in Nodes(graph) \ Layered' : Waiting(n)' = {}}
  <2>1. current' = {n \in Targets(graph, current) : indegree[n] > 0 /\ Remaining(n) <= 0}
    BY DEF TakeWave
  <2>2. ASSUME NEW n \in current' PROVE n \in Nodes(graph) \ Layered' /\ Waiting(n)' = {}
    <3>1. n \in Nodes(graph)
      BY <2>1, GraphFits, WaveTaken DEF Targets, EdgesChecked
    <3>2. Waiting(n) # {} /\ Waiting(n)' = {}
      BY <1>4, <2>1, <3>1
    <3>3. n \notin Layered /\ n \notin current
      BY <1>1, <3>2 DEF LoopInv
    <3> QED BY <1>1, <3>1, <3>2, <3>3
  <2>3. ASSUME NEW n \in Nodes(graph) \ Layered', Waiting(n)' = {} PROVE n \in current'
    <3>1. n \notin Layered /\ n \notin current
      BY <1>1, <2>3
    <3>2. Waiting(n) # {}
      BY <1>1, <3>1 DEF LoopInv
    <3>3. PICK e \in Waiting(n) : Source(graph, e) \in current
      BY <1>2, <2>3, <3>2
    <3>4. n \in Targets(graph, current)
      BY <3>3 DEF Waiting, Targets
    <3> QED BY <1>4, <2>1, <2>3, <3>2, <3>4
  <2> QED BY <2>2, <2>3
<1>6. visited' = Cardinality(Layered')
  <2>1. IsFiniteSet(Layered) /\ IsFiniteSet(current)
    BY <1>1, FS_Subset
  <2>2. Cardinality(Layered \cup current)
          = Cardinality(Layered) + Cardinality(current) - Cardinality(Layered \cap current)
    BY <2>1, FS_Union
  <2>3. Cardinality(Layered \cap current) = 0
    <3>1. Layered \cap current = {}
      BY <1>1
    <3> QED BY <3>1, FS_EmptySet
  <2>4. Cardinality(Layered) \in Nat /\ Cardinality(current) \in Nat
    BY <2>1, FS_CardinalityType
  <2>5. visited' = visited + Cardinality(current) /\ visited = Cardinality(Layered)
    BY <1>1 DEF TakeWave, LoopInv
  <2>6. Cardinality(Layered') = Cardinality(Layered \cup current)
    BY <1>1
  <2>7. Cardinality(Layered \cup current) = Cardinality(Layered) + Cardinality(current)
    BY <2>2, <2>3, <2>4
  <2> QED BY <2>5, <2>6, <2>7
<1>7. \A n \in Layered' : Waiting(n)' = {}
  BY <1>1, <1>2 DEF LoopInv
<1>8. ASSUME NEW S \in SUBSET Nodes(graph), WaitsForItself(S) PROVE S \cap Layered' = {}
  <2>1. S \cap Layered = {}
    BY <1>1, <1>8 DEF LoopInv
  <2>2. ASSUME NEW n \in S \cap current PROVE FALSE
    <3>1. PICK e \in Edges(graph) : Destination(graph, e) = n /\ Source(graph, e) \in S
      BY <1>8 DEF WaitsForItself
    <3>2. e \in Waiting(n)
      BY <2>1, <3>1 DEF Waiting
    <3> QED BY <1>1, <3>2 DEF LoopInv
  <2> QED BY <1>1, <2>1, <2>2
<1>9. \A S \in SUBSET Nodes(graph) : WaitsForItself(S)' => S \cap Layered' = {}
  BY <1>1, <1>8 DEF WaitsForItself, Edges, Destination, Source
<1>10. Nodes(graph') = Nodes(graph)
  BY <1>1
<1> HIDE DEF Waiting, WaitsForItself
<1> QED BY <1>3, <1>1, <1>5, <1>6, <1>7, <1>9, <1>10 DEF LoopInv

LEMMA DepthsKept ==
  ASSUME TypeOK, ChecksInv, LayersInv, TakeWave
  PROVE  DepthInv'
<1> DEFINE last == Len(waves) + 1
<1>1. /\ graph' = graph /\ Len(waves) \in Nat /\ Len(waves') = last
      /\ DOMAIN waves = 1 .. Len(waves) /\ DOMAIN waves' = 1 .. last
      /\ \A i \in 1 .. Len(waves) : waves'[i] = waves[i]
      /\ waves'[last] = current
      /\ current \cap Layered = {} /\ LoopInv /\ DepthInv
  BY WaveTaken
<1>2. Layered = UNION {waves[i] : i \in 1 .. Len(waves)}
  BY <1>1 DEF Layered
<1>3. \A n : SourcesOf(n)' = SourcesOf(n)
  BY <1>1 DEF SourcesOf, Edges, Source, Destination
<1>4. ASSUME NEW i \in DOMAIN waves', NEW j \in DOMAIN waves', NEW n \in waves'[i] \cap waves'[j]
      PROVE  i = j
  BY <1>1, <1>2 DEF DepthInv
<1>5. ASSUME NEW i \in DOMAIN waves', NEW n \in waves'[i]
      PROVE  /\ SourcesOf(n) \subseteq UNION {waves'[j] : j \in 1 .. i - 1}
             /\ i = 1 <=> SourcesOf(n) = {}
             /\ i > 1 => SourcesOf(n) \cap waves'[i - 1] # {}
  <2>1. UNION {waves'[j] : j \in 1 .. i - 1} = UNION {waves[j] : j \in 1 .. i - 1}
    BY <1>1
  <2>2. CASE i \in DOMAIN waves
    <3>1. /\ SourcesOf(n) \subseteq UNION {waves[j] : j \in 1 .. i - 1}
          /\ i = 1 <=> SourcesOf(n) = {}
          /\ i > 1 => SourcesOf(n) \cap waves[i - 1] # {}
      BY <1>1, <2>2 DEF DepthInv
    <3>2. i > 1 => waves'[i - 1] = waves[i - 1]
      BY <1>1, <2>2
    <3> QED BY <2>1, <3>1, <3>2
  <2>3. CASE i = last
    <3>1. n \in current /\ i - 1 = Len(waves)
      BY <1>1, <2>3
    <3>2. SourcesOf(n) \subseteq Layered
      BY <1>1, <3>1 DEF LoopInv, Waiting, SourcesOf
    <3>3. waves # << >> <=> i > 1
      BY <1>1, <2>3
    <3>4. i > 1 => SourcesOf(n) \cap waves'[i - 1] # {}
      <4>1. i > 1 => waves'[i - 1] = waves[Len(waves)]
        BY <1>1, <3>1
      <4> QED BY <1>1, <3>1, <3>3, <4>1 DEF DepthInv
    <3>5. i = 1 => SourcesOf(n) = {}
      BY <1>2, <3>1, <3>2
    <3>6. i \in Nat /\ i >= 1
      BY <1>1
    <3>7. SourcesOf(n) \subseteq UNION {waves'[j] : j \in 1 .. i - 1}
      BY <1>2, <2>1, <3>1, <3>2
    <3> QED BY <3>4, <3>5, <3>6, <3>7
  <2> QED BY <1>1, <2>2, <2>3
<1>6. ASSUME NEW n \in current' PROVE SourcesOf(n) \cap waves'[Len(waves')] # {}
  <2>1. n \in Targets(graph, current)
    BY DEF TakeWave
  <2>2. SourcesOf(n) \cap current # {}
    BY <2>1 DEF Targets, SourcesOf
  <2> QED BY <1>1, <2>2
<1> HIDE DEF SourcesOf
<1> QED BY <1>3, <1>4, <1>5, <1>6 DEF DepthInv

(* When no wave is left, what is not visited waits for itself: counting the  *)
(* visited nodes tells whether there is a cycle.                             *)
LEMMA CountTells ==
  ASSUME ChecksInv, LoopInv, stage = "waves", current = {}
  PROVE  /\ visited = Cardinality(Nodes(graph)) => Layered = Nodes(graph)
         /\ visited # Cardinality(Nodes(graph)) => HasCycle(graph)
<1>1. Layered \subseteq Nodes(graph)
  BY DEF LoopInv, Layered
<1>2. visited = Cardinality(Nodes(graph)) => Layered = Nodes(graph)
  <2>1. IsFiniteSet(Nodes(graph))
    BY GraphFits
  <2>2. visited = Cardinality(Layered)
    BY DEF LoopInv
  <2> QED BY <1>1, <2>1, <2>2, FS_Subset
<1>3. ASSUME visited # Cardinality(Nodes(graph)) PROVE HasCycle(graph)
  <2> DEFINE S == Nodes(graph) \ Layered
  <2>1. S \in (SUBSET Nodes(graph)) \ {{}}
    <3>1. Layered # Nodes(graph)
      BY <1>3 DEF LoopInv
    <3> QED BY <1>1, <3>1
  <2>2. ASSUME NEW n \in S
        PROVE  \E e \in Edges(graph) : Destination(graph, e) = n /\ Source(graph, e) \in S
    <3>1. PICK e \in Waiting(n) : TRUE
      BY <2>2 DEF LoopInv
    <3>2. e \in Edges(graph) /\ Destination(graph, e) = n /\ Source(graph, e) \notin Layered
      BY <3>1 DEF Waiting
    <3>3. Source(graph, e) \in Nodes(graph)
      BY <3>2, GraphFits DEF EdgesChecked
    <3> QED BY <3>2, <3>3
  <2> HIDE DEF S
  <2> QED BY <2>1, <2>2 DEF HasCycle
<1> QED BY <1>2, <1>3

(* A complete layering leaves no cycle.                                      *)
LEMMA LayeredIsAcyclic ==
  ASSUME LoopInv, Layered = Nodes(graph)
  PROVE  ~ HasCycle(graph)
<1>1. SUFFICES ASSUME NEW S \in (SUBSET Nodes(graph)) \ {{}}, WaitsForItself(S) PROVE FALSE
  BY DEF HasCycle, WaitsForItself
<1>2. S \cap Layered = {}
  BY <1>1 DEF LoopInv
<1> QED BY <1>2

(* A step outside the layering loop leaves what it has established.          *)
LEMMA LayeringKept ==
  ASSUME UNCHANGED <<graph, layering>>
  PROVE  /\ LoopInv => LoopInv'
         /\ DepthInv => DepthInv'
         /\ Layered' = Layered /\ Nodes(graph') = Nodes(graph)
         /\ HasCycle(graph) => HasCycle(graph')
<1>1. UNCHANGED <<graph, indegree, current, waves, visited>>
  BY DEF layering
<1>2. Layered' = Layered /\ Nodes(graph') = Nodes(graph)
  BY <1>1 DEF Layered
<1>3. \A n : Waiting(n)' = Waiting(n) /\ SourcesOf(n)' = SourcesOf(n)
  BY <1>1, <1>2 DEF Waiting, SourcesOf, Edges, Destination, Source
<1>4. \A S : WaitsForItself(S)' <=> WaitsForItself(S)
  BY <1>1 DEF WaitsForItself, Edges, Destination, Source
<1>5. LoopInv => LoopInv'
  BY <1>1, <1>2, <1>3, <1>4 DEF LoopInv
<1>6. DepthInv => DepthInv'
  BY <1>1, <1>3 DEF DepthInv
<1> QED BY <1>1, <1>2, <1>5, <1>6

LEMMA LayersStep == CompilerInv /\ [Next]_vars => LayersInv'
<1> SUFFICES ASSUME TypeOK, ChecksInv, LayersInv, [Next]_vars PROVE LayersInv'
  BY DEF CompilerInv
<1> USE DEF Unlayered, Layering, LayeringOver
<1>1. CASE UNCHANGED vars
  <2>1. UNCHANGED <<graph, layering>> /\ stage' = stage /\ reason' = reason
    BY <1>1 DEF vars, layering
  <2>2. UNCHANGED <<indegree, current, waves, visited, graph>>
    BY <1>1 DEF vars
  <2> QED BY <2>1, <2>2, LayeringKept DEF LayersInv
<1>2. CASE CheckIdentifiers
  <2>1. /\ stage = "identifiers" /\ stage' \in {"components", "rejected"}
        /\ reason' \in {reason, "duplicate id"}
        /\ UNCHANGED <<current, waves, visited>>
    BY <1>2 DEF CheckIdentifiers, Check, layering
  <2>2. reason # "cycle"
    BY <2>1 DEF TypeOK
  <2> QED BY <2>1, <2>2 DEF LayersInv
<1>3. CASE CheckComponents
  <2>1. /\ stage = "components" /\ stage' \in {"edges", "rejected"}
        /\ reason' \in {reason, "component"}
        /\ UNCHANGED <<current, waves, visited>>
    BY <1>3 DEF CheckComponents, Check, layering
  <2>2. reason # "cycle"
    BY <2>1 DEF TypeOK
  <2> QED BY <2>1, <2>2 DEF LayersInv
<1>4. CASE CheckEdges
  <2>1. /\ stage = "edges" /\ stage' \in {"slots", "rejected"}
        /\ reason' \in {reason, "edge"} /\ graph' = graph
        /\ stage' = "slots" => indegree' = Indegrees(graph)
        /\ UNCHANGED <<current, waves, visited>>
    BY <1>4 DEF CheckEdges, Check
  <2>2. reason # "cycle"
    BY <2>1 DEF TypeOK
  <2> QED BY <2>1, <2>2 DEF LayersInv
<1>5. CASE BindSlots
  <2>1. /\ stage = "slots" /\ stage' \in {"entries", "rejected"}
        /\ reason' \in {reason, "unbound slot"}
        /\ UNCHANGED <<graph, indegree, current, waves, visited>>
    BY <1>5 DEF BindSlots, Check, layering
  <2>2. reason # "cycle"
    BY <2>1 DEF TypeOK
  <2> QED BY <2>1, <2>2 DEF LayersInv
<1>6. CASE FindEntries
  <2>1. /\ stage = "entries" /\ stage' \in {"waves", "rejected"}
        /\ reason' \in {reason, "no entry node"}
    BY <1>6 DEF FindEntries, Check
  <2>2. reason # "cycle"
    BY <2>1 DEF TypeOK
  <2>3. stage' = "waves" => LoopInv' /\ DepthInv'
    BY <1>6, LayeringStarts
  <2> QED BY <2>1, <2>2, <2>3 DEF LayersInv
<1>7. CASE TakeWave
  <2>1. LoopInv' /\ DepthInv' /\ stage = "waves" /\ stage' = "waves" /\ reason' = reason
    BY <1>7, LoopKept, DepthsKept DEF TakeWave
  <2>2. reason # "cycle"
    BY <2>1 DEF TypeOK
  <2> QED BY <2>1, <2>2 DEF LayersInv
<1>8. CASE CloseWaves
  <2>1. /\ current = {} /\ stage = "waves" /\ UNCHANGED <<graph, layering>>
        /\ \/ /\ visited = Cardinality(Nodes(graph))
              /\ stage' = "producers" /\ reason' = reason
           \/ /\ visited # Cardinality(Nodes(graph))
              /\ stage' = "rejected" /\ reason' = "cycle"
    BY <1>8 DEF CloseWaves, Check
  <2>2. LoopInv /\ DepthInv
    BY <2>1 DEF LayersInv
  <2>3. reason # "cycle"
    BY <2>1 DEF TypeOK
  <2> QED BY <2>1, <2>2, <2>3, CountTells, LayeringKept DEF LayersInv
<1>9. CASE FindProducers \/ Reach \/ Finish
  <2>1. /\ stage \in {"producers", "reaching"} /\ UNCHANGED <<graph, layering>>
        /\ stage' \in {"reaching", "accepted", "rejected"}
        /\ reason' \in {reason, "no final producer", "unreachable output"}
    BY <1>9 DEF FindProducers, Reach, Finish, Check
  <2>2. LoopInv /\ DepthInv /\ Layered = Nodes(graph)
    BY <2>1 DEF LayersInv
  <2>3. reason # "cycle"
    BY <2>1 DEF TypeOK
  <2> QED BY <2>1, <2>2, <2>3, LayeringKept DEF LayersInv
<1> QED BY <1>1, <1>2, <1>3, <1>4, <1>5, <1>6, <1>7, <1>8, <1>9 DEF Next

-----------------------------------------------------------------------------
(* What the compiler guarantees. *)

(* The inductive invariant: the checks passed, the loop's counters, the      *)
(* depths of the waves taken so far.                                         *)
THEOREM CompilerInvariance == Spec => []CompilerInv
<1>1. Init => CompilerInv
  BY CompilerInit
<1>2. CompilerInv /\ [Next]_vars => CompilerInv'
  BY TypeStep, ChecksStep, LayersStep DEF CompilerInv
<1> QED BY <1>1, <1>2, PTL DEF Spec

(* A fault is named exactly of the graphs that are rejected, and nothing but *)
(* nodes of the graph is layered, entered or reached.                        *)
THEOREM CompilerTyped == Spec => []TypeOK
<1>1. CompilerInv => TypeOK
  BY DEF CompilerInv
<1> QED BY <1>1, CompilerInvariance, PTL

(* "Graph contains a cycle" is said of no other graph, and no graph with a   *)
(* cycle, be it a loop or one among parallel edges, goes on to be run.       *)
THEOREM CyclesAreTold == Spec => []CycleVerdictExact
<1>1. ASSUME CompilerInv PROVE CycleVerdictExact
  <2>1. reason = "cycle" => HasCycle(graph)
    BY <1>1 DEF CompilerInv, LayersInv
  <2>2. ASSUME stage \in LayeringOver PROVE ~ HasCycle(graph)
    <3>1. LoopInv /\ Layered = Nodes(graph)
      BY <1>1, <2>2 DEF CompilerInv, LayersInv, Layering, LayeringOver
    <3> QED BY <3>1, LayeredIsAcyclic
  <2> QED BY <2>1, <2>2 DEF CycleVerdictExact, LayeringOver
<1> QED BY <1>1, CompilerInvariance, PTL

(* The waves of an accepted graph partition its nodes by depth: the runtime  *)
(* may take as a wave's inputs what the waves before it have published.      *)
THEOREM WavesFollowDepth == Spec => []WavesAreDepths
<1>1. ASSUME CompilerInv, Accepted PROVE Layered = Nodes(graph) /\ DepthInv
  BY <1>1 DEF CompilerInv, LayersInv, Layering, LayeringOver, Accepted
<1>2. CompilerInv => WavesAreDepths
  BY <1>1 DEF WavesAreDepths, DepthInv, SourcesOf
<1> QED BY <1>2, CompilerInvariance, PTL

(* A graph whose nodes all declare an output slot, which is not checked, is  *)
(* accepted only with all that Scheduler and WaveCommitter assume of it, and *)
(* with every edge between two slots of one schema.                          *)
THEOREM AcceptedCanRun ==
  ASSUME \A d \in Declarations : \A i \in DOMAIN d.nodes :
           d.nodes[i].spec.first_output \in DOMAIN d.nodes[i].spec.output_slots
  PROVE  Spec => []AcceptedIsGraph
<1>1. ASSUME CompilerInv, Accepted
      PROVE  /\ IsGraph(graph)
             /\ \A e \in Edges(graph) :
                  graph.nodes[Source(graph, e)].output_slots[graph.edges[e].source_output]
                    = graph.nodes[Destination(graph, e)].input_slots[graph.edges[e].destination_input]
  <2>1. /\ declared \in Declarations /\ graph = GraphOf(declared)
        /\ \A e \in Edges(graph) : EdgeFits(graph, e)
    BY <1>1 DEF CompilerInv, ChecksInv, Accepted, EdgesChecked
  <2>2. IsDeclaration(declared)
    BY <2>1, DeclarationsAssumption
  <2>3. DOMAIN graph = {"nodes", "edges", "initial_artifact_slots", "final_output_slot"}
    BY <2>1 DEF GraphOf
  <2>4. IsFiniteSet(Nodes(graph)) /\ Edges(graph) = 1 .. Len(graph.edges)
    BY <2>1, GraphOfDeclaration
  <2>5. \A n \in Nodes(graph) : \E i \in DOMAIN declared.nodes :
          n = declared.nodes[i].node_id /\ graph.nodes[n] = declared.nodes[i].spec
    BY <2>1, GraphOfDeclaration
  <2>6. \A n \in Nodes(graph) : IsNodeSpec(graph.nodes[n])
    BY <2>1, <2>2, <2>5 DEF IsDeclaration, IsNodeSpec
  <2>7. \A m, n \in Nodes(graph) : graph.nodes[m].rank = graph.nodes[n].rank => m = n
    BY <2>2, <2>5 DEF IsDeclaration
  <2>8. \A e \in Edges(graph) : IsEdgeSpec(graph.edges[e])
    BY <2>1, <2>2, GraphOfDeclaration DEF IsDeclaration
  <2>9. \A e \in Edges(graph) :
          /\ graph.edges[e].source_node \in Nodes(graph)
          /\ graph.edges[e].destination_node \in Nodes(graph)
          /\ graph.edges[e].source_output \in OutputSlots(graph, graph.edges[e].source_node)
          /\ graph.edges[e].destination_input \in InputSlots(graph, graph.edges[e].destination_node)
          /\ graph.nodes[Source(graph, e)].output_slots[graph.edges[e].source_output]
               = graph.nodes[Destination(graph, e)].input_slots[graph.edges[e].destination_input]
    BY <2>1 DEF EdgeFits, Source, Destination
  <2>10. IsGraph(graph)
    BY <2>3, <2>4, <2>6, <2>7, <2>8, <2>9 DEF IsGraph
  <2> QED BY <2>9, <2>10
<1>2. CompilerInv => AcceptedIsGraph
  BY <1>1 DEF AcceptedIsGraph
<1> QED BY <1>2, CompilerInvariance, PTL

(* What is known of the entry nodes once the slots are bound. *)
EntriesInv ==
  /\ stage \in SlotsBound => entry_nodes = EntryNodes(graph)
  /\ stage \in Layering => entry_nodes # {}

LEMMA EntriesStep == ChecksInv /\ EntriesInv /\ [Next]_vars => EntriesInv'
<1> SUFFICES ASSUME ChecksInv, EntriesInv, [Next]_vars PROVE EntriesInv'
  OBVIOUS
<1> USE DEF EdgesChecked, SlotsBound, Layering
<1>1. CASE UNCHANGED vars
  BY <1>1 DEF vars, EntriesInv
<1>2. CASE CheckIdentifiers \/ CheckComponents \/ CheckEdges
  BY <1>2 DEF CheckIdentifiers, CheckComponents, CheckEdges, Check, EntriesInv
<1>3. CASE BindSlots
  BY <1>3 DEF BindSlots, Check, EntriesInv
<1>4. CASE FindEntries
  BY <1>4 DEF FindEntries, Check, EntriesInv
<1>5. CASE TakeWave \/ CloseWaves \/ FindProducers \/ Reach \/ Finish
  <2>1. /\ stage \in Layering /\ stage' \in Layering \cup {"rejected"}
        /\ UNCHANGED <<graph, entry_nodes>>
    BY <1>5 DEF TakeWave, CloseWaves, FindProducers, Reach, Finish, Check
  <2> QED BY <2>1 DEF EntriesInv
<1> QED BY <1>1, <1>2, <1>3, <1>4, <1>5 DEF Next

(* An accepted graph has a node that needs nothing but initial artifacts, as *)
(* RuntimeServesCommands asks of a graph: a task that is started for the     *)
(* first time has something to run.                                          *)
THEOREM AcceptedHasEntry ==
  Spec => [](Accepted => \E n \in Nodes(graph) :
                           InputSlots(graph, n) \subseteq DOMAIN graph.initial_artifact_slots)
<1>1. Init => EntriesInv
  BY DEF Init, EntriesInv, EdgesChecked, SlotsBound, Layering
<1>2. CompilerInv /\ EntriesInv /\ [Next]_vars => EntriesInv'
  BY EntriesStep DEF CompilerInv
<1>3. EntriesInv => (Accepted => \E n \in Nodes(graph) :
                       InputSlots(graph, n) \subseteq DOMAIN graph.initial_artifact_slots)
  BY DEF EntriesInv, Accepted, EntryNodes, EdgesChecked, SlotsBound, Layering
<1> QED BY <1>1, <1>2, <1>3, CompilerInvariance, PTL DEF Spec

-----------------------------------------------------------------------------
(* An accepted graph delivers: one node at a time, the runtime's own step    *)
(* functions take it from the untouched state to a final output.             *)

StateFields ==
  {"node_status", "node_outputs", "initial_artifacts", "active_edges",
   "inactive_edges", "final_output", "frozen", "wave_id"}

StatusAfter(g, D) == [n \in Nodes(g) |-> IF n \in D THEN "SUCCEEDED" ELSE "PENDING"]

OutputsAfter(g, D) == [n \in Nodes(g) |-> IF n \in D THEN n ELSE NoArtifact]

(* st is a state after waves of one node each, D being the nodes that have   *)
(* run, none of them a producer of the final output.                         *)
HasRun(g, st, D) ==
  /\ DOMAIN st = StateFields
  /\ st.node_status = StatusAfter(g, D)
  /\ st.node_outputs = OutputsAfter(g, D)
  /\ DOMAIN st.initial_artifacts = DOMAIN g.initial_artifact_slots
  /\ st.active_edges = Edges(g)
  /\ st.inactive_edges = {}
  /\ st.frozen = FALSE

Answers(g) == {n \in Nodes(g) : PublishedSlot(g, n) = g.final_output_slot}

LEMMA UntouchedIsFirst ==
  ASSUME NEW g, PublishedOnly(g)
  PROVE  HasRun(g, UntouchedState(g), {})
<1>1. {e \in Edges(g) : ~ Conditional(g, e)} = Edges(g)
  BY DEF PublishedOnly
<1>2. DOMAIN UntouchedState(g) = StateFields
  BY DEF UntouchedState, StateFields
<1> QED BY <1>1, <1>2 DEF UntouchedState, HasRun, StatusAfter, OutputsAfter

(* A node whose sources have all run is ready: each of its slots is bound,   *)
(* and what an edge is to bring has been published.                          *)
LEMMA ReadyAfterSources ==
  ASSUME NEW g, PublishedOnly(g), AllSlotsBound(g), NoArtifact \notin Nodes(g),
         \A e \in Edges(g) : Source(g, e) \in Nodes(g),
         NEW D, NEW st, HasRun(g, st, D), NEW n \in Nodes(g) \ D,
         \A e \in Edges(g) : Destination(g, e) = n => Source(g, e) \in D
  PROVE  n \in Ready(g, st)
<1>1. /\ st.node_status[n] = "PENDING" /\ st.active_edges = Edges(g)
      /\ DOMAIN st.initial_artifacts = DOMAIN g.initial_artifact_slots
      /\ \A m \in Nodes(g) \cap D : st.node_outputs[m] = m
  BY DEF HasRun, StatusAfter, OutputsAfter
<1>2. ASSUME NEW slot \in InputSlots(g, n) PROVE slot \in ResolvedSlots(g, st, n)
  <2>1. CASE slot \in DOMAIN g.initial_artifact_slots
    BY <1>1, <2>1 DEF ResolvedSlots
  <2>2. CASE \E e \in Edges(g) : Destination(g, e) = n /\ g.edges[e].destination_input = slot
    <3>1. PICK e \in Edges(g) : Destination(g, e) = n /\ g.edges[e].destination_input = slot
      BY <2>2
    <3>2. Source(g, e) \in Nodes(g) \cap D
      BY <3>1
    <3>3. OutputOn(g, st, e) = Source(g, e)
      BY <1>1, <3>2 DEF OutputOn, PublishedOnly
    <3>4. e \in Supplying(g, st, n, slot)
      BY <1>1, <3>1, <3>2, <3>3 DEF Supplying, Incoming, Destination
    <3> QED BY <3>4 DEF ResolvedSlots
  <2> QED BY <2>1, <2>2 DEF AllSlotsBound, SlotBound
<1>3. ResolvedSlots(g, st, n) = InputSlots(g, n)
  BY <1>2 DEF ResolvedSlots
<1> QED BY <1>1, <1>3 DEF Ready

(* With a limit of one the first ready node is the wave.                     *)
LEMMA FirstReadyAlone ==
  ASSUME NEW g, IsGraph(g), NEW st, Ready(g, st) # {}
  PROVE  \E n \in Ready(g, st) : FindReadyNodes(g, st, 1) = {n}
<1> DEFINE R == Ready(g, st)
           n == FirstNode(g, R)
<1>1. R \in SUBSET Nodes(g) /\ IsFiniteSet(R)
  BY FS_Subset DEF Ready, IsGraph
<1>2. n \in R /\ \A m \in R \ {n} : Before(g, n, m)
  BY <1>1, FirstNodeExists
<1>3. \A m \in Nodes(g) : g.nodes[m].rank \in Nat
  BY DEF IsGraph, IsNodeSpec, IsBaseNodeSpec
<1> HIDE DEF n, R
<1>4. ASSUME NEW m \in R
      PROVE  Cardinality({x \in R : Before(g, x, m)}) < 1 <=> m = n
  <2> DEFINE earlier == {x \in R : Before(g, x, m)}
  <2>1. Cardinality(earlier) \in Nat /\ (Cardinality(earlier) = 0 <=> earlier = {})
    BY <1>1, FS_Subset, NoneCounted
  <2>2. earlier = {} <=> m = n
    BY <1>1, <1>2, <1>3 DEF Before
  <2> HIDE DEF earlier
  <2> QED BY <2>1, <2>2 DEF earlier
<1>5. FindReadyNodes(g, st, 1) = {n}
  BY <1>2, <1>4 DEF FindReadyNodes, R
<1> QED BY <1>2, <1>5 DEF R

(* The results of a wave in which every node succeeds.                       *)
AllSucceeded(W) == [n \in W |-> [succeeded |-> TRUE, artifact |-> n, payload |-> << >>]]

(* The results of a wave of one node, which succeeds.                        *)
LEMMA ResultsOfOne ==
  ASSUME NEW n
  PROVE  /\ DOMAIN AllSucceeded({n}) = {n} /\ Succeeded(AllSucceeded({n})) = {n}
         /\ AllSucceeded({n})[n].artifact = n
BY DEF Succeeded, AllSucceeded

LEMMA RecordOne ==
  ASSUME NEW g, NEW D, NEW st, HasRun(g, st, D), NEW n \in Nodes(g)
  PROVE  HasRun(g, RecordResults(st, AllSucceeded({n})), D \cup {n})
<1> DEFINE results == AllSucceeded({n})
           next == RecordResults(st, results)
<1>1. Succeeded(results) = {n} /\ DOMAIN results = {n} /\ results[n].artifact = n
  BY ResultsOfOne
<1> HIDE DEF results
<1>2. /\ next.node_status = [m \in DOMAIN st.node_status |->
           IF m \in Succeeded(results) THEN "SUCCEEDED"
           ELSE IF m \in DOMAIN results THEN "FAILED" ELSE st.node_status[m]]
      /\ next.node_outputs = [m \in DOMAIN st.node_outputs |->
           IF m \in Succeeded(results) THEN results[m].artifact ELSE st.node_outputs[m]]
  BY DEF RecordResults, HasRun, StateFields
<1>3. /\ DOMAIN next = StateFields
      /\ DOMAIN next.initial_artifacts = DOMAIN g.initial_artifact_slots
      /\ next.active_edges = Edges(g) /\ next.inactive_edges = {} /\ next.frozen = FALSE
  BY DEF RecordResults, HasRun, StateFields
<1> HIDE DEF next
<1>4. next.node_status = StatusAfter(g, D \cup {n})
  BY <1>1, <1>2 DEF HasRun, StatusAfter
<1>5. next.node_outputs = OutputsAfter(g, D \cup {n})
  BY <1>1, <1>2 DEF HasRun, OutputsAfter
<1> QED BY <1>3, <1>4, <1>5 DEF HasRun, next, results

LEMMA SettleNone ==
  ASSUME NEW g, PublishedOnly(g), NEW D, NEW st, HasRun(g, st, D), NEW results
  PROVE  HasRun(g, SettleConditionalEdges(g, st, results), D)
<1>1. SettledEdges(g, results) = {}
  BY DEF SettledEdges, PublishedOnly
<1>2. SettleConditionalEdges(g, st, results)
        = [st EXCEPT !.active_edges = @ \cup {}, !.inactive_edges = @ \cup {}]
  BY <1>1 DEF SettleConditionalEdges
<1> QED BY <1>2 DEF HasRun, StateFields

(* No node becomes impossible while none has failed.                         *)
LEMMA SkipNone ==
  ASSUME NEW g, NEW D, NEW st, HasRun(g, st, D), \A e \in Edges(g) : Source(g, e) \in Nodes(g)
  PROVE  HasRun(g, Skip(st, ImpossibleNodes(g, st)), D)
<1>1. st.inactive_edges = {} /\ st.node_status = StatusAfter(g, D)
  BY DEF HasRun
<1>2. \A e \in Edges(g) : ~ EdgeIsDead(g, st, e)
  BY <1>1 DEF EdgeIsDead, Dead, StatusAfter
<1>3. ImpossibleNodes(g, st) = {}
  BY <1>2 DEF ImpossibleNodes, Incoming
<1>4. Skip(st, {}).node_status = [n \in DOMAIN st.node_status |-> st.node_status[n]]
  BY DEF Skip, HasRun, StateFields
<1>5. Skip(st, {}).node_status = StatusAfter(g, D)
  BY <1>1, <1>4 DEF StatusAfter
<1>6. HasRun(g, Skip(st, {}), D)
  BY <1>5 DEF Skip, HasRun, StateFields
<1> QED BY <1>3, <1>6

(* Committing the wave of one node that is no producer moves that node over. *)
LEMMA CommitOne ==
  ASSUME NEW g, PublishedOnly(g), NEW D, NEW st, HasRun(g, st, D),
         NEW n \in Nodes(g), n \notin Answers(g),
         \A e \in Edges(g) : Source(g, e) \in Nodes(g)
  PROVE  HasRun(g, CommitWave(g, st, AllSucceeded({n})), D \cup {n})
<1> DEFINE results == AllSucceeded({n})
           recorded == RecordResults(st, results)
           settled == SettleConditionalEdges(g, recorded, results)
           skipped == Skip(settled, ImpossibleNodes(g, settled))
<1>1. HasRun(g, skipped, D \cup {n})
  BY RecordOne, SettleNone, SkipNone
<1>2. FinalProducers(g, results) = {}
  <2>1. Succeeded(results) = {n}
    BY ResultsOfOne
  <2> HIDE DEF results
  <2> QED BY <2>1 DEF FinalProducers, Answers
<1>3. FreezeFinalOutput(g, recorded, results) = recorded
  BY <1>2 DEF FreezeFinalOutput
<1>4. CommitWave(g, st, results) = [skipped EXCEPT !.wave_id = @ + 1]
  BY <1>3 DEF CommitWave
<1> HIDE DEF skipped, results
<1>5. HasRun(g, [skipped EXCEPT !.wave_id = @ + 1], D \cup {n})
  BY <1>1 DEF HasRun, StateFields
<1> QED BY <1>4, <1>5 DEF results

(* Committing that of a producer freezes the state.                          *)
LEMMA CommitProducer ==
  ASSUME NEW g, NEW D, NEW st, HasRun(g, st, D), NEW n \in Answers(g)
  PROVE  CommitWave(g, st, AllSucceeded({n})).frozen
<1> DEFINE results == AllSucceeded({n})
           recorded == RecordResults(st, results)
           final == FreezeFinalOutput(g, recorded, results)
           settled == SettleConditionalEdges(g, final, results)
           skipped == Skip(settled, ImpossibleNodes(g, settled))
<1>1. HasRun(g, recorded, D \cup {n})
  BY RecordOne DEF Answers
<1>2. FinalProducers(g, results) # {}
  BY ResultsOfOne DEF FinalProducers, Answers
<1> HIDE DEF recorded, results
<1>3. final.frozen /\ DOMAIN final = StateFields
  BY <1>1, <1>2 DEF FreezeFinalOutput, HasRun, StateFields
<1> HIDE DEF final
<1>4. settled.frozen /\ DOMAIN settled = StateFields
  BY <1>3 DEF SettleConditionalEdges, StateFields
<1> HIDE DEF settled
<1>5. skipped.frozen /\ DOMAIN skipped = StateFields
  BY <1>4 DEF Skip, StateFields
<1>6. CommitWave(g, st, results) = [skipped EXCEPT !.wave_id = @ + 1]
  BY DEF CommitWave, skipped, settled, final, recorded
<1> HIDE DEF skipped
<1>7. [skipped EXCEPT !.wave_id = @ + 1].frozen
  BY <1>5 DEF StateFields
<1> QED BY <1>6, <1>7 DEF results

(* One turn of the loop: one more node has run, or there is an answer.       *)
LEMMA OneWave ==
  ASSUME NEW g, IsGraph(g), PublishedOnly(g), AllSlotsBound(g), ~ HasCycle(g),
         NoArtifact \notin Nodes(g),
         NEW D \in SUBSET Nodes(g), D # Nodes(g), NEW st, HasRun(g, st, D)
  PROVE  /\ Ready(g, st) # {}
         /\ \/ AllSucceed(g, st).frozen
            \/ \E n \in Nodes(g) \ (D \cup Answers(g)) : HasRun(g, AllSucceed(g, st), D \cup {n})
<1>1. \A e \in Edges(g) : Source(g, e) \in Nodes(g)
  BY DEF IsGraph, Source
<1>2. Ready(g, st) # {}
  <2> DEFINE left == Nodes(g) \ D
  <2>1. left \in (SUBSET Nodes(g)) \ {{}}
    OBVIOUS
  <2>2. PICK n \in left : ~ \E e \in Edges(g) : Destination(g, e) = n /\ Source(g, e) \in left
    BY <2>1 DEF HasCycle
  <2>3. \A e \in Edges(g) : Destination(g, e) = n => Source(g, e) \in D
    BY <1>1, <2>2
  <2>4. n \in Ready(g, st)
    BY <1>1, <2>3, ReadyAfterSources
  <2> QED BY <2>4
<1>3. PICK n \in Ready(g, st) : FindReadyNodes(g, st, 1) = {n}
  BY <1>2, FirstReadyAlone
<1>4. n \in Nodes(g) \ D
  BY DEF Ready, HasRun, StatusAfter
<1>5. AllSucceed(g, st) = CommitWave(g, st, AllSucceeded({n}))
  BY <1>3 DEF AllSucceed, AllSucceeded
<1>6. CASE n \in Answers(g)
  BY <1>2, <1>5, <1>6, CommitProducer
<1>7. CASE n \notin Answers(g)
  <2>1. HasRun(g, CommitWave(g, st, AllSucceeded({n})), D \cup {n})
    BY <1>1, <1>4, <1>7, CommitOne
  <2> QED BY <1>2, <1>4, <1>5, <1>7, <2>1
<1> QED BY <1>6, <1>7

(* What a state of the loop is followed by.                                  *)
Follower(g, st) == IF st.frozen \/ Ready(g, st) = {} THEN st ELSE AllSucceed(g, st)

IsLoop(g, a, N) ==
  a = [k \in 0 .. N |-> IF k = 0 THEN UntouchedState(g) ELSE Follower(g, a[k - 1])]

(* The loop can be run for any number of turns.                              *)
LEMMA LoopExists ==
  ASSUME NEW g, NEW N \in Nat
  PROVE  \E a : IsLoop(g, a, N)
<1> DEFINE bad == {M \in Nat : ~ \E a : IsLoop(g, a, M)}
<1>1. SUFFICES ASSUME bad # {} PROVE FALSE
  OBVIOUS
<1>2. PICK M \in bad : \A K \in bad : M <= K
  BY <1>1, LeastNatural
<1>3. CASE M = 0
  <2> DEFINE a == [k \in 0 .. 0 |-> UntouchedState(g)]
  <2>1. IsLoop(g, a, 0)
    BY DEF IsLoop
  <2> QED BY <1>2, <1>3, <2>1
<1>4. CASE M # 0
  <2>1. M - 1 \in Nat /\ M - 1 \notin bad
    BY <1>2, <1>4
  <2>2. PICK a : IsLoop(g, a, M - 1)
    BY <2>1
  <2> DEFINE b == [k \in 0 .. M |-> IF k = 0 THEN UntouchedState(g)
                                    ELSE IF k = M THEN Follower(g, a[M - 1]) ELSE a[k]]
  <2>3. \A k \in 0 .. M - 1 : b[k] = a[k]
    BY <2>1, <2>2 DEF IsLoop
  <2>4. ASSUME NEW k \in 0 .. M
        PROVE  b[k] = IF k = 0 THEN UntouchedState(g) ELSE Follower(g, b[k - 1])
    <3>1. CASE k = 0
      BY <3>1
    <3>2. CASE k = M /\ k # 0
      BY <2>1, <2>3, <3>2
    <3>3. CASE k # 0 /\ k # M
      <4>1. k \in 0 .. M - 1 /\ k - 1 \in 0 .. M - 1
        BY <2>1, <3>3
      <4>2. a[k] = Follower(g, a[k - 1])
        BY <2>2, <3>3, <4>1 DEF IsLoop
      <4> HIDE DEF b
      <4> QED BY <2>3, <3>3, <4>1, <4>2
    <3> QED BY <3>1, <3>2, <3>3
  <2>5. b = [k \in 0 .. M |-> b[k]]
    OBVIOUS
  <2> HIDE DEF b
  <2>6. IsLoop(g, b, M)
    BY <2>4, <2>5 DEF IsLoop
  <2> QED BY <1>2, <2>6
<1> QED BY <1>3, <1>4

(* By induction over the turns: after k of them there is an answer, or k     *)
(* nodes have run; when all have, one of them was a producer.                *)
LEMMA LoopDelivers ==
  ASSUME NEW g, IsGraph(g), PublishedOnly(g), AllSlotsBound(g), ~ HasCycle(g),
         NoArtifact \notin Nodes(g), FinalProducerNodes(g) # {},
         NEW a, IsLoop(g, a, Cardinality(Nodes(g)))
  PROVE  a[Cardinality(Nodes(g))].frozen
<1> DEFINE N == Cardinality(Nodes(g))
           Run(k) == \E D \in SUBSET Nodes(g) :
                       HasRun(g, a[k], D) /\ Cardinality(D) = k /\ D \cap Answers(g) = {}
           bad == {k \in 0 .. N : ~ (a[k].frozen \/ Run(k))}
<1>1. IsFiniteSet(Nodes(g)) /\ N \in Nat
  BY FS_CardinalityType DEF IsGraph
<1> HIDE DEF N
<1>2. a[0] = UntouchedState(g) /\ \A k \in 1 .. N : a[k] = Follower(g, a[k - 1])
  BY <1>1 DEF IsLoop, N
<1>3. Run(0)
  <2>1. HasRun(g, a[0], {})
    BY <1>2, UntouchedIsFirst
  <2>2. Cardinality({}) = 0
    BY FS_EmptySet
  <2> QED BY <2>1, <2>2
<1>4. ASSUME NEW k \in 1 .. N, a[k - 1].frozen PROVE a[k].frozen
  BY <1>2, <1>4 DEF Follower
<1>5. ASSUME NEW k \in 1 .. N, ~ a[k - 1].frozen, Run(k - 1) PROVE a[k].frozen \/ Run(k)
  <2>1. PICK D \in SUBSET Nodes(g) :
          HasRun(g, a[k - 1], D) /\ Cardinality(D) = k - 1 /\ D \cap Answers(g) = {}
    BY <1>5
  <2>2. D # Nodes(g)
    BY <1>1, <2>1 DEF N
  <2>3. /\ Ready(g, a[k - 1]) # {}
        /\ \/ AllSucceed(g, a[k - 1]).frozen
           \/ \E n \in Nodes(g) \ (D \cup Answers(g)) :
                HasRun(g, AllSucceed(g, a[k - 1]), D \cup {n})
    BY <2>1, <2>2, OneWave
  <2>4. a[k] = AllSucceed(g, a[k - 1])
    BY <1>2, <1>5, <2>3 DEF Follower
  <2>5. CASE a[k].frozen
    BY <2>5
  <2>6. ASSUME NEW n \in Nodes(g) \ (D \cup Answers(g)), HasRun(g, a[k], D \cup {n}) PROVE Run(k)
    <3>1. IsFiniteSet(D)
      BY <1>1, FS_Subset
    <3>2. Cardinality(D \cup {n}) = k
      <4>1. Cardinality(D \cup {n}) = Cardinality(D) + 1
        BY <2>6, <3>1, FS_AddElement
      <4> QED BY <1>1, <2>1, <4>1
    <3>3. D \cup {n} \in SUBSET Nodes(g) /\ (D \cup {n}) \cap Answers(g) = {}
      BY <2>1, <2>6
    <3> QED BY <2>6, <3>2, <3>3
  <2> QED BY <2>3, <2>4, <2>5, <2>6
<1>6. bad = {}
  <2>1. SUFFICES ASSUME bad # {} PROVE FALSE
    OBVIOUS
  <2>2. PICK k \in bad : \A j \in bad : k <= j
    <3>1. bad \in SUBSET Nat
      BY <1>1
    <3> HIDE DEF bad
    <3> QED BY <2>1, <3>1, LeastNatural
  <2>3. k \in 1 .. N
    BY <1>1, <1>3, <2>2
  <2>4. a[k - 1].frozen \/ Run(k - 1)
    BY <1>1, <2>2, <2>3
  <2> HIDE DEF Run
  <2>5. a[k].frozen \/ Run(k)
    BY <1>4, <1>5, <2>3, <2>4
  <2> QED BY <2>2, <2>5
<1>7. ~ Run(N)
  <2>1. SUFFICES ASSUME NEW D \in SUBSET Nodes(g), Cardinality(D) = N, D \cap Answers(g) = {}
                 PROVE  FALSE
    OBVIOUS
  <2>2. D = Nodes(g)
    BY <1>1, <2>1, FS_Subset DEF N
  <2>3. Answers(g) # {} /\ Answers(g) \subseteq Nodes(g)
    BY DEF Answers, FinalProducerNodes, PublishedOnly
  <2> QED BY <2>1, <2>2, <2>3
<1> HIDE DEF Run
<1>8. a[N].frozen
  BY <1>1, <1>6, <1>7
<1> QED BY <1>8 DEF N

(* An accepted graph without conditions cannot deadlock while its nodes      *)
(* succeed, whatever its size: the runtime's step functions, one node at a   *)
(* time, take it to a final output.                                          *)
THEOREM AcceptedDelivers ==
  ASSUME \A d \in Declarations : \A i \in DOMAIN d.nodes :
           d.nodes[i].spec.first_output \in DOMAIN d.nodes[i].spec.output_slots
  PROVE  Spec => []AcceptedGraphsDeliver
<1>1. ASSUME CompilerInv, AcceptedIsGraph, CycleVerdictExact, Accepted, PublishedOnly(graph)
      PROVE  Delivers(graph)
  <2>1. /\ IsGraph(graph) /\ ~ HasCycle(graph)
        /\ AllSlotsBound(graph) /\ FinalProducerNodes(graph) # {}
    BY <1>1 DEF AcceptedIsGraph, CycleVerdictExact, Accepted, CompilerInv, ChecksInv,
                SlotsBound, EdgesChecked
  <2>2. NoArtifact \notin Nodes(graph)
    <3>1. declared \in Declarations /\ graph = GraphOf(declared)
      BY <1>1 DEF CompilerInv, ChecksInv, Accepted
    <3> QED BY <3>1, GraphOfDeclaration, NodeIdsAssumption
  <2> DEFINE N == Cardinality(Nodes(graph))
             after == CHOOSE a : IsLoop(graph, a, N)
  <2>3. IsLoop(graph, after, N)
    <3>1. N \in Nat
      BY <2>1, FS_CardinalityType DEF IsGraph
    <3> QED BY <3>1, LoopExists
  <2>4. after[N].frozen
    <3> HIDE DEF after
    <3> QED BY <1>1, <2>1, <2>2, <2>3, LoopDelivers
  <2> QED BY <2>4 DEF Delivers, IsLoop, Follower
<1>2. CompilerInv /\ AcceptedIsGraph /\ CycleVerdictExact => AcceptedGraphsDeliver
  BY <1>1 DEF AcceptedGraphsDeliver
<1> QED BY <1>2, CompilerInvariance, AcceptedCanRun, CyclesAreTold, PTL
=============================================================================
