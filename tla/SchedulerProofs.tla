--------------------------- MODULE SchedulerProofs ---------------------------
(***************************************************************************)
(* Facts about the pure functions of Scheduler and WaveCommitter, for any  *)
(* graph and any state of the right shape.                                 *)
(***************************************************************************)
EXTENDS WaveCommitter, FiniteSetTheorems, WellFoundedInduction, TLAPS

(* A nonempty set of natural numbers has a least element. *)
LEMMA LeastNatural ==
  ASSUME NEW S \in SUBSET Nat, S # {}
  PROVE  \E n \in S : \A m \in S : n <= m
<1> DEFINE Less == {p \in Nat \X Nat : p[1] < p[2]}
<1>1. IsWellFoundedOn(Less, Nat)
  BY NatLessThanWellFounded DEF OpToRel
<1> HIDE DEF Less
<1>2. PICK n \in S : \A m \in S : ~ (<<m, n>> \in Less)
  BY <1>1, WFMin
<1>3. \A m \in S : ~ (m < n)
  BY <1>2 DEF Less
<1> QED BY <1>3

(* Node ids are totally ordered, so every nonempty set of nodes has a first  *)
(* one: the loops that visit results in id order always find their next.     *)
LEMMA FirstNodeExists ==
  ASSUME NEW g, IsGraph(g), NEW S \in SUBSET Nodes(g), S # {}
  PROVE  /\ FirstNode(g, S) \in S
         /\ \A m \in S \ {FirstNode(g, S)} : Before(g, FirstNode(g, S), m)
<1> DEFINE ranks == {g.nodes[n].rank : n \in S}
<1>1. \A n \in Nodes(g) : g.nodes[n].rank \in Nat
  BY DEF IsGraph, IsNodeSpec, IsBaseNodeSpec
<1>2. ranks \in SUBSET Nat /\ ranks # {}
  BY <1>1
<1> HIDE DEF ranks
<1>3. PICK r \in ranks : \A q \in ranks : r <= q
  BY <1>2, LeastNatural
<1>4. PICK n \in S : g.nodes[n].rank = r
  BY DEF ranks
<1>5. \A m \in S \ {n} : g.nodes[m].rank # g.nodes[n].rank
  BY DEF IsGraph
<1>6. \A m \in S : g.nodes[n].rank <= g.nodes[m].rank
  BY <1>3, <1>4 DEF ranks
<1>7. \A m \in S \ {n} : Before(g, n, m)
  BY <1>1, <1>5, <1>6 DEF Before
<1> QED BY <1>7, Zenon DEF FirstNode

(* ... and a last one, since there are finitely many nodes.                  *)
LEMMA LastNodeExists ==
  ASSUME NEW g, IsGraph(g), NEW S \in SUBSET Nodes(g), S # {}
  PROVE  \E n \in S : \A m \in S \ {n} : Before(g, m, n)
<1> DEFINE HasLast(T) == \E n \in T : \A m \in T \ {n} : Before(g, m, n)
           bad   == {T \in SUBSET Nodes(g) : T # {} /\ ~ HasLast(T)}
           sizes == {Cardinality(T) : T \in bad}
<1>0. /\ IsFiniteSet(Nodes(g))
      /\ \A n \in Nodes(g) : g.nodes[n].rank \in Nat
      /\ \A m, n \in Nodes(g) : g.nodes[m].rank = g.nodes[n].rank => m = n
  BY DEF IsGraph, IsNodeSpec, IsBaseNodeSpec
<1>1. SUFFICES ASSUME bad # {} PROVE FALSE
  OBVIOUS
<1>2. \A T \in SUBSET Nodes(g) : IsFiniteSet(T) /\ Cardinality(T) \in Nat
  BY <1>0, FS_Subset, FS_CardinalityType
<1>3. sizes \in SUBSET Nat /\ sizes # {}
  BY <1>1, <1>2
<1>4. PICK k \in sizes : \A j \in sizes : k <= j
  BY <1>3, LeastNatural
<1>5. PICK T \in bad : Cardinality(T) = k
  BY <1>4
<1>6. PICK x \in T : TRUE
  BY <1>5
<1> DEFINE U == {y \in T : Before(g, x, y)}
<1>7. U # {}
  <2>1. PICK m \in T \ {x} : ~ Before(g, m, x)
    BY <1>5, <1>6
  <2>2. x \in Nodes(g) /\ m \in Nodes(g) /\ m # x
    BY <1>5, <1>6, <2>1
  <2>3. ~ (g.nodes[m].rank < g.nodes[x].rank)
    BY <2>1 DEF Before
  <2>4. g.nodes[x].rank < g.nodes[m].rank
    BY <1>0, <2>2, <2>3
  <2>5. Before(g, x, m)
    BY <2>4 DEF Before
  <2> QED BY <2>1, <2>5
<1>8. Cardinality(U) < k
  <2>1. IsFiniteSet(T \ {x}) /\ Cardinality(T \ {x}) = k - 1
    BY <1>2, <1>5, <1>6, FS_RemoveElement
  <2>2. U \subseteq T \ {x}
    BY <1>0, <1>5, <1>6 DEF Before
  <2>3. Cardinality(U) <= k - 1 /\ Cardinality(U) \in Nat
    BY <1>2, <1>5, <2>1, <2>2, FS_Subset
  <2> QED BY <1>3, <1>4, <2>3
<1>9. HasLast(U)
  <2>1. U \in SUBSET Nodes(g) /\ Cardinality(U) \in Nat /\ k \in Nat
    BY <1>2, <1>3, <1>4, <1>5
  <2>2. Cardinality(U) \notin sizes
    BY <1>4, <1>8, <2>1
  <2> QED BY <1>7, <2>1, <2>2
<1>10. PICK n \in U : \A m \in U \ {n} : Before(g, m, n)
  BY <1>9
<1>11. \A m \in T \ {n} : Before(g, m, n)
  BY <1>0, <1>5, <1>6, <1>10 DEF Before
<1> QED BY <1>5, <1>10, <1>11

(* The scheduler never starts more nodes than it may: the last of them comes *)
(* after all the others, and those are fewer than the limit.                 *)
LEMMA ReadyWithinLimit ==
  ASSUME NEW g, IsGraph(g), NEW st, NEW limit \in Nat \ {0}
  PROVE  /\ IsFiniteSet(FindReadyNodes(g, st, limit))
         /\ Cardinality(FindReadyNodes(g, st, limit)) <= limit
<1> DEFINE F == FindReadyNodes(g, st, limit)
<1>0. IsFiniteSet(Nodes(g)) /\ F \subseteq Ready(g, st) /\ Ready(g, st) \subseteq Nodes(g)
  BY DEF IsGraph, FindReadyNodes, Ready
<1>1. IsFiniteSet(F) /\ Cardinality(F) \in Nat
  BY <1>0, FS_Subset, FS_CardinalityType
<1>2. CASE F = {}
  BY <1>1, <1>2, FS_EmptySet
<1>3. CASE F # {}
  <2>1. PICK n \in F : \A m \in F \ {n} : Before(g, m, n)
    BY <1>0, <1>3, LastNodeExists
  <2> DEFINE earlier == {m \in Ready(g, st) : Before(g, m, n)}
  <2>2. Cardinality(earlier) < limit
    BY <2>1 DEF FindReadyNodes
  <2>3. IsFiniteSet(earlier) /\ Cardinality(earlier) \in Nat
    BY <1>0, FS_Subset, FS_CardinalityType
  <2>4. Cardinality(F \ {n}) <= Cardinality(earlier)
    <3>1. F \ {n} \subseteq earlier
      BY <1>0, <2>1
    <3> HIDE DEF earlier, F
    <3> QED BY <2>3, <3>1, FS_Subset
  <2>5. Cardinality(F \ {n}) = Cardinality(F) - 1
    BY <1>1, <2>1, FS_RemoveElement
  <2> QED BY <1>1, <2>2, <2>3, <2>4, <2>5
<1> QED BY <1>1, <1>2, <1>3
=============================================================================
