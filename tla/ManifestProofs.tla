--------------------------- MODULE ManifestProofs ---------------------------
(***************************************************************************)
(* The data of a benchmark, for any number of questions, shards, records   *)
(* and manifests: what the loader's lists, filters and dictionaries do to  *)
(* the order of the records, and what follows for the three commands.      *)
(***************************************************************************)
EXTENDS TaskManifests, FiniteSetTheorems, TLAPS

(* t is the last of the tasks that has the id q. *)
IsLast(tasks, q, t) ==
  \E i \in DOMAIN tasks : /\ tasks[i] = t /\ Id(t) = q
                          /\ \A j \in DOMAIN tasks : j > i => Id(tasks[j]) # q

-----------------------------------------------------------------------------
(* Sequences of tasks. *)

(* Induction up to n, on the set of the numbers that are good.               *)
LEMMA UpTo ==
  ASSUME NEW n \in Nat, NEW good, 0 \in good, \A i \in 0 .. n - 1 : i \in good => i + 1 \in good
  PROVE  \A i \in 0 .. n : i \in good
<1> DEFINE Less == {p \in Nat \X Nat : p[1] < p[2]}
           bad  == {i \in 0 .. n : i \notin good}
<1>1. SUFFICES ASSUME bad # {} PROVE FALSE
  OBVIOUS
<1>2. IsWellFoundedOn(Less, Nat)
  BY NatLessThanWellFounded DEF OpToRel
<1>3. bad \subseteq Nat
  OBVIOUS
<1> HIDE DEF Less
<1>4. PICK i \in bad : \A j \in bad : ~ (<<j, i>> \in Less)
  <2> HIDE DEF bad
  <2> QED BY <1>1, <1>2, <1>3, WFMin
<1>5. \A j \in bad : ~ (j < i)
  BY <1>3, <1>4 DEF Less
<1>6. i - 1 \in 0 .. n - 1 /\ i - 1 \notin bad
  BY <1>5
<1> QED BY <1>6

LEMMA OneMore ==
  ASSUME NEW S, NEW s \in Seq(S), NEW u \in S, NEW q, NEW t
  PROVE  /\ Append(s, u) \in Seq(S)
         /\ ToSet(Append(s, u)) = ToSet(s) \cup {u}
         /\ IsLast(Append(s, u), q, t) <=> IF Id(u) = q THEN t = u ELSE IsLast(s, q, t)
<1> DEFINE a == Append(s, u)
<1>1. /\ Len(s) \in Nat /\ DOMAIN s = 1 .. Len(s) /\ DOMAIN a = 1 .. Len(s) + 1
      /\ \A i \in 1 .. Len(s) : a[i] = s[i]
      /\ a[Len(s) + 1] = u /\ a \in Seq(S)
  OBVIOUS
<1> HIDE DEF a
<1>2. ToSet(a) = ToSet(s) \cup {u}
  BY <1>1 DEF ToSet
<1>3. ASSUME Id(u) = q PROVE IsLast(a, q, t) <=> t = u
  <2>1. ASSUME IsLast(a, q, t) PROVE t = u
    BY <1>1, <1>3, <2>1 DEF IsLast
  <2>2. ASSUME t = u PROVE IsLast(a, q, t)
    <3>1. Len(s) + 1 \in DOMAIN a /\ \A j \in DOMAIN a : ~ (j > Len(s) + 1)
      BY <1>1
    <3> QED BY <1>1, <1>3, <2>2, <3>1 DEF IsLast
  <2> QED BY <2>1, <2>2
<1>4. ASSUME Id(u) # q PROVE IsLast(a, q, t) <=> IsLast(s, q, t)
  <2>1. ASSUME IsLast(a, q, t) PROVE IsLast(s, q, t)
    BY <1>1, <1>4, <2>1 DEF IsLast
  <2>2. ASSUME IsLast(s, q, t) PROVE IsLast(a, q, t)
    BY <1>1, <1>4, <2>2 DEF IsLast
  <2> QED BY <2>1, <2>2
<1> QED BY <1>1, <1>2, <1>3, <1>4 DEF a

LEMMA Concatenated ==
  ASSUME NEW S, NEW s \in Seq(S), NEW r \in Seq(S)
  PROVE  /\ s \o r \in Seq(S)
         /\ ToSet(s \o r) = ToSet(s) \cup ToSet(r)
         /\ \A q, t : IsLast(s \o r, q, t) <=>
                       \/ IsLast(r, q, t)
                       \/ (IsLast(s, q, t) /\ \A x \in ToSet(r) : Id(x) # q)
<1> DEFINE c == s \o r
<1>1. /\ Len(s) \in Nat /\ DOMAIN s = 1 .. Len(s) /\ Len(r) \in Nat /\ DOMAIN r = 1 .. Len(r)
      /\ DOMAIN c = 1 .. Len(s) + Len(r) /\ c \in Seq(S)
      /\ \A i \in 1 .. Len(s) : c[i] = s[i]
      /\ \A i \in 1 .. Len(r) : c[Len(s) + i] = r[i]
  OBVIOUS
<1> HIDE DEF c
<1>2. \A i \in DOMAIN c : i \in DOMAIN s \/ (i - Len(s) \in DOMAIN r /\ c[i] = r[i - Len(s)])
  <2>1. SUFFICES ASSUME NEW i \in DOMAIN c, i \notin DOMAIN s
                 PROVE  i - Len(s) \in DOMAIN r /\ c[i] = r[i - Len(s)]
    OBVIOUS
  <2>2. i - Len(s) \in DOMAIN r /\ Len(s) + (i - Len(s)) = i
    BY <1>1, <2>1
  <2> QED BY <1>1, <2>2
<1>3. ToSet(c) = ToSet(s) \cup ToSet(r)
  <2>1. ToSet(c) \subseteq ToSet(s) \cup ToSet(r)
    BY <1>1, <1>2 DEF ToSet
  <2>2. ToSet(s) \subseteq ToSet(c)
    BY <1>1 DEF ToSet
  <2>3. ASSUME NEW i \in DOMAIN r PROVE r[i] \in ToSet(c)
    <3>1. Len(s) + i \in DOMAIN c /\ c[Len(s) + i] = r[i]
      BY <1>1
    <3> QED BY <3>1 DEF ToSet
  <2> QED BY <2>1, <2>2, <2>3 DEF ToSet
<1>4. ASSUME NEW q, NEW t, IsLast(c, q, t)
      PROVE  IsLast(r, q, t) \/ (IsLast(s, q, t) /\ \A x \in ToSet(r) : Id(x) # q)
  <2>1. PICK i \in DOMAIN c : /\ c[i] = t /\ Id(t) = q
                              /\ \A j \in DOMAIN c : j > i => Id(c[j]) # q
    BY <1>4 DEF IsLast
  <2>2. CASE i \in DOMAIN s
    <3>1. \A j \in DOMAIN r : Id(r[j]) # q
      <4>1. SUFFICES ASSUME NEW j \in DOMAIN r PROVE Id(r[j]) # q
        OBVIOUS
      <4>2. Len(s) + j \in DOMAIN c /\ Len(s) + j > i /\ c[Len(s) + j] = r[j]
        BY <1>1, <2>2
      <4> QED BY <2>1, <4>2
    <3>2. IsLast(s, q, t)
      BY <1>1, <2>1, <2>2 DEF IsLast
    <3> QED BY <3>1, <3>2 DEF ToSet
  <2>3. CASE i \notin DOMAIN s
    <3>1. PICK k \in DOMAIN r : k = i - Len(s) /\ r[k] = t
      BY <1>2, <2>1, <2>3
    <3>2. ASSUME NEW j \in DOMAIN r, j > k PROVE Id(r[j]) # q
      <4>1. Len(s) + j \in DOMAIN c /\ Len(s) + j > i /\ c[Len(s) + j] = r[j]
        BY <1>1, <3>1, <3>2
      <4> QED BY <2>1, <4>1
    <3> QED BY <2>1, <3>1, <3>2 DEF IsLast
  <2> QED BY <2>2, <2>3
<1>5. ASSUME NEW q, NEW t, IsLast(r, q, t) PROVE IsLast(c, q, t)
  <2>1. PICK i \in DOMAIN r : /\ r[i] = t /\ Id(t) = q
                              /\ \A j \in DOMAIN r : j > i => Id(r[j]) # q
    BY <1>5 DEF IsLast
  <2>2. Len(s) + i \in DOMAIN c /\ c[Len(s) + i] = t
    BY <1>1, <2>1
  <2>3. ASSUME NEW j \in DOMAIN c, j > Len(s) + i PROVE Id(c[j]) # q
    <3>1. j - Len(s) \in DOMAIN r /\ j - Len(s) > i /\ c[j] = r[j - Len(s)]
      BY <1>1, <1>2, <2>3
    <3> QED BY <2>1, <3>1
  <2> QED BY <2>1, <2>2, <2>3 DEF IsLast
<1>6. ASSUME NEW q, NEW t, IsLast(s, q, t), \A x \in ToSet(r) : Id(x) # q PROVE IsLast(c, q, t)
  <2>1. PICK i \in DOMAIN s : /\ s[i] = t /\ Id(t) = q
                              /\ \A j \in DOMAIN s : j > i => Id(s[j]) # q
    BY <1>6 DEF IsLast
  <2>2. i \in DOMAIN c /\ c[i] = t
    BY <1>1, <2>1
  <2>3. ASSUME NEW j \in DOMAIN c, j > i PROVE Id(c[j]) # q
    <3>1. CASE j \in DOMAIN s
      BY <1>1, <2>1, <2>3, <3>1
    <3>2. CASE j \notin DOMAIN s
      BY <1>2, <1>6, <3>2 DEF ToSet
    <3> QED BY <3>1, <3>2
  <2> QED BY <2>1, <2>2, <2>3 DEF IsLast
<1> QED BY <1>1, <1>3, <1>4, <1>5, <1>6 DEF c

(* There is a last one of every id, and only one.                            *)
LEMMA LastIsUnique ==
  ASSUME NEW S, NEW s \in Seq(S), NEW q, NEW t, NEW u, IsLast(s, q, t), IsLast(s, q, u)
  PROVE  t = u
<1>1. DOMAIN s \subseteq Int
  OBVIOUS
<1>2. PICK i \in DOMAIN s : s[i] = t /\ Id(t) = q /\ \A j \in DOMAIN s : j > i => Id(s[j]) # q
  BY DEF IsLast
<1>3. PICK k \in DOMAIN s : s[k] = u /\ Id(u) = q /\ \A j \in DOMAIN s : j > k => Id(s[j]) # q
  BY DEF IsLast
<1> QED BY <1>1, <1>2, <1>3

LEMMA LastExists ==
  ASSUME NEW S, NEW s \in Seq(S), NEW x \in ToSet(s)
  PROVE  \E t \in ToSet(s) : IsLast(s, Id(x), t)
<1> DEFINE after == {k \in Nat : \A j \in DOMAIN s : j >= Len(s) - k + 1 => Id(s[j]) # Id(x)}
<1>1. Len(s) \in Nat /\ DOMAIN s = 1 .. Len(s)
  OBVIOUS
<1>2. SUFFICES ASSUME ~ \E t \in ToSet(s) : IsLast(s, Id(x), t) PROVE FALSE
  OBVIOUS
<1>3. 0 \in after
  BY <1>1
<1>4. ASSUME NEW k \in 0 .. Len(s) - 1, k \in after PROVE k + 1 \in after
  <2>1. Len(s) - k \in DOMAIN s
    BY <1>1
  <2>2. Id(s[Len(s) - k]) # Id(x)
    <3>1. SUFFICES ASSUME Id(s[Len(s) - k]) = Id(x) PROVE FALSE
      OBVIOUS
    <3>2. \A j \in DOMAIN s : j > Len(s) - k => Id(s[j]) # Id(x)
      BY <1>1, <1>4
    <3>3. IsLast(s, Id(x), s[Len(s) - k]) /\ s[Len(s) - k] \in ToSet(s)
      BY <2>1, <3>1, <3>2 DEF IsLast, ToSet
    <3> QED BY <1>2, <3>3
  <2>3. ASSUME NEW j \in DOMAIN s, j >= Len(s) - (k + 1) + 1 PROVE Id(s[j]) # Id(x)
    <3>1. j = Len(s) - k \/ j >= Len(s) - k + 1
      BY <1>1, <2>3
    <3> QED BY <1>4, <2>2, <3>1
  <2> QED BY <2>3
<1>5. Len(s) \in after
  <2> HIDE DEF after
  <2>1. \A k \in 0 .. Len(s) - 1 : k \in after => k + 1 \in after
    BY <1>4
  <2>2. \A k \in 0 .. Len(s) : k \in after
    BY <1>1, <1>3, <2>1, UpTo
  <2> QED BY <1>1, <2>2
<1> QED BY <1>1, <1>5 DEF ToSet

(* A dictionary by id has the ids of the list, each with its last line.      *)
LEMMA DictionaryOfLast ==
  ASSUME NEW S, NEW s \in Seq(S)
  PROVE  /\ DOMAIN ById(s) = {Id(x) : x \in ToSet(s)}
         /\ \A q, t : IsLast(s, q, t) => q \in DOMAIN ById(s) /\ ById(s)[q] = t.line
<1>1. DOMAIN ById(s) = {Id(x) : x \in ToSet(s)}
  BY DEF ById, ToSet
<1>2. ASSUME NEW q, NEW t, IsLast(s, q, t) PROVE q \in DOMAIN ById(s) /\ ById(s)[q] = t.line
  <2>1. PICK i \in DOMAIN s : s[i] = t /\ Id(t) = q /\ \A j \in DOMAIN s : j > i => Id(s[j]) # q
    BY <1>2 DEF IsLast
  <2>2. q \in DOMAIN ById(s)
    BY <1>1, <2>1 DEF ToSet
  <2> DEFINE places == {k \in DOMAIN s : Id(s[k]) = q}
  <2>3. places \subseteq Int /\ i \in places /\ \A k \in places : i >= k
    BY <2>1
  <2>4. Max(places) = i
    BY <2>3 DEF Max
  <2>5. ById(s)[q] = s[Max(places)].line
    BY <2>2 DEF ById
  <2> QED BY <2>1, <2>2, <2>4, <2>5
<1> QED BY <1>1, <1>2

-----------------------------------------------------------------------------
(* Joining pieces. *)

IsJoin(seqs, n, f) == f = [i \in 1 .. n |-> IF i = 1 THEN seqs[i] ELSE f[i - 1] \o seqs[i]]

(* What FlattenSeq recurses over exists for every number of pieces.          *)
LEMMA JoinExists ==
  ASSUME NEW n \in Nat, NEW seqs
  PROVE  \E f : IsJoin(seqs, n, f)
<1> DEFINE good == {m \in Nat : \E f : IsJoin(seqs, m, f)}
<1>1. 0 \in good
  <2>1. IsJoin(seqs, 0, [i \in 1 .. 0 |-> seqs[i]])
    BY DEF IsJoin
  <2> QED BY <2>1
<1>2. ASSUME NEW m \in 0 .. n - 1, m \in good PROVE m + 1 \in good
  <2>1. PICK f : IsJoin(seqs, m, f)
    BY <1>2
  <2> DEFINE b == [i \in 1 .. m + 1 |->
                     IF i = 1 THEN seqs[i] ELSE IF i = m + 1 THEN f[m] \o seqs[i] ELSE f[i]]
  <2>2. \A k \in 1 .. m : b[k] = f[k]
    BY <2>1 DEF IsJoin
  <2>3. ASSUME NEW k \in 1 .. m + 1
        PROVE  b[k] = IF k = 1 THEN seqs[k] ELSE b[k - 1] \o seqs[k]
    <3>1. CASE k = 1
      BY <3>1
    <3>2. CASE k = m + 1 /\ k # 1
      <4>1. m \in 1 .. m /\ k - 1 = m
        BY <3>2
      <4>2. b[k] = f[m] \o seqs[k]
        BY <3>2
      <4> HIDE DEF b
      <4> QED BY <2>2, <3>2, <4>1, <4>2
    <3>3. CASE k # 1 /\ k # m + 1
      <4>1. k \in 1 .. m /\ k - 1 \in 1 .. m
        BY <3>3
      <4>2. f[k] = f[k - 1] \o seqs[k]
        BY <2>1, <3>3, <4>1 DEF IsJoin
      <4> HIDE DEF b
      <4> QED BY <2>2, <3>3, <4>1, <4>2
    <3> QED BY <3>1, <3>2, <3>3
  <2>4. b = [k \in 1 .. m + 1 |-> b[k]]
    OBVIOUS
  <2> HIDE DEF b
  <2>5. IsJoin(seqs, m + 1, b)
    BY <2>3, <2>4 DEF IsJoin
  <2> QED BY <2>5
<1>3. n \in good
  <2> HIDE DEF good
  <2>1. \A m \in 0 .. n - 1 : m \in good => m + 1 \in good
    BY <1>2
  <2>2. \A m \in 0 .. n : m \in good
    BY <1>1, <2>1, UpTo
  <2> QED BY <2>2
<1> QED BY <1>3

(* The last of the first m pieces' tasks that has the id q.                  *)
LastOfPieces(seqs, m, q, t) ==
  \E i \in 1 .. m : /\ IsLast(seqs[i], q, t)
                    /\ \A j \in i + 1 .. m : \A x \in ToSet(seqs[j]) : Id(x) # q

LEMMA FlattenKeeps ==
  ASSUME NEW S, NEW n \in Nat, NEW seqs \in [1 .. n -> Seq(S)]
  PROVE  /\ FlattenSeq(seqs) \in Seq(S)
         /\ ToSet(FlattenSeq(seqs)) = UNION {ToSet(seqs[i]) : i \in 1 .. n}
         /\ \A q, t : IsLast(FlattenSeq(seqs), q, t) <=> LastOfPieces(seqs, n, q, t)
<1>1. Len(seqs) = n
  OBVIOUS
<1>2. CASE n = 0
  <2>1. FlattenSeq(seqs) = seqs /\ DOMAIN seqs = {} /\ seqs = << >>
    BY <1>1, <1>2 DEF FlattenSeq
  <2>2. ToSet(seqs) = {} /\ {ToSet(seqs[i]) : i \in 1 .. n} = {}
    BY <1>2, <2>1 DEF ToSet
  <2>3. \A q, t : ~ IsLast(seqs, q, t) /\ ~ LastOfPieces(seqs, n, q, t)
    BY <1>2, <2>1 DEF IsLast, LastOfPieces
  <2>4. seqs \in Seq(S)
    BY <2>1
  <2> QED BY <2>1, <2>2, <2>3, <2>4
<1>3. CASE n # 0
  <2> DEFINE f == CHOOSE g : IsJoin(seqs, n, g)
             Kept(m) == /\ f[m] \in Seq(S)
                        /\ ToSet(f[m]) = UNION {ToSet(seqs[i]) : i \in 1 .. m}
                        /\ \A q, t : IsLast(f[m], q, t) <=> LastOfPieces(seqs, m, q, t)
             good == {m \in 0 .. n : m = 0 \/ Kept(m)}
  <2>1. IsJoin(seqs, n, f)
    BY JoinExists
  <2>2. FlattenSeq(seqs) = f[n]
    BY <1>1, <1>3 DEF FlattenSeq, IsJoin
  <2> HIDE DEF f
  <2>3. f[1] = seqs[1] /\ \A m \in 1 .. n - 1 : f[m + 1] = f[m] \o seqs[m + 1]
    <3>1. \A i \in 1 .. n : f[i] = IF i = 1 THEN seqs[i] ELSE f[i - 1] \o seqs[i]
      BY <2>1 DEF IsJoin
    <3>2. 1 \in 1 .. n /\ \A m \in 1 .. n - 1 : m + 1 \in 1 .. n /\ m + 1 # 1 /\ (m + 1) - 1 = m
      BY <1>3
    <3> QED BY <3>1, <3>2
  <2>4. Kept(1)
    <3>1. {ToSet(seqs[i]) : i \in 1 .. 1} = {ToSet(seqs[1])}
      OBVIOUS
    <3>2. \A q, t : LastOfPieces(seqs, 1, q, t) <=> IsLast(seqs[1], q, t)
      BY DEF LastOfPieces
    <3>3. seqs[1] \in Seq(S)
      BY <1>3
    <3> QED BY <2>3, <3>1, <3>2, <3>3
  <2>5. ASSUME NEW m \in 1 .. n - 1, Kept(m) PROVE Kept(m + 1)
    <3>1. f[m + 1] = f[m] \o seqs[m + 1] /\ f[m] \in Seq(S) /\ seqs[m + 1] \in Seq(S)
      <4>1. m + 1 \in 1 .. n
        OBVIOUS
      <4>2. seqs[m + 1] \in Seq(S)
        BY <4>1
      <4>3. f[m] \in Seq(S)
        BY <2>5
      <4>4. f[m + 1] = f[m] \o seqs[m + 1]
        BY <2>3
      <4> QED BY <4>2, <4>3, <4>4
    <3>2. f[m + 1] \in Seq(S) /\ ToSet(f[m + 1]) = ToSet(f[m]) \cup ToSet(seqs[m + 1])
      BY <3>1, Concatenated
    <3>3. ToSet(f[m + 1]) = UNION {ToSet(seqs[i]) : i \in 1 .. m + 1}
      <4>1. \A i \in 1 .. m + 1 : i \in 1 .. m \/ i = m + 1
        OBVIOUS
      <4> HIDE DEF f
      <4> QED BY <2>5, <3>2, <4>1
    <3>4. ASSUME NEW q, NEW t PROVE IsLast(f[m + 1], q, t) <=> LastOfPieces(seqs, m + 1, q, t)
      <4>1. IsLast(f[m + 1], q, t) <=>
              \/ IsLast(seqs[m + 1], q, t)
              \/ (IsLast(f[m], q, t) /\ \A x \in ToSet(seqs[m + 1]) : Id(x) # q)
        BY <3>1, Concatenated
      <4>2. IsLast(f[m], q, t) <=> LastOfPieces(seqs, m, q, t)
        BY <2>5
      <4>3. LastOfPieces(seqs, m + 1, q, t) <=>
              \/ IsLast(seqs[m + 1], q, t)
              \/ (LastOfPieces(seqs, m, q, t) /\ \A x \in ToSet(seqs[m + 1]) : Id(x) # q)
        <5>1. ASSUME IsLast(seqs[m + 1], q, t) PROVE LastOfPieces(seqs, m + 1, q, t)
          BY <5>1 DEF LastOfPieces
        <5>2. ASSUME LastOfPieces(seqs, m, q, t), \A x \in ToSet(seqs[m + 1]) : Id(x) # q
              PROVE  LastOfPieces(seqs, m + 1, q, t)
          <6>1. PICK i \in 1 .. m : /\ IsLast(seqs[i], q, t)
                                    /\ \A j \in i + 1 .. m : \A x \in ToSet(seqs[j]) : Id(x) # q
            BY <5>2 DEF LastOfPieces
          <6>2. \A j \in i + 1 .. m + 1 : j \in i + 1 .. m \/ j = m + 1
            OBVIOUS
          <6>3. i \in 1 .. m + 1
            OBVIOUS
          <6> QED BY <5>2, <6>1, <6>2, <6>3 DEF LastOfPieces
        <5>3. ASSUME LastOfPieces(seqs, m + 1, q, t), ~ IsLast(seqs[m + 1], q, t)
              PROVE  LastOfPieces(seqs, m, q, t) /\ \A x \in ToSet(seqs[m + 1]) : Id(x) # q
          BY <5>3 DEF LastOfPieces
        <5> QED BY <5>1, <5>2, <5>3
      <4> QED BY <4>1, <4>2, <4>3
    <3> QED BY <3>2, <3>3, <3>4
  <2>6. \A m \in 0 .. n : m \in good
    <3>1. 0 \in good
      OBVIOUS
    <3>2. ASSUME NEW m \in 0 .. n - 1, m \in good PROVE m + 1 \in good
      <4>1. CASE m = 0
        BY <1>3, <2>4, <4>1
      <4>2. CASE m # 0
        <5>1. Kept(m) /\ m \in 1 .. n - 1
          BY <3>2, <4>2
        <5> HIDE DEF Kept
        <5>2. Kept(m + 1)
          BY <2>5, <5>1
        <5> QED BY <5>2
      <4> QED BY <4>1, <4>2
    <3> HIDE DEF good
    <3>3. \A m \in 0 .. n - 1 : m \in good => m + 1 \in good
      BY <3>2
    <3> QED BY <3>1, <3>3, UpTo
  <2>7. Kept(n)
    <3> HIDE DEF Kept
    <3>1. n \in good
      <4> HIDE DEF good
      <4> QED BY <2>6
    <3> QED BY <1>3, <3>1
  <2> QED BY <2>2, <2>7
<1> QED BY <1>2, <1>3

-----------------------------------------------------------------------------
(* The filter, the stable sort and the shards one after the other keep which *)
(* of the tasks with one id is the last.                                     *)

LEMMA OfIdsKeeps ==
  ASSUME NEW S, NEW s \in Seq(S), NEW ids
  PROVE  /\ OfIds(s, ids) \in Seq(S)
         /\ ToSet(OfIds(s, ids)) = {x \in ToSet(s) : Id(x) \in ids}
         /\ \A q \in ids : \A t : IsLast(OfIds(s, ids), q, t) <=> IsLast(s, q, t)
<1> DEFINE n == Len(s)
           pieces == [i \in DOMAIN s |-> IF Id(s[i]) \in ids THEN <<s[i]>> ELSE << >>]
<1>1. n \in Nat /\ DOMAIN s = 1 .. n /\ \A i \in 1 .. n : s[i] \in S
  OBVIOUS
<1>2. pieces \in [1 .. n -> Seq(S)] /\ OfIds(s, ids) = FlattenSeq(pieces)
  BY <1>1 DEF OfIds
<1>3. \A i \in 1 .. n : ToSet(pieces[i]) = IF Id(s[i]) \in ids THEN {s[i]} ELSE {}
  <2>1. SUFFICES ASSUME NEW i \in 1 .. n
                 PROVE  ToSet(pieces[i]) = IF Id(s[i]) \in ids THEN {s[i]} ELSE {}
    OBVIOUS
  <2>2. ToSet(<<s[i]>>) = {s[i]} /\ ToSet(<< >>) = {}
    BY DEF ToSet
  <2> QED BY <1>1, <2>2
<1>4. ASSUME NEW i \in 1 .. n, NEW q \in ids, NEW t
      PROVE  IsLast(pieces[i], q, t) <=> t = s[i] /\ Id(t) = q
  <2>1. IsLast(<<s[i]>>, q, t) <=> t = s[i] /\ Id(t) = q
    BY DEF IsLast
  <2>2. ~ IsLast(<< >>, q, t)
    BY DEF IsLast
  <2> QED BY <1>1, <2>1, <2>2
<1> HIDE DEF pieces, n
<1>5. /\ FlattenSeq(pieces) \in Seq(S)
      /\ ToSet(FlattenSeq(pieces)) = UNION {ToSet(pieces[i]) : i \in 1 .. n}
      /\ \A q, t : IsLast(FlattenSeq(pieces), q, t) <=> LastOfPieces(pieces, n, q, t)
  BY <1>1, <1>2, FlattenKeeps
<1>6. UNION {ToSet(pieces[i]) : i \in 1 .. n} = {x \in ToSet(s) : Id(x) \in ids}
  <2>1. ToSet(s) = {s[i] : i \in 1 .. n}
    BY <1>1 DEF ToSet
  <2> QED BY <1>3, <2>1
<1>7. ASSUME NEW q \in ids, NEW t PROVE LastOfPieces(pieces, n, q, t) <=> IsLast(s, q, t)
  <2>1. ASSUME NEW j \in 1 .. n
        PROVE  (\A x \in ToSet(pieces[j]) : Id(x) # q) <=> Id(s[j]) # q
    BY <1>3
  <2>2. \A i \in 1 .. n : \A j \in 1 .. n : j \in i + 1 .. n <=> j > i
    BY <1>1
  <2>3. \A i \in 1 .. n : \A j \in i + 1 .. n : j \in 1 .. n
    BY <1>1
  <2>4. ASSUME LastOfPieces(pieces, n, q, t) PROVE IsLast(s, q, t)
    BY <1>1, <1>4, <2>1, <2>2, <2>4 DEF LastOfPieces, IsLast
  <2>5. ASSUME IsLast(s, q, t) PROVE LastOfPieces(pieces, n, q, t)
    <3>1. PICK i \in 1 .. n : s[i] = t /\ Id(t) = q /\ \A j \in 1 .. n : j > i => Id(s[j]) # q
      BY <1>1, <2>5 DEF IsLast
    <3>2. IsLast(pieces[i], q, t)
      BY <1>4, <3>1
    <3>3. \A j \in i + 1 .. n : \A x \in ToSet(pieces[j]) : Id(x) # q
      BY <2>1, <2>2, <2>3, <3>1
    <3> QED BY <3>2, <3>3 DEF LastOfPieces
  <2> QED BY <2>4, <2>5
<1> QED BY <1>2, <1>5, <1>6, <1>7

LEMMA SortedKeeps ==
  ASSUME NEW S, NEW s \in Seq(S), \A x \in ToSet(s) : Id(x) \in Questions
  PROVE  /\ Sorted(s) \in Seq(S)
         /\ ToSet(Sorted(s)) = ToSet(s)
         /\ \A q, t : IsLast(Sorted(s), q, t) <=> IsLast(s, q, t)
<1> DEFINE n == Cardinality(Questions)
           pieces == [q \in Questions |-> OfIds(s, {q})]
<1>1. n \in Nat /\ Questions = 1 .. n
  BY QuestionsAssumption, FS_CardinalityType
<1>2. \A q \in Questions : /\ pieces[q] \in Seq(S)
                           /\ ToSet(pieces[q]) = {x \in ToSet(s) : Id(x) = q}
                           /\ \A t : IsLast(pieces[q], q, t) <=> IsLast(s, q, t)
  <2>1. SUFFICES ASSUME NEW q \in Questions
                 PROVE  /\ OfIds(s, {q}) \in Seq(S)
                        /\ ToSet(OfIds(s, {q})) = {x \in ToSet(s) : Id(x) = q}
                        /\ \A t : IsLast(OfIds(s, {q}), q, t) <=> IsLast(s, q, t)
    OBVIOUS
  <2>2. ToSet(OfIds(s, {q})) = {x \in ToSet(s) : Id(x) \in {q}}
    BY OfIdsKeeps
  <2>3. /\ OfIds(s, {q}) \in Seq(S)
        /\ \A p \in {q} : \A t : IsLast(OfIds(s, {q}), p, t) <=> IsLast(s, p, t)
    BY OfIdsKeeps
  <2> QED BY <2>2, <2>3
<1>3. pieces \in [1 .. n -> Seq(S)] /\ Sorted(s) = FlattenSeq(pieces)
  BY <1>1, <1>2 DEF Sorted
<1> HIDE DEF pieces, n
<1>4. /\ FlattenSeq(pieces) \in Seq(S)
      /\ ToSet(FlattenSeq(pieces)) = UNION {ToSet(pieces[i]) : i \in 1 .. n}
      /\ \A q, t : IsLast(FlattenSeq(pieces), q, t) <=> LastOfPieces(pieces, n, q, t)
  BY <1>1, <1>3, FlattenKeeps
<1>5. UNION {ToSet(pieces[i]) : i \in 1 .. n} = ToSet(s)
  BY <1>1, <1>2
<1>6. ASSUME NEW q, NEW t PROVE LastOfPieces(pieces, n, q, t) <=> IsLast(s, q, t)
  <2>1. ASSUME LastOfPieces(pieces, n, q, t) PROVE IsLast(s, q, t)
    <3>1. PICK i \in 1 .. n : IsLast(pieces[i], q, t)
      BY <2>1 DEF LastOfPieces
    <3>2. t \in ToSet(pieces[i]) /\ Id(t) = q
      BY <3>1 DEF IsLast, ToSet
    <3> QED BY <1>1, <1>2, <3>1, <3>2
  <2>2. ASSUME IsLast(s, q, t) PROVE LastOfPieces(pieces, n, q, t)
    <3>1. t \in ToSet(s) /\ Id(t) = q
      BY <2>2 DEF IsLast, ToSet
    <3>2. q \in 1 .. n /\ IsLast(pieces[q], q, t)
      BY <1>1, <1>2, <2>2, <3>1
    <3>3. \A j \in q + 1 .. n : j \in 1 .. n /\ j # q
      BY <1>1, <3>2
    <3>4. \A j \in q + 1 .. n : \A x \in ToSet(pieces[j]) : Id(x) # q
      BY <1>1, <1>2, <3>3
    <3> QED BY <3>2, <3>4 DEF LastOfPieces
  <2> QED BY <2>1, <2>2
<1> QED BY <1>3, <1>4, <1>5, <1>6

DataTyped == shards \in [1 .. Shards -> SeqOf(Records, MaxLines)]

(* A release has the tasks of the releases before it, and more.              *)
LEMMA IterRawHolds ==
  ASSUME DataTyped, NEW release \in 1 .. Shards
  PROVE  /\ IterRaw(release) \in Seq(Tasks)
         /\ ToSet(IterRaw(release)) \subseteq ToSet(IterRaw(Shards))
<1> DEFINE piece(s) == [l \in DOMAIN shards[s] |-> [record |-> shards[s][l], line |-> <<s, l>>]]
           pieces(n) == [s \in 1 .. n |-> piece(s)]
<1>1. ASSUME NEW s \in 1 .. Shards PROVE piece(s) \in Seq(Tasks)
  <2>1. shards[s] \in SeqOf(Records, MaxLines)
    BY DEF DataTyped
  <2>2. PICK m \in 0 .. MaxLines : shards[s] \in [1 .. m -> Records]
    BY <2>1 DEF SeqOf
  <2>3. \A l \in 1 .. m : <<s, l>> \in Lines
    BY ShardsAssumption DEF Lines
  <2>4. piece(s) \in [1 .. m -> Tasks]
    BY <2>2, <2>3 DEF Tasks
  <2>5. m \in Nat
    BY ShardsAssumption
  <2> HIDE DEF piece
  <2> QED BY <2>4, <2>5
<1>2. \A n : IterRaw(n) = FlattenSeq(pieces(n))
  BY DEF IterRaw
<1>3. ASSUME NEW n \in 1 .. Shards
      PROVE  /\ IterRaw(n) \in Seq(Tasks)
             /\ ToSet(IterRaw(n)) = UNION {ToSet(piece(s)) : s \in 1 .. n}
  <2>1. \A s \in 1 .. n : s \in 1 .. Shards
    BY ShardsAssumption
  <2> HIDE DEF piece
  <2>2. pieces(n) \in [1 .. n -> Seq(Tasks)] /\ n \in Nat
    BY <1>1, <2>1
  <2>3. \A s \in 1 .. n : pieces(n)[s] = piece(s)
    OBVIOUS
  <2> HIDE DEF pieces
  <2>4. /\ FlattenSeq(pieces(n)) \in Seq(Tasks)
        /\ ToSet(FlattenSeq(pieces(n))) = UNION {ToSet(pieces(n)[s]) : s \in 1 .. n}
    BY <2>2, FlattenKeeps
  <2> QED BY <1>2, <2>3, <2>4
<1>4. Shards \in 1 .. Shards /\ 1 .. release \subseteq 1 .. Shards
  BY ShardsAssumption
<1> HIDE DEF piece
<1> QED BY <1>3, <1>4

(* Whatever else is read along, and in whatever order it is kept, an id that *)
(* is asked for means the line it has in the whole release, for the command  *)
(* that reads the problems and for the one that reads the private tests.     *)
LEMMA IdsMeanOneLine ==
  ASSUME DataTyped, NEW ids
  PROVE  LET all    == ById(IterRaw(Shards))
             loaded == ById(Load(Shards, ids))
             tests  == PrivateRepository(Shards, ids)
         IN  /\ \A q \in ids \cap DOMAIN all : q \in DOMAIN loaded /\ q \in DOMAIN tests
             /\ \A q \in ids \cap DOMAIN loaded : q \in DOMAIN all /\ loaded[q] = all[q]
             /\ \A q \in ids \cap DOMAIN tests : q \in DOMAIN all /\ tests[q] = all[q]
<1> DEFINE raw    == IterRaw(Shards)
           wanted == Wanted(Shards, ids)
           loaded == Load(Shards, ids)
<1>1. Shards \in 1 .. Shards
  BY ShardsAssumption
<1>2. raw \in Seq(Tasks)
  BY <1>1, IterRawHolds
<1> HIDE DEF raw
<1>3. /\ wanted \in Seq(Tasks) /\ ToSet(wanted) \subseteq ToSet(raw)
      /\ \A q \in ids : \A t : IsLast(wanted, q, t) <=> IsLast(raw, q, t)
  <2>1. CASE ids = {}
    BY <1>2, <2>1 DEF Wanted, raw
  <2>2. CASE ids # {}
    <3>1. wanted = OfIds(raw, ids)
      BY <2>2 DEF Wanted, raw
    <3>2. ToSet(wanted) = {x \in ToSet(raw) : Id(x) \in ids}
      BY <1>2, <3>1, OfIdsKeeps
    <3>3. wanted \in Seq(Tasks) /\ \A q \in ids : \A t : IsLast(wanted, q, t) <=> IsLast(raw, q, t)
      BY <1>2, <3>1, OfIdsKeeps
    <3> QED BY <3>2, <3>3
  <2> QED BY <2>1, <2>2
<1> HIDE DEF wanted
<1>4. \A x \in ToSet(wanted) : Id(x) \in Questions
  <2>1. ToSet(wanted) \subseteq Tasks
    BY <1>3 DEF ToSet
  <2> QED BY <2>1 DEF Tasks, Records, Id
<1>5. loaded = Sorted(wanted)
  BY DEF Load, wanted
<1> HIDE DEF loaded
<1>6. /\ loaded \in Seq(Tasks)
      /\ \A q, t : IsLast(loaded, q, t) <=> IsLast(wanted, q, t)
  BY <1>3, <1>4, <1>5, SortedKeeps
<1>7. ASSUME NEW s \in Seq(Tasks), NEW q \in ids,
             \A t : IsLast(s, q, t) <=> IsLast(raw, q, t)
      PROVE  /\ q \in DOMAIN ById(s) <=> q \in DOMAIN ById(raw)
             /\ q \in DOMAIN ById(s) => ById(s)[q] = ById(raw)[q]
  <2>1. ASSUME NEW u \in Seq(Tasks) PROVE q \in DOMAIN ById(u) <=> \E t : IsLast(u, q, t)
    <3>1. ASSUME q \in DOMAIN ById(u) PROVE \E t : IsLast(u, q, t)
      <4>1. DOMAIN ById(u) = {Id(x) : x \in ToSet(u)}
        BY DictionaryOfLast
      <4>2. PICK x \in ToSet(u) : Id(x) = q
        BY <3>1, <4>1
      <4> QED BY <4>2, LastExists
    <3>2. ASSUME NEW t, IsLast(u, q, t) PROVE q \in DOMAIN ById(u)
      BY <3>2, DictionaryOfLast
    <3> QED BY <3>1, <3>2
  <2>2. q \in DOMAIN ById(s) <=> q \in DOMAIN ById(raw)
    BY <1>2, <1>7, <2>1
  <2>3. ASSUME q \in DOMAIN ById(s) PROVE ById(s)[q] = ById(raw)[q]
    <3>1. PICK t : IsLast(s, q, t)
      BY <2>1, <2>3
    <3>2. IsLast(raw, q, t)
      BY <1>7, <3>1
    <3>3. ById(s)[q] = t.line
      BY <3>1, DictionaryOfLast
    <3>4. ById(raw)[q] = t.line
      BY <1>2, <3>2, DictionaryOfLast
    <3> QED BY <3>3, <3>4
  <2> QED BY <2>2, <2>3
<1>8. \A q \in ids : /\ q \in DOMAIN ById(loaded) <=> q \in DOMAIN ById(raw)
                     /\ q \in DOMAIN ById(loaded) => ById(loaded)[q] = ById(raw)[q]
  BY <1>3, <1>6, <1>7
<1>9. \A q \in ids : /\ q \in DOMAIN ById(wanted) <=> q \in DOMAIN ById(raw)
                     /\ q \in DOMAIN ById(wanted) => ById(wanted)[q] = ById(raw)[q]
  BY <1>3, <1>7
<1> QED BY <1>8, <1>9 DEF PrivateRepository, raw, wanted, loaded

-----------------------------------------------------------------------------
(* Sampling. *)

(* The data has the tasks that were drawn, no two have one id, and there are *)
(* as many of each difficulty as were asked for.                             *)
Sampled(drawn, counts) ==
  /\ drawn \subseteq ToSet(IterRaw(Shards))
  /\ \A s, t \in drawn : Id(s) = Id(t) => s = t
  /\ \A d \in Difficulties :
       Cardinality({t \in drawn : t.record.difficulty = d}) = counts[d]

(* Whatever the shuffle puts first, a sample that is not refused has of each *)
(* difficulty as many tasks as were asked for, no two with one id, and none  *)
(* that is excluded or that the data has not.                                *)
LEMMA SampleKeeps ==
  ASSUME DataTyped, NEW release \in 1 .. Shards, NEW counts, NEW excluded,
         NEW drawn \in Samples(release, counts, excluded)
  PROVE  Sampled(drawn, counts) /\ \A t \in drawn : Id(t) \notin excluded
<1> DEFINE raw == IterRaw(release)
<1>1. raw \in Seq(Tasks) /\ ToSet(raw) \subseteq ToSet(IterRaw(Shards))
  BY IterRawHolds
<1>2. ToSet(Load(release, {})) = ToSet(raw)
  <2> HIDE DEF raw
  <2>1. Load(release, {}) = Sorted(raw)
    BY DEF Load, Wanted, raw
  <2>2. ToSet(raw) \subseteq Tasks
    BY <1>1 DEF ToSet
  <2>3. \A x \in ToSet(raw) : Id(x) \in Questions
    BY <2>2 DEF Tasks, Records, Id
  <2> QED BY <1>1, <2>1, <2>3, SortedKeeps
<1> HIDE DEF raw
<1>3. \A d : Candidates(release, d, excluded) =
               {t \in ToSet(raw) : t.record.difficulty = d /\ Id(t) \notin excluded}
  BY <1>2 DEF Candidates
<1> DEFINE firsts == [d \in Difficulties |-> kSubset(counts[d], Candidates(release, d, excluded))]
<1>4. PICK f : /\ DOMAIN f = Difficulties /\ drawn = UNION Range(f)
               /\ \A d \in Difficulties : f[d] \in firsts[d]
  BY DEF Samples, Draws
<1>5. \A d \in Difficulties : /\ f[d] \subseteq Candidates(release, d, excluded)
                              /\ Cardinality(f[d]) = counts[d]
  BY <1>4 DEF kSubset
<1> HIDE DEF firsts
<1>6. drawn = UNION {f[d] : d \in Difficulties}
  BY <1>4 DEF Range
<1>7. drawn \subseteq ToSet(raw) /\ \A t \in drawn : Id(t) \notin excluded
  BY <1>3, <1>5, <1>6
<1>8. ASSUME NEW d \in Difficulties
      PROVE  Cardinality({t \in drawn : t.record.difficulty = d}) = counts[d]
  <2>1. \A c \in Difficulties : \A t \in f[c] : t.record.difficulty = c
    BY <1>3, <1>5
  <2>2. {t \in drawn : t.record.difficulty = d} = f[d]
    BY <1>6, <2>1
  <2> QED BY <1>5, <2>2
<1>9. \A s, t \in drawn : Id(s) = Id(t) => s = t
  <2> DEFINE ids == {Id(t) : t \in drawn}
             idOf == [t \in drawn |-> Id(t)]
  <2>1. IsFiniteSet(drawn)
    <3> DEFINE places == 1 .. Len(raw)
               at == [i \in places |-> raw[i]]
    <3>1. Len(raw) \in Nat /\ ToSet(raw) = {raw[i] : i \in places}
      BY <1>1 DEF ToSet
    <3>2. IsFiniteSet(places)
      BY <3>1, FS_Interval
    <3> HIDE DEF places
    <3>3. at \in Surjection(places, ToSet(raw))
      BY <3>1 DEF Surjection
    <3> HIDE DEF at
    <3>4. IsFiniteSet(ToSet(raw))
      BY <3>2, <3>3, FS_Surjection
    <3> QED BY <1>7, <3>4, FS_Subset
  <2>2. Cardinality(ids) = Cardinality(drawn)
    BY DEF Samples
  <2>3. idOf \in Surjection(drawn, ids)
    BY DEF Surjection
  <2>4. \A t \in drawn : idOf[t] = Id(t)
    OBVIOUS
  <2> HIDE DEF ids, idOf
  <2>5. idOf \in Injection(drawn, ids)
    BY <2>1, <2>2, <2>3, FS_Surjection
  <2>6. \A s, t \in drawn : idOf[s] = idOf[t] => s = t
    BY <2>5 DEF Injection, IsInjective
  <2> QED BY <2>4, <2>6
<1> QED BY <1>1, <1>7, <1>8, <1>9 DEF Sampled

-----------------------------------------------------------------------------
(* The commands. *)

Manifest == [entries : SUBSET Tasks, counts : CountChoices, excluding : SUBSET Nat]

(* The manifest with the number i excludes what it was told to. *)
KeepsApart(i) ==
  /\ manifests[i].excluding \subseteq 1 .. i - 1
  /\ Ids(manifests[i]) \cap Exclusions = {}
  /\ \A j \in manifests[i].excluding : Ids(manifests[i]) \cap Ids(manifests[j]) = {}

(* No command has read another line for an id than the whole release has.    *)
ReadAsReleased(lines) ==
  \A q \in Questions :
    lines[q] # NoLine => /\ q \in DOMAIN ById(IterRaw(Shards))
                         /\ lines[q] = ById(IterRaw(Shards))[q]

ManifestInv ==
  /\ DataTyped
  /\ manifests \in Seq(Manifest)
  /\ \A i \in DOMAIN manifests : Sampled(manifests[i].entries, manifests[i].counts) /\ KeepsApart(i)
  /\ problem \in [Questions -> Lines \cup {NoLine}] /\ ReadAsReleased(problem)
  /\ private \in [Questions -> Lines \cup {NoLine}] /\ ReadAsReleased(private)

(* The lines of the release are lines of the shards.                         *)
LEMMA ReadsTheRelease ==
  ASSUME DataTyped, NEW lines \in [Questions -> Lines \cup {NoLine}], ReadAsReleased(lines),
         NEW ids, NEW found,
         \A q \in ids \cap DOMAIN found :
           q \in DOMAIN ById(IterRaw(Shards)) /\ found[q] = ById(IterRaw(Shards))[q]
  PROVE  /\ Reads(lines, ids, found) \in [Questions -> Lines \cup {NoLine}]
         /\ ReadAsReleased(Reads(lines, ids, found))
<1> DEFINE raw == IterRaw(Shards)
<1>1. raw \in Seq(Tasks)
  BY ShardsAssumption, IterRawHolds
<1> HIDE DEF raw
<1>2. ASSUME NEW q \in DOMAIN ById(raw) PROVE ById(raw)[q] \in Lines
  <2>1. DOMAIN ById(raw) = {Id(x) : x \in ToSet(raw)}
    BY <1>1, DictionaryOfLast
  <2>2. PICK x \in ToSet(raw) : Id(x) = q
    BY <2>1
  <2>3. PICK t \in ToSet(raw) : IsLast(raw, q, t)
    BY <1>1, <2>2, LastExists
  <2>4. ById(raw)[q] = t.line
    BY <1>1, <2>3, DictionaryOfLast
  <2>5. t \in Tasks
    BY <1>1, <2>3 DEF ToSet
  <2> QED BY <2>4, <2>5 DEF Tasks
<1>3. \A q \in ids \cap DOMAIN found : q \in DOMAIN ById(raw) /\ found[q] = ById(raw)[q]
  BY DEF raw
<1>4. \A q \in Questions : lines[q] # NoLine => q \in DOMAIN ById(raw) /\ lines[q] = ById(raw)[q]
  BY DEF ReadAsReleased, raw
<1>5. \A q \in Questions : Reads(lines, ids, found)[q] =
                             IF q \in ids \cap DOMAIN found THEN found[q] ELSE lines[q]
  BY DEF Reads
<1>6. Reads(lines, ids, found) \in [Questions -> Lines \cup {NoLine}]
  BY <1>2, <1>3 DEF Reads
<1>7. ReadAsReleased(Reads(lines, ids, found))
  BY <1>3, <1>4, <1>5 DEF ReadAsReleased, raw
<1> QED BY <1>6, <1>7

LEMMA ManifestInit == Init => ManifestInv
<1>1. SUFFICES ASSUME Init PROVE ManifestInv
  OBVIOUS
<1>2. manifests \in Seq(Manifest) /\ DOMAIN manifests = {}
  BY <1>1 DEF Init
<1> QED BY <1>1, <1>2 DEF Init, ManifestInv, DataTyped, ReadAsReleased

LEMMA ManifestNext == ManifestInv /\ [Next]_vars => ManifestInv'
<1>1. SUFFICES ASSUME ManifestInv, [Next]_vars PROVE ManifestInv'
  OBVIOUS
<1>2. CASE Prepare
  <2>1. PICK release \in 1 .. Shards, counts \in CountChoices,
             excluding \in SUBSET DOMAIN manifests :
          \E entries \in Samples(release, counts, Excluded(excluding)) :
            manifests' = Append(manifests,
              [entries |-> entries, counts |-> counts, excluding |-> excluding])
    BY <1>2 DEF Prepare
  <2>2. PICK entries \in Samples(release, counts, Excluded(excluding)) :
          manifests' = Append(manifests,
            [entries |-> entries, counts |-> counts, excluding |-> excluding])
    BY <2>1
  <2>3. UNCHANGED <<shards, problem, private>>
    BY <1>2 DEF Prepare
  <2> DEFINE n == Len(manifests)
             new == [entries |-> entries, counts |-> counts, excluding |-> excluding]
  <2>4. manifests \in Seq(Manifest) /\ n \in Nat /\ DOMAIN manifests = 1 .. n /\ DataTyped
    BY <1>1 DEF ManifestInv
  <2>5. Sampled(entries, counts) /\ \A t \in entries : Id(t) \notin Excluded(excluding)
    BY <2>4, SampleKeeps
  <2>6. new \in Manifest
    <3>1. IterRaw(Shards) \in Seq(Tasks)
      BY <2>4, ShardsAssumption, IterRawHolds
    <3>2. entries \subseteq Tasks
      BY <2>5, <3>1 DEF ToSet, Sampled
    <3>3. excluding \subseteq Nat
      BY <2>4
    <3> QED BY <3>2, <3>3 DEF Manifest
  <2>7. Sampled(new.entries, new.counts)
    BY <2>5
  <2>8. /\ new.excluding \subseteq 1 .. n
        /\ Ids(new) \cap Exclusions = {}
        /\ \A j \in new.excluding : Ids(new) \cap Ids(manifests[j]) = {}
    <3>1. Ids(new) = {Id(t) : t \in entries} /\ new.excluding = excluding
      BY DEF Ids
    <3>2. \A q \in Ids(new) : q \notin Excluded(excluding)
      BY <2>5, <3>1
    <3> HIDE DEF new
    <3> QED BY <2>4, <3>1, <3>2 DEF Excluded
  <2> HIDE DEF new
  <2>9. /\ manifests' \in Seq(Manifest) /\ DOMAIN manifests' = 1 .. n + 1
        /\ \A i \in 1 .. n : manifests'[i] = manifests[i]
        /\ manifests'[n + 1] = new
    BY <2>2, <2>4, <2>6 DEF new
  <2>10. ASSUME NEW i \in DOMAIN manifests'
         PROVE  Sampled(manifests[i].entries, manifests[i].counts)' /\ KeepsApart(i)'
    <3>1. CASE i \in 1 .. n
      <4>1. Sampled(manifests[i].entries, manifests[i].counts) /\ KeepsApart(i)
        BY <1>1, <2>4, <3>1 DEF ManifestInv
      <4>2. Sampled(manifests[i].entries, manifests[i].counts)'
        BY <2>3, <2>9, <3>1, <4>1 DEF Sampled, IterRaw
      <4>3. \A j \in manifests[i].excluding : manifests'[j] = manifests[j]
        BY <2>4, <2>9, <3>1, <4>1 DEF KeepsApart
      <4>4. KeepsApart(i)'
        BY <2>9, <3>1, <4>1, <4>3 DEF KeepsApart
      <4> QED BY <4>2, <4>4
    <3>2. CASE i = n + 1
      <4>1. Sampled(manifests[i].entries, manifests[i].counts)'
        BY <2>3, <2>7, <2>9, <3>2 DEF Sampled, IterRaw
      <4>2. \A j \in new.excluding : manifests'[j] = manifests[j]
        BY <2>8, <2>9
      <4>3. KeepsApart(i)'
        BY <2>4, <2>8, <2>9, <3>2, <4>2 DEF KeepsApart
      <4> QED BY <4>1, <4>3
    <3> QED BY <2>4, <2>9, <3>1, <3>2
  <2>11. DataTyped' /\ ReadAsReleased(problem)' /\ ReadAsReleased(private)'
    BY <1>1, <2>3 DEF ManifestInv, DataTyped, ReadAsReleased, IterRaw
  <2> QED BY <1>1, <2>3, <2>9, <2>10, <2>11 DEF ManifestInv
<1>3. ASSUME UNCHANGED <<shards, manifests>>
      PROVE  /\ DataTyped' /\ (manifests \in Seq(Manifest))'
             /\ (\A i \in DOMAIN manifests :
                   Sampled(manifests[i].entries, manifests[i].counts) /\ KeepsApart(i))'
             /\ \A lines : ReadAsReleased(lines) => ReadAsReleased(lines)'
  BY <1>1, <1>3 DEF ManifestInv, DataTyped, Sampled, KeepsApart, ReadAsReleased, IterRaw
<1>4. CASE Run
  <2>1. PICK ids \in SUBSET Ids(Last(manifests)) :
          problem' = Reads(problem, ids, ById(Load(Shards, ids)))
    BY <1>4 DEF Run
  <2>2. UNCHANGED <<shards, manifests, private>>
    BY <1>4 DEF Run
  <2>3. problem' \in [Questions -> Lines \cup {NoLine}] /\ ReadAsReleased(problem')
    BY <1>1, <2>1, IdsMeanOneLine, ReadsTheRelease DEF ManifestInv
  <2> QED BY <1>1, <1>3, <2>2, <2>3 DEF ManifestInv, ReadAsReleased, IterRaw
<1>5. CASE Evaluate
  <2>1. \E ids : private' = Reads(private, ids, PrivateRepository(Shards, ids))
    BY <1>5 DEF Evaluate
  <2>2. UNCHANGED <<shards, manifests, problem>>
    BY <1>5 DEF Evaluate
  <2>3. private' \in [Questions -> Lines \cup {NoLine}] /\ ReadAsReleased(private')
    BY <1>1, <2>1, IdsMeanOneLine, ReadsTheRelease DEF ManifestInv
  <2> QED BY <1>1, <1>3, <2>2, <2>3 DEF ManifestInv, ReadAsReleased, IterRaw
<1>6. CASE UNCHANGED vars
  BY <1>1, <1>3, <1>6 DEF ManifestInv, vars, ReadAsReleased, IterRaw
<1> QED BY <1>1, <1>2, <1>4, <1>5, <1>6 DEF Next

(* A manifest excludes only earlier ones, has what it was sampled for, and   *)
(* the lines read are those of the release: this holds in every state.       *)
THEOREM ManifestInvariance == Spec => []ManifestInv
  BY ManifestInit, ManifestNext, PTL DEF Spec

(* The data, the manifests and the lines read by cli/prepare_lcb.py,         *)
(* cli/run.py and cli/evaluate.py have their types in every state.           *)
THEOREM ManifestTyped == Spec => []TypeOK
<1>1. ManifestInv => TypeOK
  <2>1. SUFFICES ASSUME ManifestInv PROVE TypeOK
    OBVIOUS
  <2>2. \A i \in DOMAIN manifests : manifests[i] \in Manifest
    BY <2>1 DEF ManifestInv
  <2> QED BY <2>1, <2>2 DEF TypeOK, ManifestInv, DataTyped, Manifest, KeepsApart
<1> QED BY <1>1, ManifestInvariance, PTL

(* Of any number of manifests, one that was prepared with --exclude-manifest *)
(* shares no question with those it names, nor with the exclusion file.      *)
THEOREM ManifestsStayApart == Spec => []ManifestsDisjoint
<1>1. ManifestInv => ManifestsDisjoint
  BY DEF ManifestInv, KeepsApart, ManifestsDisjoint
<1> QED BY <1>1, ManifestInvariance, PTL

(* However many records the data has for an id, a manifest has no id twice,  *)
(* as many tasks of each difficulty as were asked for, and load() finds each *)
(* of its ids, whichever of them are selected.                               *)
THEOREM ManifestsCanRun == Spec => []ManifestsRunnable
<1>1. ASSUME ManifestInv PROVE ManifestsRunnable
  <2>1. SUFFICES ASSUME NEW i \in DOMAIN manifests, NEW ids \in SUBSET Ids(manifests[i])
                 PROVE  ids \subseteq DOMAIN ById(Load(Shards, ids))
    BY <1>1 DEF ManifestInv, Sampled, ManifestsRunnable
  <2>2. manifests[i].entries \subseteq ToSet(IterRaw(Shards)) /\ DataTyped
    BY <1>1, <2>1 DEF ManifestInv, Sampled
  <2>3. IterRaw(Shards) \in Seq(Tasks)
    BY <2>2, ShardsAssumption, IterRawHolds
  <2>4. DOMAIN ById(IterRaw(Shards)) = {Id(x) : x \in ToSet(IterRaw(Shards))}
    BY <2>3, DictionaryOfLast
  <2>5. ids \subseteq DOMAIN ById(IterRaw(Shards))
    BY <2>1, <2>2, <2>4 DEF Ids
  <2> QED BY <2>2, <2>5, IdsMeanOneLine
<1>2. ManifestInv => ManifestsRunnable
  BY <1>1
<1> QED BY <1>2, ManifestInvariance, PTL

(* The private tests an answer is graded on are of the record whose problem  *)
(* the agents saw, however many records share its id.                        *)
THEOREM OwnTestsGrade == Spec => []GradedOnOwnTests
<1>1. ManifestInv => GradedOnOwnTests
  BY DEF ManifestInv, ReadAsReleased, GradedOnOwnTests
<1> QED BY <1>1, ManifestInvariance, PTL
=============================================================================
