-------------------------- MODULE CandidateProofs --------------------------
(***************************************************************************)
(* What verdicts, repair, selection and the final grade say of the code,   *)
(* for any number of tests, any limits of the sandboxes and any time that  *)
(* workers and containers take to start.                                   *)
(***************************************************************************)
EXTENDS CandidateSelection, FiniteSetTheorems, SequenceTheorems, TLAPS

-----------------------------------------------------------------------------
(* Numbers. *)

LEMMA LeastOf ==
  ASSUME NEW S \in SUBSET Nat, S # {}
  PROVE  Min(S) \in S /\ \A m \in S : Min(S) <= m
<1> DEFINE Less == {p \in Nat \X Nat : p[1] < p[2]}
<1>1. IsWellFoundedOn(Less, Nat)
  BY NatLessThanWellFounded DEF OpToRel
<1> HIDE DEF Less
<1>2. PICK n \in S : \A m \in S : ~ (<<m, n>> \in Less)
  BY <1>1, WFMin
<1>3. \A m \in S : ~ (m < n)
  BY <1>2 DEF Less
<1>4. \A m \in S : n <= m
  BY <1>3
<1> QED BY <1>4 DEF Min

LEMMA OfTwo ==
  ASSUME NEW a \in Int, NEW b \in Int
  PROVE  /\ Min({a, b}) = IF a <= b THEN a ELSE b
         /\ Max({a, b}) = IF a >= b THEN a ELSE b
<1>1. \A x \in {a, b} : (\A y \in {a, b} : x <= y) <=> x = IF a <= b THEN a ELSE b
  OBVIOUS
<1>2. \A x \in {a, b} : (\A y \in {a, b} : x >= y) <=> x = IF a >= b THEN a ELSE b
  OBVIOUS
<1> QED BY <1>1, <1>2 DEF Min, Max

(* How many of n tests there can be. *)
LEMMA SomeOfThem ==
  ASSUME NEW n \in Nat, NEW S \in SUBSET (1 .. n)
  PROVE  /\ IsFiniteSet(S) /\ Cardinality(S) \in 0 .. n
         /\ Cardinality(S) = 0 <=> S = {}
<1>1. IsFiniteSet(1 .. n) /\ Cardinality(1 .. n) = n
  BY FS_Interval
<1>2. IsFiniteSet(S) /\ Cardinality(S) <= n
  BY <1>1, FS_Subset
<1>3. Cardinality(S) \in Nat
  BY <1>2, FS_CardinalityType
<1>4. Cardinality(S) = 0 <=> S = {}
  BY <1>2, FS_EmptySet
<1> QED BY <1>2, <1>3, <1>4

(* Induction up to n, on the set of the numbers that are good.               *)
LEMMA UpTo ==
  ASSUME NEW n \in Nat, NEW good, 0 \in good, \A i \in 0 .. n - 1 : i \in good => i + 1 \in good
  PROVE  \A i \in 0 .. n : i \in good
<1> DEFINE bad == {i \in 0 .. n : i \notin good}
<1>1. SUFFICES ASSUME bad # {} PROVE FALSE
  OBVIOUS
<1>2. bad \in SUBSET Nat
  OBVIOUS
<1>3. Min(bad) \in bad /\ \A j \in bad : Min(bad) <= j
  <2> HIDE DEF bad
  <2> QED BY <1>1, <1>2, LeastOf
<1>4. Min(bad) - 1 \in 0 .. n - 1 /\ Min(bad) - 1 \notin bad
  BY <1>3
<1> QED BY <1>3, <1>4

IsSum(numbers, n, f) ==
  f = [i \in 0 .. n |-> IF i = 0 THEN 0 ELSE f[i - 1] + numbers[i]]

(* What Total recurses over exists for every number of summands.             *)
LEMMA SumExists ==
  ASSUME NEW n \in Nat, NEW numbers
  PROVE  \E f : IsSum(numbers, n, f)
<1> DEFINE good == {m \in Nat : \E f : IsSum(numbers, m, f)}
<1>1. 0 \in good
  <2>1. IsSum(numbers, 0, [i \in 0 .. 0 |-> 0])
    BY DEF IsSum
  <2> QED BY <2>1
<1>2. ASSUME NEW m \in 0 .. n - 1, m \in good PROVE m + 1 \in good
  <2>1. PICK f : IsSum(numbers, m, f)
    BY <1>2
  <2> DEFINE b == [i \in 0 .. m + 1 |-> IF i = m + 1 THEN f[m] + numbers[i] ELSE f[i]]
  <2>2. \A k \in 0 .. m : b[k] = f[k]
    BY <2>1 DEF IsSum
  <2>3. ASSUME NEW k \in 0 .. m + 1 PROVE b[k] = IF k = 0 THEN 0 ELSE b[k - 1] + numbers[k]
    <3>1. CASE k = m + 1
      <4>1. k # 0 /\ k - 1 = m /\ m \in 0 .. m
        BY <3>1
      <4>2. b[k] = f[m] + numbers[k]
        BY <3>1
      <4> HIDE DEF b
      <4> QED BY <2>2, <4>1, <4>2
    <3>2. CASE k # m + 1 /\ k # 0
      <4>1. k \in 0 .. m /\ k - 1 \in 0 .. m
        BY <3>2
      <4>2. f[k] = f[k - 1] + numbers[k]
        BY <2>1, <3>2, <4>1 DEF IsSum
      <4> HIDE DEF b
      <4> QED BY <2>2, <3>2, <4>1, <4>2
    <3>3. CASE k = 0
      <4>1. 0 \in 0 .. m /\ f[0] = 0
        BY <2>1 DEF IsSum
      <4> HIDE DEF b
      <4> QED BY <2>2, <3>3, <4>1
    <3> QED BY <3>1, <3>2, <3>3
  <2>4. b = [k \in 0 .. m + 1 |-> b[k]]
    OBVIOUS
  <2> HIDE DEF b
  <2>5. IsSum(numbers, m + 1, b)
    BY <2>3, <2>4 DEF IsSum
  <2> QED BY <2>5
<1>3. n \in good
  <2> HIDE DEF good
  <2>1. \A m \in 0 .. n - 1 : m \in good => m + 1 \in good
    BY <1>2
  <2>2. \A m \in 0 .. n : m \in good
    BY <1>1, <2>1, UpTo
  <2> QED BY <2>2
<1> QED BY <1>3

(* A sum of n numbers is at most n times what each of them is at most.       *)
LEMMA TotalWithin ==
  ASSUME NEW n \in Nat, NEW numbers \in [1 .. n -> Nat]
  PROVE  /\ Total(numbers) \in Nat
         /\ \A bound \in Nat :
              (\A i \in 1 .. n : numbers[i] <= bound) => Total(numbers) <= bound * n
<1> DEFINE f == CHOOSE g : IsSum(numbers, n, g)
<1>1. IsSum(numbers, n, f)
  BY SumExists
<1>2. Total(numbers) = f[n]
  <2>1. Len(numbers) = n
    OBVIOUS
  <2> QED BY <2>1 DEF Total, IsSum
<1> HIDE DEF f
<1>3. f[0] = 0 /\ \A i \in 0 .. n - 1 : f[i + 1] = f[i] + numbers[i + 1]
  <2>1. \A i \in 0 .. n : f[i] = IF i = 0 THEN 0 ELSE f[i - 1] + numbers[i]
    BY <1>1 DEF IsSum
  <2>2. 0 \in 0 .. n /\ \A i \in 0 .. n - 1 : i + 1 \in 0 .. n /\ i + 1 # 0 /\ (i + 1) - 1 = i
    OBVIOUS
  <2> QED BY <2>1, <2>2
<1>4. f[n] \in Nat
  <2> DEFINE good == {i \in 0 .. n : f[i] \in Nat}
  <2>1. 0 \in good
    BY <1>3
  <2>2. \A i \in 0 .. n - 1 : i \in good => i + 1 \in good
    BY <1>3
  <2> HIDE DEF good
  <2>3. \A i \in 0 .. n : i \in good
    BY <2>1, <2>2, UpTo
  <2> QED BY <2>3 DEF good
<1>5. ASSUME NEW bound \in Nat, \A i \in 1 .. n : numbers[i] <= bound PROVE f[n] <= bound * n
  <2> DEFINE good == {i \in 0 .. n : f[i] \in Nat /\ f[i] <= bound * i}
  <2>1. 0 \in good
    BY <1>3
  <2>2. ASSUME NEW i \in 0 .. n - 1, i \in good PROVE i + 1 \in good
    <3>1. f[i + 1] = f[i] + numbers[i + 1] /\ numbers[i + 1] \in Nat /\ numbers[i + 1] <= bound
      BY <1>3, <1>5
    <3>2. bound * (i + 1) = bound * i + bound
      OBVIOUS
    <3> QED BY <2>2, <3>1, <3>2
  <2> HIDE DEF good
  <2>3. \A i \in 0 .. n - 1 : i \in good => i + 1 \in good
    BY <2>2
  <2>4. \A i \in 0 .. n : i \in good
    BY <2>1, <2>3, UpTo
  <2> QED BY <2>4 DEF good
<1> QED BY <1>2, <1>4, <1>5

-----------------------------------------------------------------------------
(* The checker. *)

LEMMA FailingTests ==
  ASSUME NEW n \in Nat, NEW runs \in Runs(n)
  PROVE  /\ Failing(runs) \in SUBSET (1 .. n) /\ Len(runs) = n /\ DOMAIN runs = 1 .. n
         /\ Failing(runs) # {} => /\ Min(Failing(runs)) \in Failing(runs)
                                  /\ \A i \in Failing(runs) : Min(Failing(runs)) <= i
<1>1. Failing(runs) \in SUBSET (1 .. n) /\ Len(runs) = n /\ DOMAIN runs = 1 .. n
  BY DEF Failing, Runs
<1>2. Failing(runs) \in SUBSET Nat
  BY <1>1
<1> QED BY <1>1, <1>2, LeastOf

(* The checker runs all tests, or those up to the first that is not passed.  *)
LEMMA CheckedPrefix ==
  ASSUME NEW n \in Nat, NEW runs \in Runs(n)
  PROVE  \E k \in 0 .. n :
           /\ Checked(runs) \in Runs(k)
           /\ \A i \in 1 .. k : Checked(runs)[i] = runs[i]
           /\ Failing(runs) = {} => k = n /\ Failing(Checked(runs)) = {}
           /\ Failing(runs) # {} =>
                k = Min(Failing(runs)) /\ k >= 1 /\ Failing(Checked(runs)) = {k}
<1>1. CASE Failing(runs) = {}
  <2>1. Checked(runs) = runs
    BY <1>1 DEF Checked
  <2> QED BY <1>1, <2>1
<1>2. CASE Failing(runs) # {}
  <2> DEFINE k == Min(Failing(runs))
             c == SubSeq(runs, 1, k)
  <2>1. k \in 1 .. n /\ k \in Failing(runs) /\ \A i \in Failing(runs) : k <= i
    BY <1>2, FailingTests
  <2>2. Checked(runs) = c
    BY <1>2 DEF Checked
  <2> HIDE DEF k, c
  <2>3. runs \in Seq(Behaviours) /\ Len(runs) = n
    BY DEF Runs
  <2>4. c \in [1 .. k -> Behaviours] /\ \A i \in 1 .. k : c[i] = runs[i]
    <3>1. k \in Int /\ 1 \in Int /\ \A i \in 1 .. k : runs[i] \in Behaviours
      BY <2>1, <2>3 DEF Runs
    <3>2. /\ SubSeq(runs, 1, k) \in Seq(Behaviours)
          /\ Len(SubSeq(runs, 1, k)) = IF 1 <= k THEN k - 1 + 1 ELSE 0
          /\ \A i \in 1 .. k - 1 + 1 : SubSeq(runs, 1, k)[i] = runs[1 + i - 1]
      BY <3>1, SubSeqProperties
    <3>3. Len(c) = k /\ c \in Seq(Behaviours)
      BY <2>1, <3>2 DEF c
    <3>4. \A i \in 1 .. k : i \in 1 .. k - 1 + 1 /\ 1 + i - 1 = i
      BY <3>1
    <3>5. \A i \in 1 .. k : c[i] = runs[i]
      BY <3>2, <3>4 DEF c
    <3> QED BY <3>3, <3>5
  <2>5. Failing(c) = {k}
    <3>1. \A i \in 1 .. k : i \in Failing(c) <=> i \in Failing(runs)
      BY <2>1, <2>3, <2>4 DEF Failing
    <3>2. Failing(c) \subseteq 1 .. k
      BY <2>4 DEF Failing
    <3> QED BY <2>1, <3>1, <3>2
  <2>6. c \in Runs(k) /\ k \in 0 .. n /\ k >= 1
    BY <2>1, <2>4 DEF Runs
  <2> QED BY <1>2, <2>2, <2>4, <2>5, <2>6 DEF k
<1> QED BY <1>1, <1>2

LEMMA SecondsTyped == \A b \in Behaviours : Seconds[b] \in Nat /\ (b \in Passing => Seconds[b] <= PerTestSeconds)
  BY LimitsAssumption DEF Behaviours, Passing, Seconds

LEMMA CheckerTakes ==
  ASSUME NEW n \in Nat, NEW runs \in Runs(n)
  PROVE  /\ CheckerSeconds(runs) \in Nat
         /\ Failing(runs) = {} => CheckerSeconds(runs) <= PerTestSeconds * n
<1>1. PICK k \in 0 .. n : /\ Checked(runs) \in Runs(k)
                          /\ \A i \in 1 .. k : Checked(runs)[i] = runs[i]
                          /\ Failing(runs) = {} => k = n
  BY CheckedPrefix
<1> DEFINE spent == [i \in DOMAIN Checked(runs) |-> Seconds[Checked(runs)[i]]]
<1>2. CheckerSeconds(runs) = Total(spent)
  BY DEF CheckerSeconds
<1>3. spent \in [1 .. k -> Nat]
  BY <1>1, SecondsTyped DEF Runs
<1>4. ASSUME Failing(runs) = {} PROVE \A i \in 1 .. k : spent[i] <= PerTestSeconds
  <2>1. SUFFICES ASSUME NEW i \in 1 .. k PROVE spent[i] <= PerTestSeconds
    OBVIOUS
  <2>2. Checked(runs)[i] \in Passing /\ i \in DOMAIN Checked(runs)
    BY <1>1, <1>4 DEF Failing, Runs
  <2> QED BY <2>2, SecondsTyped DEF Behaviours
<1> HIDE DEF spent
<1>5. Total(spent) \in Nat /\ \A bound \in Nat : (\A i \in 1 .. k : spent[i] <= bound) => Total(spent) <= bound * k
  BY <1>3, TotalWithin
<1> QED BY <1>1, <1>2, <1>4, <1>5, LimitsAssumption

-----------------------------------------------------------------------------
(* The worker's wall timeout. *)

LEMMA WallWithinCap ==
  ASSUME NEW n \in Nat
  PROVE  /\ WorkerWallTimeout(n) \in 0 .. MaxWorkerWallSeconds
         /\ FitsWorker(n) => PerTestSeconds * n + WorkerGraceSeconds <= WorkerWallTimeout(n)
<1> DEFINE m == IF 1 >= n THEN 1 ELSE n
           full == (PerTestSeconds + 1) * m + WorkerGraceSeconds
<1>1. Max({1, n}) = m
  BY OfTwo
<1>2. /\ PerTestSeconds \in Nat /\ WorkerGraceSeconds \in Nat /\ MaxWorkerWallSeconds \in Nat
      /\ m \in Nat /\ n <= m
  BY LimitsAssumption
<1> HIDE DEF m
<1>3. (PerTestSeconds + 1) * m \in Nat /\ PerTestSeconds * n <= (PerTestSeconds + 1) * m
  <2>1. PICK d \in Nat : m = n + d
    <3>1. m = n + (m - n) /\ m - n \in Nat
      BY <1>2
    <3> QED BY <3>1
  <2>2. (PerTestSeconds + 1) * m = PerTestSeconds * n + PerTestSeconds * d + m
    BY <1>2, <2>1
  <2>3. PerTestSeconds * d \in Nat /\ PerTestSeconds * n \in Nat
    BY <1>2
  <2> QED BY <1>2, <2>2, <2>3
<1>4. full \in Nat /\ PerTestSeconds * n + WorkerGraceSeconds <= full
  <2>1. PerTestSeconds * n \in Nat
    BY <1>2
  <2> QED BY <1>2, <1>3, <2>1
<1>5. WorkerWallTimeout(n) = Min({MaxWorkerWallSeconds, full})
  BY <1>1 DEF WorkerWallTimeout
<1> HIDE DEF full
<1>6. WorkerWallTimeout(n) = IF MaxWorkerWallSeconds <= full THEN MaxWorkerWallSeconds ELSE full
  BY <1>2, <1>4, <1>5, OfTwo
<1> QED BY <1>2, <1>4, <1>6 DEF FitsWorker

(* A program that passes every test is not cut off, unless by the cap.       *)
LEMMA PassersHaveTime ==
  ASSUME NEW n \in Nat, NEW runs \in Runs(n), Failing(runs) = {}, FitsWorker(n),
         NEW overhead \in 0 .. WorkerGraceSeconds
  PROVE  ~ CutOff(runs, overhead)
<1>1. CheckerSeconds(runs) \in Nat /\ CheckerSeconds(runs) <= PerTestSeconds * n
  BY CheckerTakes
<1>2. Len(runs) = n
  BY FailingTests
<1>3. WorkerWallTimeout(n) \in Nat /\ PerTestSeconds * n + WorkerGraceSeconds <= WorkerWallTimeout(n)
  BY WallWithinCap, LimitsAssumption
<1>4. PerTestSeconds * n \in Nat
  BY LimitsAssumption
<1> QED BY <1>1, <1>2, <1>3, <1>4, LimitsAssumption DEF CutOff

-----------------------------------------------------------------------------
(* The reports. *)

LEMMA ReportSays ==
  ASSUME NEW n \in Nat, NEW runs \in Runs(n), NEW noise \in Nat
  PROVE  LET r == Report(runs, noise)
         IN  /\ r.compiled
             /\ r.passed = IF Failing(runs) = {} THEN n ELSE Min(Failing(runs)) - 1
             /\ r.failed = IF Failing(runs) = {} THEN 0 ELSE Min(Failing(runs))
             /\ r.runtime_errors \in 0 .. n /\ r.timeouts \in 0 .. n /\ r.stderr \in BOOLEAN
             /\ Failing(runs) = {} => r.runtime_errors = 0 /\ r.timeouts = 0
             /\ r.duration = CheckerSeconds(runs) + noise
<1> DEFINE c == Checked(runs)
<1>1. PICK k \in 0 .. n :
        /\ c \in Runs(k)
        /\ Failing(runs) = {} => k = n /\ Failing(c) = {}
        /\ Failing(runs) # {} => k = Min(Failing(runs)) /\ k >= 1 /\ Failing(c) = {k}
  BY CheckedPrefix
<1> HIDE DEF c
<1>2. Len(c) = k /\ DOMAIN c = 1 .. k
  BY <1>1 DEF Runs
<1>3. ASSUME NEW b \in Behaviours \ Passing
      PROVE  Count(c, b) \in 0 .. n /\ (Failing(c) = {} => Count(c, b) = 0)
  <2> DEFINE places == {i \in DOMAIN c : c[i] = b}
  <2>1. places \in SUBSET (1 .. k) /\ places \subseteq Failing(c)
    BY <1>2, <1>3 DEF Failing
  <2>2. Count(c, b) = Cardinality(places)
    BY DEF Count
  <2> HIDE DEF places
  <2>3. Cardinality(places) \in 0 .. k /\ (Cardinality(places) = 0 <=> places = {})
    BY <2>1, SomeOfThem
  <2> QED BY <2>1, <2>2, <2>3
<1>4. /\ Count(c, "error") \in 0 .. n /\ (Failing(c) = {} => Count(c, "error") = 0)
      /\ Count(c, "late") \in 0 .. n /\ (Failing(c) = {} => Count(c, "late") = 0)
  BY <1>3 DEF Behaviours, Passing
<1>5. Cardinality(Failing(c)) = IF Failing(runs) = {} THEN 0 ELSE 1
  BY <1>1, FS_EmptySet, FS_Singleton
<1> QED BY <1>1, <1>2, <1>4, <1>5 DEF Report, c

(* Times of containers: a start, and what is left of it in time. *)
LEMMA StartsTyped ==
  /\ Starts \subseteq Nat /\ InTime \subseteq 0 .. PerTestSeconds
  /\ backend # "docker_failing" => Starts = 0 .. ContainerSeconds
<1>1. Starts \subseteq Nat
  BY BackendsAssumption, LimitsAssumption DEF Starts
<1>2. InTime \subseteq 0 .. PerTestSeconds
  <2>1. ASSUME NEW s \in InTime PROVE s \in 0 .. PerTestSeconds
    <3>1. s \in Nat /\ s <= PerTestSeconds
      BY <1>1 DEF InTime
    <3> QED BY <3>1, LimitsAssumption
  <2> QED BY <2>1
<1> QED BY <1>1, <1>2 DEF Starts

LEMMA DockerReportSays ==
  ASSUME NEW n \in Nat, NEW runs \in Runs(n), NEW first \in 0 .. PerTestSeconds,
         NEW takes \in [1 .. n -> Nat], NEW refused \in SUBSET (1 .. n)
  PROVE  LET r == DockerReport(runs, first, takes, refused)
         IN  /\ r.compiled
             /\ r.passed \in 0 .. n /\ r.failed \in 0 .. n
             /\ r.passed = n => Failing(runs) = {} /\ r.runtime_errors = 0 /\ r.timeouts = 0
             /\ r.passed # n => r.failed > 0
             /\ r.passed <= n - Cardinality(Failing(runs))
             /\ Overruns(takes) \cup refused \subseteq Failing(runs) =>
                  r.passed = n - Cardinality(Failing(runs))
             /\ r.runtime_errors \in 0 .. n /\ r.timeouts \in 0 .. n /\ r.stderr \in BOOLEAN
             /\ r.duration \in 0 .. PerTestSeconds * (n + 1)
<1> DEFINE late == Overruns(takes)
           errors == {i \in (DOMAIN runs) \ late : i \in refused \/ runs[i] = "error"}
           failed == Failing(runs) \cup late \cup refused
           taken == [i \in DOMAIN runs |-> Min({PerTestSeconds, takes[i]})]
           r == DockerReport(runs, first, takes, refused)
<1>1. DOMAIN runs = 1 .. n /\ Len(runs) = n
  BY FailingTests
<1>2. /\ late \in SUBSET (1 .. n) /\ errors \in SUBSET (1 .. n) /\ failed \in SUBSET (1 .. n)
      /\ errors \subseteq failed
  BY <1>1, FailingTests DEF Overruns, Failing, Passing
<1>3. ASSUME NEW i \in 1 .. n PROVE taken[i] \in 0 .. PerTestSeconds
  <2>1. takes[i] \in Nat /\ PerTestSeconds \in Nat
    BY LimitsAssumption
  <2> QED BY <1>1, <2>1, OfTwo
<1>4. taken \in [1 .. n -> Nat]
  BY <1>1, <1>3, LimitsAssumption
<1>5. first + Total(taken) \in 0 .. PerTestSeconds * (n + 1)
  <2> HIDE DEF taken
  <2>1. \A i \in 1 .. n : taken[i] <= PerTestSeconds
    BY <1>3, LimitsAssumption
  <2>2. Total(taken) \in Nat /\ Total(taken) <= PerTestSeconds * n
    BY <1>4, <2>1, TotalWithin, LimitsAssumption
  <2>3. PerTestSeconds * (n + 1) = PerTestSeconds * n + PerTestSeconds /\ PerTestSeconds * n \in Nat
    BY LimitsAssumption
  <2> QED BY <2>2, <2>3, LimitsAssumption
<1>6. r = [compiled |-> TRUE, passed |-> n - Cardinality(failed),
           runtime_errors |-> Cardinality(errors), timeouts |-> Cardinality(late),
           failed |-> IF failed = {} THEN 0 ELSE Min(failed), stderr |-> FALSE,
           duration |-> first + Total(taken)]
  BY <1>1 DEF DockerReport
<1>7. failed # {} => Min(failed) \in failed
  <2>1. failed \in SUBSET Nat
    BY <1>2
  <2> HIDE DEF failed
  <2> QED BY <2>1, LeastOf
<1>8. Failing(runs) \subseteq failed /\ Failing(runs) \in SUBSET (1 .. n)
      /\ (late \cup refused \subseteq Failing(runs) => failed = Failing(runs))
  BY FailingTests
<1>9. failed = {} => errors = {} /\ late = {}
  BY <1>2
<1> HIDE DEF late, errors, failed, taken, r
<1>10. /\ IsFiniteSet(failed)
       /\ Cardinality(failed) \in 0 .. n /\ (Cardinality(failed) = 0 <=> failed = {})
       /\ Cardinality(errors) \in 0 .. n /\ (Cardinality(errors) = 0 <=> errors = {})
       /\ Cardinality(late) \in 0 .. n /\ (Cardinality(late) = 0 <=> late = {})
       /\ Cardinality(Failing(runs)) \in 0 .. n
  BY <1>2, <1>8, SomeOfThem
<1>11. Cardinality(Failing(runs)) <= Cardinality(failed)
  BY <1>8, <1>10, FS_Subset
<1>12. /\ r.compiled /\ r.passed = n - Cardinality(failed)
       /\ r.runtime_errors = Cardinality(errors) /\ r.timeouts = Cardinality(late)
       /\ r.failed = (IF failed = {} THEN 0 ELSE Min(failed)) /\ r.stderr = FALSE
       /\ r.duration = first + Total(taken)
  BY <1>6
<1>13. r.failed \in 0 .. n /\ (failed # {} => r.failed > 0)
  <2>1. CASE failed = {}
    BY <1>12, <2>1
  <2>2. CASE failed # {}
    <3>1. Min(failed) \in 1 .. n
      BY <1>2, <1>7, <2>2
    <3> QED BY <1>12, <2>2, <3>1
  <2> QED BY <2>1, <2>2
<1>14. r.passed = n <=> failed = {}
  BY <1>10, <1>12
<1>15. r.passed \in 0 .. n /\ r.duration \in 0 .. PerTestSeconds * (n + 1)
  BY <1>5, <1>10, <1>12
<1>16. r.passed <= n - Cardinality(Failing(runs))
  BY <1>10, <1>11, <1>12
<1>17. late \cup refused \subseteq Failing(runs) => r.passed = n - Cardinality(Failing(runs))
  BY <1>8, <1>12
<1>18. late = Overruns(takes)
  BY DEF late
<1>19. failed = {} => Failing(runs) = {} /\ r.runtime_errors = 0 /\ r.timeouts = 0
  BY <1>8, <1>9, <1>10, <1>12
<1> QED BY <1>10, <1>12, <1>13, <1>14, <1>15, <1>16, <1>17, <1>18, <1>19 DEF r

-----------------------------------------------------------------------------
(* What a sandbox's result tells of a program. *)

Settings == backend \in Backends /\ publicTests \in Nat

(* A healthy daemon's image lets Python write its cache. *)
ImageWorks == backend = "docker" => CacheWritable

ResultTyped(result) ==
  /\ result.compiled \in BOOLEAN /\ result.stderr \in BOOLEAN
  /\ result.passed \in 0 .. publicTests /\ result.failed \in 0 .. publicTests
  /\ result.runtime_errors \in 0 .. Max({1, publicTests})
  /\ result.timeouts \in 0 .. Max({1, publicTests})
  /\ result.duration \in 0 .. LongestDuration

(* Only what solves the tests passes them all, and then without any error; a *)
(* program with the time for it does; what does not compile passes none;     *)
(* what did not pass them all has something to show for it; and no more of   *)
(* them passes than the program solves, nor less if it is measured in full.  *)
Told(program, result) ==
  /\ result.passed = publicTests /\ publicTests > 0 =>
       /\ SolvesPublic(program)
       /\ result.compiled /\ result.runtime_errors = 0 /\ result.timeouts = 0
  /\ ImageWorks /\ SolvesPublic(program) /\ HasItsTime(program) => result.passed = publicTests
  /\ ImageWorks /\ CompileStepHolds => (result.compiled <=> program.compiles)
  /\ ~ result.compiled => result.passed = 0
  /\ result.passed # publicTests =>
       ~ result.compiled \/ result.timeouts > 0 \/ result.failed > 0 \/ result.stderr
  /\ result.passed <= Solved(program)
  /\ ImageWorks /\ MeasuredInFull(program) => result.passed = Solved(program)

(* The sizes that the reports are within. *)
LEMMA Sizes ==
  ASSUME Settings
  PROVE  /\ Max({1, publicTests}) \in Nat /\ Max({1, publicTests}) >= 1
         /\ Max({1, publicTests}) >= publicTests
         /\ LongestDuration \in Nat
<1>1. Max({1, publicTests}) = IF 1 >= publicTests THEN 1 ELSE publicTests
  BY OfTwo DEF Settings
<1>2. PerTestSeconds * (publicTests + 1) \in Nat
  BY LimitsAssumption DEF Settings
<1> QED BY <1>1, <1>2, LimitsAssumption DEF Settings, LongestDuration

LEMMA SolvedTests ==
  ASSUME Settings, NEW program, program.compiles, program.runs \in Runs(publicTests)
  PROVE  LET failing == Failing(program.runs)
         IN  /\ Solved(program) \in 0 .. publicTests
             /\ failing = {} => Solved(program) = publicTests
             /\ backend = "lcb_official" /\ failing # {} => Solved(program) = Min(failing) - 1
             /\ backend # "lcb_official" => Solved(program) = publicTests - Cardinality(failing)
<1> DEFINE failing == Failing(program.runs)
<1>1. /\ failing \in SUBSET (1 .. publicTests) /\ Len(program.runs) = publicTests
      /\ failing # {} => Min(failing) \in failing
  BY FailingTests DEF Settings
<1>2. Solved(program) = IF backend = "lcb_official" /\ failing # {} THEN Min(failing) - 1
                        ELSE publicTests - Cardinality(failing)
  BY <1>1 DEF Solved
<1> HIDE DEF failing
<1>3. publicTests \in Nat
  BY DEF Settings
<1>4. Cardinality(failing) \in 0 .. publicTests /\ (failing = {} => Cardinality(failing) = 0)
  BY <1>1, <1>3, SomeOfThem
<1>5. CASE backend = "lcb_official" /\ failing # {}
  <2>1. Min(failing) \in 1 .. publicTests /\ Solved(program) = Min(failing) - 1
    BY <1>1, <1>2, <1>5
  <2>2. Solved(program) \in 0 .. publicTests
    BY <1>3, <2>1
  <2> QED BY <1>5, <2>1, <2>2 DEF failing
<1>6. CASE ~ (backend = "lcb_official" /\ failing # {})
  <2>1. Solved(program) = publicTests - Cardinality(failing)
    BY <1>2, <1>6
  <2>2. Solved(program) \in 0 .. publicTests /\ (failing = {} => Solved(program) = publicTests)
    BY <1>3, <1>4, <2>1
  <2> QED BY <1>6, <2>1, <2>2 DEF failing
<1> QED BY <1>5, <1>6

WithinSizes(result) ==
  /\ result.compiled \in BOOLEAN /\ result.stderr \in BOOLEAN
  /\ result.passed \in 0 .. publicTests /\ result.failed \in 0 .. publicTests
  /\ result.runtime_errors \in 0 .. publicTests \cup {0, 1}
  /\ result.timeouts \in 0 .. publicTests \cup {0, 1}
  /\ result.duration \in 0 .. LongestDuration

LEMMA TypedResult ==
  ASSUME Settings, NEW result, WithinSizes(result)
  PROVE  ResultTyped(result)
<1> DEFINE m == Max({1, publicTests})
<1>1. m \in Nat /\ m >= 1 /\ m >= publicTests /\ publicTests \in Nat
  BY Sizes DEF Settings
<1> HIDE DEF m
<1>2. 0 .. publicTests \subseteq 0 .. m /\ {0, 1} \subseteq 0 .. m
  BY <1>1
<1>3. result.runtime_errors \in 0 .. m /\ result.timeouts \in 0 .. m
  BY <1>2 DEF WithinSizes
<1> QED BY <1>3 DEF WithinSizes, ResultTyped, m

(* What does not compile passes no test. *)
LEMMA NoneFailing ==
  ASSUME NEW program, program.runs = << >>
  PROVE  Solved(program) = 0
<1>1. Failing(program.runs) = {} /\ Len(program.runs) = 0
  BY DEF Failing
<1>2. Cardinality({}) = 0
  BY FS_EmptySet
<1> QED BY <1>1, <1>2 DEF Solved

LEMMA SolvedCount ==
  ASSUME Settings, NEW program \in Programs(publicTests)
  PROVE  Solved(program) \in Nat
<1>1. CASE program = Uncompilable
  <2>1. program.runs = << >>
    BY <1>1 DEF Uncompilable
  <2> QED BY <2>1, NoneFailing
<1>2. CASE program # Uncompilable
  <2>1. program.compiles /\ program.runs \in Runs(publicTests)
    BY <1>2 DEF Programs
  <2> QED BY <2>1, SolvedTests DEF Settings
<1> QED BY <1>1, <1>2

LEMMA NotCompiledTold ==
  ASSUME Settings, NEW program, ~ program.compiles, program.runs = << >>
  PROVE  ResultTyped(NotCompiled) /\ Told(program, NotCompiled)
<1>1. Solved(program) = 0
  BY NoneFailing
<1> QED BY <1>1, Sizes DEF Settings, ResultTyped, Told, NotCompiled, SolvesPublic

LEMMA OfficialTold ==
  ASSUME Settings, backend = "lcb_official", NEW program, program.compiles,
         program.runs \in Runs(publicTests), NEW result \in OfficialResults(program)
  PROVE  ResultTyped(result) /\ Told(program, result)
<1> DEFINE runs == program.runs
<1>1. PICK overhead \in 0 .. WorkerGraceSeconds, noise \in 0 .. WorkerGraceSeconds :
        /\ noise <= overhead
        /\ result = IF CutOff(runs, overhead) THEN TimedOut(publicTests) ELSE Report(runs, noise)
  BY DEF OfficialResults
<1>2. publicTests \in Nat /\ noise \in Nat /\ overhead \in Nat
  BY LimitsAssumption DEF Settings
<1>3. /\ Solved(program) \in 0 .. publicTests
      /\ Failing(runs) = {} => Solved(program) = publicTests
      /\ Failing(runs) # {} => Solved(program) = Min(Failing(runs)) - 1
  BY SolvedTests
<1>4. WorkerWallTimeout(publicTests) \in 0 .. MaxWorkerWallSeconds
  BY <1>2, WallWithinCap
<1>5. LongestDuration = MaxWorkerWallSeconds
  BY DEF LongestDuration
<1>6. CASE CutOff(runs, overhead)
  <2>1. result = TimedOut(publicTests)
    BY <1>1, <1>6
  <2>2. ~ MeasuredInFull(program)
    BY <1>6 DEF MeasuredInFull, NeverCutOff
  <2>3. ~ (SolvesPublic(program) /\ HasItsTime(program))
    BY <1>2, <1>6, PassersHaveTime DEF SolvesPublic, HasItsTime
  <2>4. /\ result.compiled = TRUE /\ result.passed = 0 /\ result.runtime_errors = 0
        /\ result.timeouts = 1 /\ result.failed = 0 /\ result.stderr = TRUE
        /\ result.duration = WorkerWallTimeout(publicTests)
    BY <2>1 DEF TimedOut
  <2>5. ResultTyped(result)
    <3>1. /\ 0 \in 0 .. publicTests /\ result.runtime_errors \in {0, 1}
          /\ result.timeouts \in {0, 1} /\ result.duration \in 0 .. LongestDuration
      BY <1>2, <1>4, <1>5, <2>4
    <3>2. WithinSizes(result)
      BY <2>4, <3>1 DEF WithinSizes
    <3> QED BY <3>2, TypedResult
  <2>6. Told(program, result)
    BY <1>2, <1>3, <2>2, <2>3, <2>4 DEF Told
  <2> QED BY <2>5, <2>6
<1>7. CASE ~ CutOff(runs, overhead)
  <2>1. result = Report(runs, noise)
    BY <1>1, <1>7
  <2>2. /\ result.compiled
        /\ result.passed = (IF Failing(runs) = {} THEN publicTests ELSE Min(Failing(runs)) - 1)
        /\ result.failed = (IF Failing(runs) = {} THEN 0 ELSE Min(Failing(runs)))
        /\ result.runtime_errors \in 0 .. publicTests /\ result.timeouts \in 0 .. publicTests
        /\ result.stderr \in BOOLEAN
        /\ Failing(runs) = {} => result.runtime_errors = 0 /\ result.timeouts = 0
        /\ result.duration = CheckerSeconds(runs) + noise
    BY <1>2, <2>1, ReportSays
  <2>3. result.passed = Solved(program)
    BY <1>3, <2>2
  <2>4. result.duration \in 0 .. LongestDuration
    <3>1. CheckerSeconds(runs) \in Nat /\ Len(runs) = publicTests
      BY <1>2, CheckerTakes, FailingTests
    <3>2. ~ (overhead + CheckerSeconds(runs) > WorkerWallTimeout(publicTests))
      BY <1>7, <3>1 DEF CutOff
    <3> QED BY <1>1, <1>2, <1>4, <1>5, <2>2, <3>1, <3>2, LimitsAssumption
  <2>5. result.failed \in 0 .. publicTests /\ (Failing(runs) # {} => result.failed > 0)
    <3>1. CASE Failing(runs) = {}
      BY <1>2, <2>2, <3>1
    <3>2. CASE Failing(runs) # {}
      <4>1. Min(Failing(runs)) \in 1 .. publicTests
        BY <1>2, <3>2, FailingTests
      <4> QED BY <2>2, <3>2, <4>1
    <3> QED BY <3>1, <3>2
  <2>6. ResultTyped(result)
    <3>1. WithinSizes(result)
      BY <1>3, <2>2, <2>3, <2>4, <2>5 DEF WithinSizes
    <3> QED BY <3>1, TypedResult
  <2>7. result.passed = publicTests <=> Failing(runs) = {}
    <3>1. ASSUME Failing(runs) # {} PROVE Min(Failing(runs)) \in 1 .. publicTests
      BY <1>2, <3>1, FailingTests
    <3> QED BY <1>2, <2>2, <3>1
  <2>8. Told(program, result)
    BY <1>2, <1>3, <2>2, <2>3, <2>5, <2>7 DEF Told, SolvesPublic
  <2> QED BY <2>6, <2>8
<1> QED BY <1>6, <1>7

(* Code whose compile step failed: nobody was promised anything. *)
LEMMA CompileStepTold ==
  ASSUME Settings, backend # "lcb_official", NEW program, program.compiles,
         program.runs \in Runs(publicTests), NEW result \in CompileStepFailures
  PROVE  ResultTyped(result) /\ Told(program, result)
<1>1. publicTests \in Nat /\ backend \in {"docker", "docker_failing"}
  BY BackendsAssumption DEF Settings
<1>2. PICK timed_out \in {0, 1}, seconds \in 0 .. PerTestSeconds :
        /\ result = CompileStepFailed(timed_out, seconds)
        /\ backend = "docker_failing" \/ ~ CacheWritable \/ Starts # InTime
  <2>1. PerTestSeconds \in 0 .. PerTestSeconds
    BY LimitsAssumption
  <2>2. CASE result \in {CompileStepFailed(1, PerTestSeconds) : first \in Starts \ InTime}
    BY <2>1, <2>2
  <2>3. CASE result \in {CompileStepFailed(0, first) :
                first \in IF backend = "docker_failing" \/ ~ CacheWritable THEN InTime ELSE {}}
    BY <2>3, StartsTyped
  <2> QED BY <2>2, <2>3 DEF CompileStepFailures
<1>3. /\ result.compiled = FALSE /\ result.passed = 0 /\ result.runtime_errors = 1
      /\ result.timeouts = timed_out /\ result.failed = 0 /\ result.stderr = TRUE
      /\ result.duration = seconds
  BY <1>2 DEF CompileStepFailed, NotCompiled
<1>4. seconds \in 0 .. LongestDuration
  <2>1. PerTestSeconds * (publicTests + 1) = PerTestSeconds * publicTests + PerTestSeconds
        /\ PerTestSeconds * publicTests \in Nat
    BY <1>1, LimitsAssumption
  <2> QED BY <2>1, LimitsAssumption DEF LongestDuration
<1>5. ResultTyped(result)
  <2>1. 0 \in 0 .. publicTests /\ result.runtime_errors \in {0, 1} /\ result.timeouts \in {0, 1}
    BY <1>1, <1>3
  <2>2. WithinSizes(result)
    BY <1>3, <1>4, <2>1 DEF WithinSizes
  <2> QED BY <2>2, TypedResult
<1>6. ~ (ImageWorks /\ CompileStepHolds)
  <2>1. SUFFICES ASSUME backend = "docker", CacheWritable, ContainerSeconds <= PerTestSeconds
                 PROVE  FALSE
    BY <1>1 DEF ImageWorks, CompileStepHolds
  <2>2. Starts = InTime
    BY <2>1, StartsTyped, BackendsAssumption, LimitsAssumption DEF InTime
  <2> QED BY <1>2, <2>1, <2>2
<1>7. ~ (ImageWorks /\ HasItsTime(program)) /\ ~ (ImageWorks /\ MeasuredInFull(program))
  BY <1>1, <1>6 DEF HasItsTime, MeasuredInFull
<1>8. Solved(program) \in 0 .. publicTests
  BY SolvedTests
<1> QED BY <1>1, <1>3, <1>5, <1>6, <1>7, <1>8 DEF Told

(* The report of a run in containers. *)
LEMMA DockerReportTold ==
  ASSUME Settings, backend # "lcb_official", CacheWritable, NEW program, program.compiles,
         program.runs \in Runs(publicTests), NEW result \in DockerReports(program.runs)
  PROVE  ResultTyped(result) /\ Told(program, result)
<1> DEFINE runs == program.runs
           solved == publicTests - Cardinality(Failing(runs))
<1>1. publicTests \in Nat /\ backend \in {"docker", "docker_failing"}
  BY BackendsAssumption DEF Settings
<1>2. DOMAIN runs = 1 .. publicTests
  BY <1>1, FailingTests
<1>3. PICK first \in InTime, starts \in [DOMAIN runs -> Starts], refused \in Refusals(runs) :
        result = DockerReport(runs, first, Takes(runs, starts, refused), refused)
  BY DEF DockerReports
<1> DEFINE takes == Takes(runs, starts, refused)
<1>4. refused \in SUBSET (1 .. publicTests)
  BY <1>2, <1>3 DEF Refusals
<1>5. ASSUME NEW i \in 1 .. publicTests
      PROVE  /\ takes[i] = starts[i] + IF i \in refused THEN 0 ELSE Seconds[runs[i]]
             /\ starts[i] \in Starts /\ starts[i] \in Nat /\ Seconds[runs[i]] \in Nat
  <2>1. starts[i] \in Starts /\ runs[i] \in Behaviours
    BY <1>2 DEF Runs
  <2> QED BY <1>2, <2>1, SecondsTyped, StartsTyped DEF Takes
<1>6. takes \in [1 .. publicTests -> Nat]
  <2>1. takes = [i \in 1 .. publicTests |-> takes[i]]
    BY <1>2 DEF Takes
  <2>2. \A i \in 1 .. publicTests : takes[i] \in Nat
    BY <1>5
  <2> HIDE DEF takes
  <2> QED BY <2>1, <2>2
<1> HIDE DEF takes
<1>7. result = DockerReport(runs, first, takes, refused) /\ first \in 0 .. PerTestSeconds
  BY <1>3, StartsTyped DEF takes
<1>8. /\ result.compiled
      /\ result.passed \in 0 .. publicTests /\ result.failed \in 0 .. publicTests
      /\ result.passed = publicTests =>
           Failing(runs) = {} /\ result.runtime_errors = 0 /\ result.timeouts = 0
      /\ result.passed # publicTests => result.failed > 0
      /\ result.passed <= solved
      /\ Overruns(takes) \cup refused \subseteq Failing(runs) => result.passed = solved
      /\ result.runtime_errors \in 0 .. publicTests /\ result.timeouts \in 0 .. publicTests
      /\ result.stderr \in BOOLEAN
      /\ result.duration \in 0 .. PerTestSeconds * (publicTests + 1)
  BY <1>1, <1>4, <1>6, <1>7, DockerReportSays
<1>9. ResultTyped(result)
  <2>1. result.compiled \in BOOLEAN
    BY <1>7 DEF DockerReport
  <2>2. LongestDuration = PerTestSeconds * (publicTests + 1)
    BY DEF LongestDuration
  <2>3. WithinSizes(result)
    BY <1>8, <2>1, <2>2 DEF WithinSizes
  <2> QED BY <2>3, TypedResult
<1>10. /\ Solved(program) = solved /\ solved \in 0 .. publicTests
       /\ Failing(runs) = {} => solved = publicTests
  BY SolvedTests
<1>11. ASSUME HasItsTime(program) PROVE result.passed = solved
  <2>1. /\ backend = "docker"
        /\ \A i \in (DOMAIN runs) \ Failing(runs) : ContainerSeconds + Seconds[runs[i]] <= PerTestSeconds
    BY <1>1, <1>11 DEF HasItsTime
  <2>2. refused = {} /\ Starts = 0 .. ContainerSeconds
    BY <1>3, <2>1, StartsTyped DEF Refusals
  <2>3. ASSUME NEW i \in Overruns(takes) PROVE i \in Failing(runs)
    <3>1. i \in 1 .. publicTests /\ takes[i] > PerTestSeconds
      BY <1>6 DEF Overruns
    <3>2. takes[i] = starts[i] + Seconds[runs[i]] /\ starts[i] \in 0 .. ContainerSeconds
          /\ Seconds[runs[i]] \in Nat
      BY <1>5, <2>2, <3>1
    <3>3. ~ (ContainerSeconds + Seconds[runs[i]] <= PerTestSeconds)
      BY <3>1, <3>2, BackendsAssumption, LimitsAssumption
    <3> QED BY <1>2, <2>1, <3>1, <3>3
  <2> QED BY <1>8, <2>2, <2>3
<1> HIDE DEF solved
<1>12. MeasuredInFull(program) => HasItsTime(program)
  BY DEF MeasuredInFull
<1>13. Told(program, result)
  BY <1>1, <1>8, <1>10, <1>11, <1>12 DEF Told, SolvesPublic
<1> QED BY <1>9, <1>13

LEMMA DockerTold ==
  ASSUME Settings, backend # "lcb_official", NEW program, program.compiles,
         program.runs \in Runs(publicTests), NEW result \in DockerResults(program)
  PROVE  ResultTyped(result) /\ Told(program, result)
<1>1. result \in CompileStepFailures \/ (CacheWritable /\ result \in DockerReports(program.runs))
  BY DEF DockerResults
<1> QED BY <1>1, CompileStepTold, DockerReportTold

(* The three kinds of results together. *)
LEMMA SandboxTold ==
  ASSUME Settings, NEW program \in Programs(publicTests), NEW result \in SandboxResults(program)
  PROVE  ResultTyped(result) /\ Told(program, result)
<1>1. CASE program = Uncompilable
  <2>1. ~ program.compiles /\ program.runs = << >>
    BY <1>1 DEF Uncompilable
  <2>2. result = NotCompiled
    BY <2>1 DEF SandboxResults
  <2> QED BY <2>1, <2>2, NotCompiledTold
<1>2. CASE program # Uncompilable
  <2>1. program.compiles /\ program.runs \in Runs(publicTests)
    BY <1>2 DEF Programs
  <2>2. CASE backend = "lcb_official"
    BY <2>1, <2>2, OfficialTold DEF SandboxResults
  <2>3. CASE backend # "lcb_official"
    BY <2>1, <2>3, DockerTold DEF SandboxResults
  <2> QED BY <2>2, <2>3
<1> QED BY <1>1, <1>2

-----------------------------------------------------------------------------
(* What a verdict says of a program. *)

Judged(program, verdict) ==
  /\ verdict \in HarnessResults
  /\ verdict.passed => SolvesPublic(program) /\ verdict.pass_ratio = publicTests
  /\ publicTests > 0 /\ verdict.pass_ratio = publicTests => verdict.passed
  /\ ImageWorks /\ SolvesPublic(program) /\ HasItsTime(program) => verdict.passed
  /\ ImageWorks /\ CompileStepHolds => (verdict.compile_success <=> program.compiles)
  /\ ~ verdict.compile_success => verdict.pass_ratio = 0
  /\ ~ verdict.passed =>
       \/ ~ verdict.compile_success
       \/ verdict.timeouts > 0
       \/ verdict.failed > 0
       \/ verdict.errors # {}
  /\ verdict.pass_ratio <= Solved(program)
  /\ ImageWorks /\ MeasuredInFull(program) => verdict.pass_ratio = Solved(program)

LEMMA Judging ==
  ASSUME Settings, NEW program, NEW result, ResultTyped(result), Told(program, result)
  PROVE  Judged(program, HarnessResult(result))
<1> DEFINE v == HarnessResult(result)
<1>1. /\ v.passed = HarnessPassed(result) /\ v.pass_ratio = result.passed
      /\ v.compile_success = result.compiled /\ v.timeouts = result.timeouts
      /\ v.failed = result.failed /\ v.errors = Errors(result)
  BY DEF HarnessResult
<1>2. publicTests \in Nat
  BY DEF Settings
<1>3. HarnessPassed(result) \in BOOLEAN
  BY DEF HarnessPassed
<1>4. v \in HarnessResults
  <2>1. Errors(result) \in SUBSET {"stderr", "No public tests available"}
    BY DEF Errors
  <2> QED BY <1>3, <2>1 DEF HarnessResult, HarnessResults, ResultTyped
<1>5. HarnessPassed(result) => result.passed = publicTests /\ SolvesPublic(program)
  BY DEF HarnessPassed, Told
<1>6. publicTests > 0 /\ result.passed = publicTests => HarnessPassed(result)
  BY DEF HarnessPassed, Told
<1>7. ~ HarnessPassed(result) =>
        ~ result.compiled \/ result.timeouts > 0 \/ result.failed > 0 \/ Errors(result) # {}
  <2>1. CASE publicTests = 0
    BY <2>1 DEF Errors
  <2>2. CASE publicTests > 0
    BY <1>6, <2>2 DEF Told, Errors
  <2> QED BY <1>2, <2>1, <2>2
<1>8. /\ ImageWorks /\ SolvesPublic(program) /\ HasItsTime(program) => HarnessPassed(result)
      /\ ImageWorks /\ CompileStepHolds => (result.compiled <=> program.compiles)
      /\ ~ result.compiled => result.passed = 0
      /\ result.passed <= Solved(program)
      /\ ImageWorks /\ MeasuredInFull(program) => result.passed = Solved(program)
  BY <1>6 DEF Told, SolvesPublic
<1> HIDE DEF v
<1>9. Judged(program, v)
  BY <1>1, <1>4, <1>5, <1>6, <1>7, <1>8 DEF Judged
<1> QED BY <1>9 DEF v

(* A verdict is of the program that the sandbox was given. *)
LEMMA SandboxJudges ==
  ASSUME Settings, NEW program \in Programs(publicTests), NEW result \in SandboxResults(program)
  PROVE  Judged(program, HarnessResult(result))
  BY SandboxTold, Judging

-----------------------------------------------------------------------------
(* The ranks. *)

LEMMA VerdictTyped ==
  ASSUME NEW verdict \in HarnessResults
  PROVE  verdict.pass_ratio \in 0 .. publicTests /\ verdict.compile_success \in BOOLEAN
<1> DEFINE most == Max({1, publicTests})
           longest == LongestDuration
<1>1. verdict \in
        [ passed : BOOLEAN, pass_ratio : 0 .. publicTests, compile_success : BOOLEAN,
          runtime_errors : 0 .. most, timeouts : 0 .. most, duration : 0 .. longest,
          failed : 0 .. publicTests, errors : SUBSET {"stderr", "No public tests available"} ]
  BY DEF HarnessResults
<1> HIDE DEF most, longest
<1> QED BY <1>1

LEMMA RanksCompared ==
  ASSUME Settings, NEW a \in HarnessResults, NEW b \in HarnessResults
  PROVE  /\ a.pass_ratio > b.pass_ratio => Beats(Rank(a), Rank(b))
         /\ Beats(Rank(a), Rank(b)) => a.pass_ratio >= b.pass_ratio
         /\ a.pass_ratio = b.pass_ratio /\ a.compile_success /\ ~ b.compile_success =>
              Beats(Rank(a), Rank(b))
         /\ Beats(Rank(a), Rank(b)) /\ a.pass_ratio = b.pass_ratio /\ b.compile_success =>
              a.compile_success
<1> DEFINE ra == Rank(a)
           rb == Rank(b)
<1>1. /\ ra[1] = a.pass_ratio /\ ra[2] = IF a.compile_success THEN 1 ELSE 0
      /\ rb[1] = b.pass_ratio /\ rb[2] = IF b.compile_success THEN 1 ELSE 0
      /\ DOMAIN ra = 1 .. 5
  BY DEF Rank
<1>2. /\ a.pass_ratio \in Int /\ b.pass_ratio \in Int
      /\ a.compile_success \in BOOLEAN /\ b.compile_success \in BOOLEAN
  BY VerdictTyped DEF Settings
<1> HIDE DEF ra, rb
<1>3. Beats(ra, rb) <=> \E i \in 1 .. 5 : ra[i] > rb[i] /\ \A j \in 1 .. i - 1 : ra[j] = rb[j]
  BY <1>1 DEF Beats
<1>4. ra[1] > rb[1] => Beats(ra, rb)
  <2>1. 1 \in 1 .. 5 /\ 1 .. 1 - 1 = {}
    OBVIOUS
  <2> QED BY <1>3, <2>1
<1>5. ra[1] = rb[1] /\ ra[2] > rb[2] => Beats(ra, rb)
  <2>1. 2 \in 1 .. 5 /\ 1 .. 2 - 1 = {1}
    OBVIOUS
  <2> QED BY <1>3, <2>1
<1>6. ASSUME Beats(ra, rb) PROVE ra[1] > rb[1] \/ (ra[1] = rb[1] /\ (ra[2] > rb[2] \/ ra[2] = rb[2]))
  <2>1. PICK i \in 1 .. 5 : ra[i] > rb[i] /\ \A j \in 1 .. i - 1 : ra[j] = rb[j]
    BY <1>3, <1>6
  <2>2. CASE i = 1
    BY <2>1, <2>2
  <2>3. CASE i = 2
    <3>1. 1 \in 1 .. i - 1
      BY <2>3
    <3> QED BY <2>1, <2>3, <3>1
  <2>4. CASE i > 2
    <3>1. 1 \in 1 .. i - 1 /\ 2 \in 1 .. i - 1
      BY <2>4
    <3> QED BY <2>1, <3>1
  <2> QED BY <2>2, <2>3, <2>4
<1>7. /\ ra[1] > rb[1] => Beats(ra, rb)
      /\ Beats(ra, rb) => a.pass_ratio >= b.pass_ratio
      /\ a.pass_ratio = b.pass_ratio /\ a.compile_success /\ ~ b.compile_success => Beats(ra, rb)
      /\ Beats(ra, rb) /\ a.pass_ratio = b.pass_ratio /\ b.compile_success => a.compile_success
  BY <1>1, <1>2, <1>4, <1>5, <1>6
<1> QED BY <1>1, <1>7 DEF ra, rb

-----------------------------------------------------------------------------
(* The inductive invariant: every verdict is one of the code it is kept      *)
(* beside, repair follows a verdict that is not a pass, what is frozen is    *)
(* a draft that passed or what the selector took, and the grade is that of   *)
(* the frozen code.                                                          *)

Finals ==
  \/ final = initial /\ initialResult # None /\ initialResult.passed
  \/ repairedResult # None /\ final = Selected

(* A verdict stays one of its code while neither they nor the tests change.  *)
LEMMA JudgedInitially ==
  ASSUME UNCHANGED <<backend, publicTests, initial>>, NEW verdict,
         Judged(initial, verdict), initialResult' = verdict
  PROVE  Judged(initial, initialResult)'
  BY DEF Judged, HarnessResults, LongestDuration, SolvesPublic, ImageWorks, HasItsTime,
         CompileStepHolds, Solved, MeasuredInFull

LEMMA JudgedRepaired ==
  ASSUME UNCHANGED <<backend, publicTests, repaired>>, NEW verdict,
         Judged(repaired, verdict), repairedResult' = verdict
  PROVE  Judged(repaired, repairedResult)'
  BY DEF Judged, HarnessResults, LongestDuration, SolvesPublic, ImageWorks, HasItsTime,
         CompileStepHolds, Solved, MeasuredInFull

(* Its parts: the code, the verdicts, the order of the steps, the grade.      *)
CodeInv ==
  /\ backend \in Backends /\ publicTests \in 0 .. MaxPublicTests
  /\ initial \in {None} \cup Programs(publicTests)
  /\ repaired \in {None} \cup Programs(publicTests)

VerdictInv ==
  /\ initialResult # None => initial # None /\ Judged(initial, initialResult)
  /\ repairedResult # None => repaired # None /\ Judged(repaired, repairedResult)

OrderInv ==
  /\ repaired # None => initialResult # None /\ ~ initialResult.passed
  /\ final # None => Finals
  /\ final = None => grade = None

GradeInv ==
  grade # None =>
    \E private \in PrivateRuns, overhead \in 0 .. WorkerGraceSeconds :
      grade = [passed |-> FinalPassed(final, private, overhead), private |-> private]

CandInv == CodeInv /\ VerdictInv /\ OrderInv /\ GradeInv

LEMMA CandInit == Init => CandInv
  BY DEF Init, CandInv, CodeInv, VerdictInv, OrderInv, GradeInv

LEMMA VerdictStays ==
  ASSUME VerdictInv, UNCHANGED <<backend, publicTests>>,
         initialResult = None \/ UNCHANGED initial, UNCHANGED initialResult,
         repairedResult = None \/ UNCHANGED repaired, UNCHANGED repairedResult
  PROVE  VerdictInv'
<1>1. initialResult' # None => (initial # None /\ Judged(initial, initialResult))'
  BY JudgedInitially DEF VerdictInv
<1>2. repairedResult' # None => (repaired # None /\ Judged(repaired, repairedResult))'
  BY JudgedRepaired DEF VerdictInv
<1> QED BY <1>1, <1>2 DEF VerdictInv

LEMMA CandNext == CandInv /\ [Next]_vars => CandInv'
<1> SUFFICES ASSUME CandInv, [Next]_vars PROVE CandInv'
  OBVIOUS
<1> USE DEF CandInv
<1>0. Settings
  BY TestsAssumption DEF CodeInv, Settings
<1>1. CASE DirectCoder
  <2>1. initialResult = None /\ repairedResult = None /\ repaired = None /\ final = None
    BY <1>1 DEF DirectCoder, VerdictInv, OrderInv, Finals
  <2>2. CodeInv'
    BY <1>1 DEF DirectCoder, CodeInv
  <2>3. VerdictInv'
    BY <1>1, <2>1, VerdictStays DEF DirectCoder
  <2>4. OrderInv' /\ GradeInv'
    BY <1>1, <2>1 DEF DirectCoder, OrderInv, GradeInv
  <2> QED BY <2>2, <2>3, <2>4
<1>2. CASE PublicHarnessInitial
  <2>1. repaired = None /\ repairedResult = None /\ final = None
    BY <1>2 DEF PublicHarnessInitial, VerdictInv, OrderInv, Finals
  <2>2. CodeInv'
    BY <1>2 DEF PublicHarnessInitial, CodeInv
  <2>3. PICK result \in SandboxResults(initial) : initialResult' = HarnessResult(result)
    BY <1>2 DEF PublicHarnessInitial
  <2>4. Judged(initial, HarnessResult(result))
    BY <1>0, <1>2, SandboxJudges DEF PublicHarnessInitial, CodeInv
  <2>5. Judged(initial, initialResult)'
    BY <1>2, <2>3, <2>4, JudgedInitially DEF PublicHarnessInitial
  <2>6. VerdictInv'
    BY <1>2, <2>1, <2>5 DEF PublicHarnessInitial, VerdictInv
  <2>7. OrderInv' /\ GradeInv'
    BY <1>2, <2>1 DEF PublicHarnessInitial, OrderInv, GradeInv
  <2> QED BY <2>2, <2>6, <2>7
<1>3. CASE FreezeInitial
  <2>1. CodeInv'
    BY <1>3 DEF FreezeInitial, CodeInv
  <2>2. VerdictInv'
    BY <1>3, VerdictStays DEF FreezeInitial
  <2>3. OrderInv'
    BY <1>3 DEF FreezeInitial, OrderInv, Finals
  <2>4. GradeInv'
    BY <1>3 DEF FreezeInitial, OrderInv, GradeInv
  <2> QED BY <2>1, <2>2, <2>3, <2>4
<1>4. CASE SameCoderRepair
  <2>1. repairedResult = None /\ final = None
    BY <1>4 DEF SameCoderRepair, VerdictInv, OrderInv, Finals
  <2>2. CodeInv'
    BY <1>4 DEF SameCoderRepair, CodeInv
  <2>3. VerdictInv'
    BY <1>4, <2>1, VerdictStays DEF SameCoderRepair
  <2>4. OrderInv' /\ GradeInv'
    BY <1>4, <2>1 DEF SameCoderRepair, OrderInv, GradeInv
  <2> QED BY <2>2, <2>3, <2>4
<1>5. CASE PublicHarnessRepaired
  <2>1. final = None
    BY <1>5 DEF PublicHarnessRepaired, OrderInv, Finals
  <2>2. CodeInv'
    BY <1>5 DEF PublicHarnessRepaired, CodeInv
  <2>3. PICK result \in SandboxResults(repaired) : repairedResult' = HarnessResult(result)
    BY <1>5 DEF PublicHarnessRepaired
  <2>4. Judged(repaired, HarnessResult(result))
    BY <1>0, <1>5, SandboxJudges DEF PublicHarnessRepaired, CodeInv
  <2>5. Judged(repaired, repairedResult)'
    BY <1>5, <2>3, <2>4, JudgedRepaired DEF PublicHarnessRepaired
  <2>6. initialResult' # None => (initial # None /\ Judged(initial, initialResult))'
    BY <1>5, JudgedInitially DEF PublicHarnessRepaired, VerdictInv
  <2>7. VerdictInv'
    BY <1>5, <2>5, <2>6 DEF PublicHarnessRepaired, VerdictInv
  <2>8. OrderInv' /\ GradeInv'
    BY <1>5, <2>1 DEF PublicHarnessRepaired, OrderInv, GradeInv
  <2> QED BY <2>2, <2>7, <2>8
<1>6. CASE FreezeSelected
  <2>1. CodeInv'
    BY <1>6 DEF FreezeSelected, CodeInv
  <2>2. VerdictInv'
    BY <1>6, VerdictStays DEF FreezeSelected
  <2>3. OrderInv'
    BY <1>6 DEF FreezeSelected, OrderInv, Finals, Selected
  <2>4. GradeInv'
    BY <1>6 DEF FreezeSelected, OrderInv, GradeInv
  <2> QED BY <2>1, <2>2, <2>3, <2>4
<1>7. CASE EvaluateFrozenRun
  <2>1. CodeInv'
    BY <1>7 DEF EvaluateFrozenRun, CodeInv
  <2>2. VerdictInv'
    BY <1>7, VerdictStays DEF EvaluateFrozenRun
  <2>3. OrderInv'
    BY <1>7 DEF EvaluateFrozenRun, OrderInv, Finals, Selected
  <2>4. GradeInv'
    BY <1>7 DEF EvaluateFrozenRun, GradeInv
  <2> QED BY <2>1, <2>2, <2>3, <2>4
<1>8. CASE UNCHANGED vars
  <2>1. VerdictInv'
    BY <1>8, VerdictStays DEF vars
  <2> QED BY <1>8, <2>1 DEF vars, CodeInv, OrderInv, GradeInv, Finals, Selected
<1> QED BY <1>1, <1>2, <1>3, <1>4, <1>5, <1>6, <1>7, <1>8 DEF Next

(* The verdicts, the answer and the grade are of the right code at every     *)
(* step of B1's nodes (selector.py and the harness, with the sandboxes).     *)
THEOREM CandidateInvariance == Spec => []CandInv
<1>1. Init => CandInv
  BY CandInit
<1>2. CandInv /\ [Next]_vars => CandInv'
  BY CandNext
<1> QED BY <1>1, <1>2, PTL DEF Spec

-----------------------------------------------------------------------------
(* The properties. *)

LEMMA GradedJudged ==
  ASSUME CandInv, NEW candidate \in Graded
  PROVE  Judged(candidate[1], candidate[2])
  BY DEF CandInv, VerdictInv, Graded

(* The code that is frozen is the draft, or the repaired code of a draft     *)
(* that did not pass; which of them, the two verdicts decide.                *)
LEMMA FrozenOf ==
  ASSUME CandInv, final # None
  PROVE  /\ Judged(initial, initialResult) /\ initial \in Programs(publicTests) /\ initial # None
         /\ \/ initialResult.passed /\ final = initial /\ repaired = None
            \/ /\ ~ initialResult.passed /\ repaired \in Programs(publicTests) /\ repaired # None
               /\ Judged(repaired, repairedResult) /\ repairedResult # None /\ final = Selected
  BY DEF CandInv, CodeInv, VerdictInv, OrderInv, Finals

(* What passes all of the public tests and then the private ones. *)
LEMMA AllTests ==
  ASSUME NEW n \in Nat, NEW m \in Nat, NEW public \in Runs(n), NEW private \in Runs(m)
  PROVE  /\ public \o private \in Runs(n + m)
         /\ Failing(public \o private) = {} => Failing(public) = {}
<1>1. public \in Seq(Behaviours) /\ private \in Seq(Behaviours) /\ Len(public) = n /\ Len(private) = m
  BY DEF Runs
<1>2. /\ public \o private \in Seq(Behaviours) /\ Len(public \o private) = n + m
      /\ \A i \in 1 .. n + m :
           (public \o private)[i] = IF i <= n THEN public[i] ELSE private[i - n]
  BY <1>1, ConcatProperties
<1>3. public \o private \in Runs(n + m)
  <2>1. \A s \in Seq(Behaviours) : s \in [1 .. Len(s) -> Behaviours]
    OBVIOUS
  <2> QED BY <1>2, <2>1 DEF Runs
<1>4. ASSUME NEW i \in Failing(public) PROVE i \in Failing(public \o private)
  <2>1. i \in 1 .. n /\ public[i] \notin Passing
    BY <1>1 DEF Failing
  <2>2. i \in 1 .. n + m /\ (public \o private)[i] = public[i]
    BY <1>2, <2>1
  <2> QED BY <1>3, <2>1, <2>2 DEF Failing, Runs
<1> QED BY <1>3, <1>4

LEMMA CandTyped == CandInv => TypeOK
<1> SUFFICES ASSUME CandInv PROVE TypeOK
  OBVIOUS
<1>1. backend \in Backends /\ publicTests \in 0 .. MaxPublicTests
  BY DEF CandInv, CodeInv
<1>2. {initialResult, repairedResult} \subseteq {None} \cup HarnessResults
  BY DEF CandInv, VerdictInv, Judged
<1>3. {initial, repaired, final} \subseteq {None} \cup Programs(publicTests)
  BY FrozenOf DEF CandInv, CodeInv, Selected
<1>4. grade = None \/ grade \in [passed : BOOLEAN, private : PrivateRuns]
  <2>1. \A program, private, overhead : FinalPassed(program, private, overhead) \in BOOLEAN
    BY DEF FinalPassed
  <2> QED BY <2>1 DEF CandInv, GradeInv
<1> QED BY <1>1, <1>2, <1>3, <1>4 DEF TypeOK

LEMMA CandReason == CandInv => RepairHasReason
  BY DEF CandInv, OrderInv, VerdictInv, Judged, RepairHasReason

LEMMA CandVerdicts == CandInv /\ ImageWorks => VerdictExact
<1> SUFFICES ASSUME CandInv, ImageWorks, NEW candidate \in Graded
             PROVE  /\ candidate[2].passed => SolvesPublic(candidate[1])
                    /\ SolvesPublic(candidate[1]) /\ HasItsTime(candidate[1]) => candidate[2].passed
  BY DEF VerdictExact
<1> QED BY GradedJudged DEF Judged

LEMMA CandBest == CandInv /\ ImageWorks => FrozenCodeIsBest
<1> SUFFICES ASSUME CandInv, ImageWorks, final # None PROVE FrozenCodeIsBest
  BY DEF FrozenCodeIsBest
<1>1. Settings
  BY TestsAssumption DEF CandInv, CodeInv, Settings
<1>2. CASE initialResult.passed /\ final = initial /\ repaired = None
  <2>1. {initial, repaired} \ {None} = {initial}
    BY <1>2, FrozenOf
  <2>2. Solved(final) >= Solved(initial)
    <3>1. Solved(initial) \in Nat
      BY <1>1, FrozenOf, SolvedCount
    <3> QED BY <1>2, <3>1
  <2> QED BY <1>2, <2>1, <2>2 DEF FrozenCodeIsBest
<1>3. CASE /\ ~ initialResult.passed /\ repaired # None /\ repaired \in Programs(publicTests)
           /\ Judged(repaired, repairedResult) /\ final = Selected
  <2>1. {initial, repaired} \ {None} = {initial, repaired}
    BY <1>3, FrozenOf
  <2>2. final = IF Beats(Rank(repairedResult), Rank(initialResult)) THEN repaired ELSE initial
    BY <1>3 DEF Selected
  <2>3. Judged(initial, initialResult) /\ Judged(repaired, repairedResult)
    BY <1>3, FrozenOf
  <2>4. /\ initialResult.pass_ratio \in 0 .. publicTests /\ repairedResult.pass_ratio \in 0 .. publicTests
        /\ initialResult.compile_success \in BOOLEAN /\ repairedResult.compile_success \in BOOLEAN
        /\ publicTests \in Nat
    BY <1>1, <2>3, VerdictTyped DEF Judged, Settings
  <2>5. /\ repairedResult.pass_ratio > initialResult.pass_ratio => final = repaired
        /\ final = repaired \/ final = initial
        /\ final # initial => repairedResult.pass_ratio >= initialResult.pass_ratio
        /\ repairedResult.pass_ratio = initialResult.pass_ratio /\ repairedResult.compile_success
             /\ ~ initialResult.compile_success => final = repaired
        /\ final # initial /\ repairedResult.pass_ratio = initialResult.pass_ratio
             /\ initialResult.compile_success => repairedResult.compile_success
    BY <1>1, <2>2, <2>3, RanksCompared DEF Judged
  <2>6. ASSUME CompileStepHolds, initial.compiles \/ repaired.compiles
        PROVE  final.compiles
    <3>1. /\ initialResult.compile_success <=> initial.compiles
          /\ repairedResult.compile_success <=> repaired.compiles
          /\ ~ initialResult.compile_success => initialResult.pass_ratio = 0
          /\ ~ repairedResult.compile_success => repairedResult.pass_ratio = 0
      BY <2>3, <2>6 DEF Judged
    <3> QED BY <2>4, <2>5, <2>6, <3>1
  <2>7. ASSUME NEW program \in {initial, repaired}, SolvesPublic(program), HasItsTime(program)
        PROVE  SolvesPublic(final)
    <3>1. ~ (SolvesPublic(initial) /\ HasItsTime(initial))
      BY <1>3, <2>3 DEF Judged
    <3>2. repairedResult.passed
      BY <2>3, <2>7, <3>1 DEF Judged
    <3>3. SolvesPublic(repaired) /\ repairedResult.pass_ratio = publicTests /\ publicTests > 0
      BY <2>3, <3>2 DEF Judged, SolvesPublic
    <3>4. initialResult.pass_ratio # publicTests
      BY <1>3, <2>3, <3>3 DEF Judged
    <3> QED BY <2>4, <2>5, <3>3, <3>4
  <2>8. ASSUME NEW program \in {initial, repaired}, MeasuredInFull(program)
        PROVE  Solved(final) >= Solved(program)
    <3>1. Solved(initial) \in Nat /\ Solved(repaired) \in Nat
      BY <1>1, <1>3, FrozenOf, SolvedCount
    <3>2. /\ initialResult.pass_ratio <= Solved(initial) /\ repairedResult.pass_ratio <= Solved(repaired)
          /\ program = initial => initialResult.pass_ratio = Solved(initial)
          /\ program = repaired => repairedResult.pass_ratio = Solved(repaired)
      BY <2>3, <2>8 DEF Judged
    <3> QED BY <2>4, <2>5, <2>8, <3>1, <3>2
  <2> QED BY <2>1, <2>5, <2>6, <2>7, <2>8 DEF FrozenCodeIsBest
<1> QED BY <1>2, <1>3, FrozenOf

LEMMA CandGrades == CandInv => CorrectCodeIsNeverCutOff /\ (ImageWorks => GradeAgreesWithHarness)
<1> SUFFICES ASSUME CandInv, grade # None, final.compiles
             PROVE  /\ CorrectCodeIsNeverCutOff
                    /\ ImageWorks /\ grade.passed => GradeAgreesWithHarness
  <2>1. CandInv /\ grade # None /\ grade.passed => final.compiles
    <3> SUFFICES ASSUME CandInv, grade # None, grade.passed PROVE final.compiles
      OBVIOUS
    <3>1. PICK private \in PrivateRuns, overhead \in 0 .. WorkerGraceSeconds :
            grade = [passed |-> FinalPassed(final, private, overhead), private |-> private]
      BY DEF CandInv, GradeInv
    <3>2. FinalPassed(final, private, overhead)
      BY <3>1
    <3> QED BY <3>2 DEF FinalPassed
  <2> QED BY <2>1 DEF CorrectCodeIsNeverCutOff, GradeAgreesWithHarness
<1>1. Settings /\ final # None
  BY TestsAssumption DEF CandInv, CodeInv, OrderInv, Settings
<1>2. final \in Programs(publicTests)
  BY <1>1, FrozenOf DEF Selected
<1>3. final.runs \in Runs(publicTests)
  <2>1. final # Uncompilable
    BY DEF Uncompilable
  <2> QED BY <1>2, <2>1 DEF Programs
<1>4. PICK private \in PrivateRuns, overhead \in 0 .. WorkerGraceSeconds :
        grade = [passed |-> FinalPassed(final, private, overhead), private |-> private]
  BY DEF CandInv, GradeInv
<1>5. PICK m \in 0 .. MaxPrivateTests : private \in Runs(m)
  BY DEF PrivateRuns
<1> DEFINE runs == final.runs \o private
<1>6. /\ publicTests \in Nat /\ m \in Nat /\ publicTests + m \in Nat
      /\ runs \in Runs(publicTests + m) /\ Len(runs) = publicTests + m /\ Len(private) = m
      /\ Failing(runs) = {} => Failing(final.runs) = {}
  <2>1. publicTests \in Nat /\ m \in Nat
    BY <1>1, <1>5, TestsAssumption DEF Settings
  <2>2. runs \in Runs(publicTests + m) /\ (Failing(runs) = {} => Failing(final.runs) = {})
    BY <1>3, <1>5, <2>1, AllTests
  <2> QED BY <1>5, <2>1, <2>2 DEF Runs
<1>7. grade.passed = FinalPassed(final, private, overhead) /\ grade.private = private
  BY <1>4
<1>8. CorrectCodeIsNeverCutOff
  <2> SUFFICES ASSUME runs # << >>, Failing(runs) = {}, FitsWorker(Len(runs)) PROVE grade.passed
    BY <1>7 DEF CorrectCodeIsNeverCutOff
  <2>1. ~ CutOff(runs, overhead)
    BY <1>6, PassersHaveTime
  <2> QED BY <1>7, <2>1 DEF FinalPassed
<1>9. ASSUME ImageWorks, grade.passed PROVE GradeAgreesWithHarness
  <2>1. runs # << >> /\ Failing(runs) = {}
    BY <1>7, <1>9 DEF FinalPassed
  <2>2. publicTests + m > 0
    BY <1>6, <2>1
  <2>3. ASSUME publicTests > 0, HasItsTime(final)
        PROVE  \E candidate \in Graded : candidate[1] = final /\ candidate[2].passed
    <3>1. SolvesPublic(final)
      BY <1>6, <2>1, <2>3 DEF SolvesPublic
    <3>2. \E candidate \in Graded : candidate[1] = final
      <4>1. initialResult # None
        BY <1>1 DEF CandInv, OrderInv, VerdictInv, Finals
      <4>2. CASE final = initial
        <5>1. <<initial, initialResult>> \in Graded
          BY <4>1 DEF Graded
        <5> QED BY <4>2, <5>1
      <4>3. CASE final # initial
        <5>1. repairedResult # None /\ final = repaired
          BY <1>1, <4>3, FrozenOf DEF Selected
        <5>2. <<repaired, repairedResult>> \in Graded
          BY <5>1 DEF Graded
        <5> QED BY <5>1, <5>2
      <4> QED BY <4>2, <4>3
    <3>3. PICK candidate \in Graded : candidate[1] = final
      BY <3>2
    <3>4. candidate[2].passed
      BY <1>9, <2>3, <3>1, <3>3, GradedJudged DEF Judged
    <3> QED BY <3>3, <3>4
  <2> QED BY <1>6, <1>7, <2>2, <2>3 DEF GradeAgreesWithHarness
<1> QED BY <1>8, <1>9

-----------------------------------------------------------------------------
(* The theorems.  Where Docker is one of the sandboxes, verdicts are exact   *)
(* only if its image lets Python write the byte code it compiles: without    *)
(* that every program is reported as one that does not compile.              *)

(* Verdicts, code and grades are of their kinds, with counts no larger than  *)
(* the tests there are, and durations, to the second, within a worker's cap  *)
(* or a test's time for each container, the one that compiles included       *)
(* (docker.py, lcb_official.py).                                             *)
THEOREM CandidatesTyped == Spec => []TypeOK
<1>1. CandInv => TypeOK
  BY CandTyped
<1> QED BY <1>1, CandidateInvariance, PTL

(* No repair is asked for without a reason that the verdict names. *)
THEOREM RepairsHaveReason == Spec => []RepairHasReason
<1>1. CandInv => RepairHasReason
  BY CandReason
<1> QED BY <1>1, CandidateInvariance, PTL

(* No worker's wall timeout fails code that passes each test in the time a   *)
(* test may take, but for the cap on a worker (worker_wall_timeout).         *)
THEOREM CorrectCodeNotCutOff == Spec => []CorrectCodeIsNeverCutOff
<1>1. CandInv => CorrectCodeIsNeverCutOff
  BY CandGrades
<1> QED BY <1>1, CandidateInvariance, PTL

(* The image is chosen once; it is the sandbox that may vary. *)
LEMMA ImageOfSandbox == ("docker" \in Backends => CacheWritable) /\ CandInv => ImageWorks
  BY DEF CandInv, CodeInv, ImageWorks

(* A pass of the public harness is neither given to code that does not solve *)
(* the public tests nor kept from code that does and has the time for it.    *)
THEOREM VerdictsExact ==
  ASSUME "docker" \in Backends => CacheWritable
  PROVE  Spec => []VerdictExact
<1>1. CandInv => VerdictExact
  BY ImageOfSandbox, CandVerdicts
<1> QED BY <1>1, CandidateInvariance, PTL

(* The frozen code is a candidate; it compiles if one does, unless Docker    *)
(* itself fails or starts containers too slowly; it solves the public tests  *)
(* if one does that the backend leaves the time for it; and it passes as     *)
(* many of them as each candidate that the backend measures in full, which   *)
(* one that was cut off or stopped is not (selector.py).                     *)
THEOREM FrozenIsBest ==
  ASSUME "docker" \in Backends => CacheWritable
  PROVE  Spec => []FrozenCodeIsBest
<1>1. CandInv => FrozenCodeIsBest
  BY ImageOfSandbox, CandBest
<1> QED BY <1>1, CandidateInvariance, PTL

(* Code that the final evaluation passes was run on at least one test and,   *)
(* if there were public tests and the backend left it the time for them, had *)
(* passed the public harness.                                                *)
THEOREM GradesAgree ==
  ASSUME "docker" \in Backends => CacheWritable
  PROVE  Spec => []GradeAgreesWithHarness
<1>1. CandInv => GradeAgreesWithHarness
  <2>1. CandInv => (grade # None /\ grade.passed => GradeAgreesWithHarness)
    BY ImageOfSandbox, CandGrades
  <2> QED BY <2>1 DEF GradeAgreesWithHarness
<1> QED BY <1>1, CandidateInvariance, PTL
=============================================================================
