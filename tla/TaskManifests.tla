--------------------------- MODULE TaskManifests ---------------------------
(***************************************************************************)
(* Which data a benchmark works on: cli/prepare_lcb.py samples manifests   *)
(* from the shards of the data set, cli/run.py takes the problems of a     *)
(* manifest from the same shards, and cli/evaluate.py takes their private  *)
(* tests from them, each in a process of its own.  Neither the shards nor  *)
(* the loader keep question ids apart: an id may occur in several records. *)
(*                                                                         *)
(* A record is an id with a difficulty, and is told from others by its     *)
(* line; statement, tests and dates hang on the line.                      *)
(***************************************************************************)
EXTENDS Integers, FiniteSetsExt, SequencesExt

CONSTANTS
  Questions,    \* 1 .. n, the ids in their order
  Difficulties,
  Shards,       \* how many shard files the latest release has
  MaxLines,     \* bound of the model: the records of a shard
  CountChoices, \* difficulty -> how many tasks to sample: --num-easy, ...
  Exclusions,   \* the ids of configs/manifests/excluded_ids.json
  MaxManifests, \* bound of the model: how many manifests are prepared
  NoLine        \* the question has not been read

ASSUME QuestionsAssumption == IsFiniteSet(Questions) /\ Questions = 1 .. Cardinality(Questions)
ASSUME ShardsAssumption == Shards \in Nat \ {0} /\ MaxLines \in Nat
ASSUME CountsAssumption == CountChoices \subseteq [Difficulties -> Nat]
ASSUME ManifestsAssumption == Exclusions \subseteq Questions /\ MaxManifests \in Nat

VARIABLES
  shards,     \* the data: shard -> its records, in file order
  manifests,  \* what has been prepared
  problem,    \* question -> the line whose problem was given to the agents
  private     \* question -> the line whose private tests graded the answer

vars == <<shards, manifests, problem, private>>

Records == [question_id : Questions, difficulty : Difficulties]

Lines == (1 .. Shards) \X (1 .. MaxLines)

-----------------------------------------------------------------------------
(* LiveCodeBenchLoader *)

(* The mutated form: lines are counted from zero. *)
IterRawFromZero(release) ==
  FlattenSeq([s \in 1 .. release |->
    [l \in DOMAIN shards[s] |-> [record |-> shards[s][l], line |-> <<s, l - 1>>]]])

(* iter_raw: a release has the shards of the release before it and one more. *)
IterRaw(release) ==
  FlattenSeq([s \in 1 .. release |->
    [l \in DOMAIN shards[s] |-> [record |-> shards[s][l], line |-> <<s, l>>]]])

Id(task) == task.record.question_id

(* The tasks that have one of the ids, in their order. *)
OfIds(tasks, ids) ==
  FlattenSeq([i \in DOMAIN tasks |-> IF Id(tasks[i]) \in ids THEN <<tasks[i]>> ELSE << >>])

(* The mutated form: of equal ids the later record comes first. *)
SortedBackwards(tasks) == FlattenSeq([q \in Questions |-> Reverse(OfIds(tasks, {q}))])

(* sorted() by question_id is stable. *)
Sorted(tasks) == FlattenSeq([q \in Questions |-> OfIds(tasks, {q})])

(* An empty set of ids, like none at all, filters nothing. *)
Wanted(release, ids) == IF ids = {} THEN IterRaw(release) ELSE OfIds(IterRaw(release), ids)

Load(release, ids) == Sorted(Wanted(release, ids))

(* A dict filled from a list: the last of equal keys stays. *)
ById(tasks) ==
  [q \in {Id(tasks[i]) : i \in DOMAIN tasks} |->
     tasks[Max({i \in DOMAIN tasks : Id(tasks[i]) = q})].line]

(* load() adds to the private repository as it reads, before it sorts. *)
PrivateRepository(release, ids) == ById(Wanted(release, ids))

-----------------------------------------------------------------------------
(* sample_manifest, whose shuffle may put any candidates first. *)

Ids(manifest) == {Id(task) : task \in manifest.entries}

(* The mutated form: each --exclude-manifest replaces the one before. *)
ExcludedLast(excluding) ==
  IF excluding = {} THEN Exclusions ELSE Ids(manifests[Max(excluding)])

(* --exclusions and the manifests named by --exclude-manifest. *)
Excluded(excluding) == Exclusions \cup UNION {Ids(manifests[i]) : i \in excluding}

Candidates(release, difficulty, excluded) ==
  {task \in ToSet(Load(release, {})) :
     task.record.difficulty = difficulty /\ Id(task) \notin excluded}

(* The first few of the shuffled candidates of each difficulty: too few       *)
(* candidates leave nothing to draw.                                         *)
Draws(release, counts, excluded) ==
  LET firsts == [d \in Difficulties |-> kSubset(counts[d], Candidates(release, d, excluded))]
  IN  {UNION Range(drawn) : drawn \in
         {f \in [Difficulties -> UNION Range(firsts)] : \A d \in Difficulties : f[d] \in firsts[d]}}

(* A draw that has an id twice is refused, though another might not have.    *)
Samples(release, counts, excluded) ==
  {drawn \in Draws(release, counts, excluded) :
     Cardinality({Id(task) : task \in drawn}) = Cardinality(drawn)}

Prepare ==
  /\ Len(manifests) < MaxManifests
  /\ \E release \in 1 .. Shards, counts \in CountChoices, excluding \in SUBSET DOMAIN manifests :
     \E entries \in Samples(release, counts, Excluded(excluding)) :
       manifests' = Append(manifests,
         [entries |-> entries, counts |-> counts, excluding |-> excluding])
  /\ UNCHANGED <<shards, problem, private>>

-----------------------------------------------------------------------------
(* The two other commands, on the manifest that was prepared last.  Their    *)
(* configuration admits the latest release only (config.py).                 *)

Prepared == manifests # << >>

Reads(lines, ids, found) ==
  [q \in Questions |-> IF q \in ids \cap DOMAIN found THEN found[q] ELSE lines[q]]

(* --task-id and --limit select some of the ids, or none. *)
Run ==
  /\ Prepared
  /\ \E ids \in SUBSET Ids(Last(manifests)) :
       problem' = Reads(problem, ids, ById(Load(Shards, ids)))
  /\ UNCHANGED <<shards, manifests, private>>

Evaluate ==
  /\ Prepared
  /\ LET ids == Ids(Last(manifests))
     IN  private' = Reads(private, ids, PrivateRepository(Shards, ids))
  /\ UNCHANGED <<shards, manifests, problem>>

Init ==
  /\ shards \in [1 .. Shards -> SeqOf(Records, MaxLines)]
  /\ manifests = << >>
  /\ problem = [q \in Questions |-> NoLine]
  /\ private = [q \in Questions |-> NoLine]

Next == Prepare \/ Run \/ Evaluate

Spec == Init /\ [][Next]_vars

-----------------------------------------------------------------------------

Tasks == [record : Records, line : Lines]

TypeOK ==
  /\ shards \in [1 .. Shards -> SeqOf(Records, MaxLines)]
  /\ \A i \in DOMAIN manifests :
       /\ manifests[i].entries \subseteq Tasks
       /\ manifests[i].counts \in CountChoices
       /\ manifests[i].excluding \subseteq 1 .. i - 1
  /\ {problem, private} \subseteq [Questions -> Lines \cup {NoLine}]

(* However often ids are repeated in the data, a manifest asks for each of   *)
(* its tasks once, with as many of each difficulty as was asked for, and     *)
(* every task it asks for is found when it is run or evaluated, whichever    *)
(* release it was sampled from and however few of its tasks are selected.    *)
ManifestsRunnable ==
  \A i \in DOMAIN manifests :
    LET m == manifests[i]
    IN  /\ \A s, t \in m.entries : Id(s) = Id(t) => s = t
        /\ \A d \in Difficulties :
             Cardinality({t \in m.entries : t.record.difficulty = d}) = m.counts[d]
        /\ \A ids \in SUBSET Ids(m) : ids \subseteq DOMAIN ById(Load(Shards, ids))

(* A manifest prepared with --exclude-manifest shares no question with those *)
(* that were named, nor with the exclusion file, also if the releases differ *)
(* or one id has records of several difficulties: no held-out question has   *)
(* been seen in development.                                                 *)
ManifestsDisjoint ==
  \A i \in DOMAIN manifests :
    /\ Ids(manifests[i]) \cap Exclusions = {}
    /\ \A j \in manifests[i].excluding : Ids(manifests[i]) \cap Ids(manifests[j]) = {}

(* An answer is graded on the private tests of the very record whose problem *)
(* the agents saw: three processes, one of which sorts and one of which      *)
(* reads other ids along, agree on which of several records an id means.     *)
GradedOnOwnTests ==
  \A q \in Questions :
    problem[q] # NoLine /\ private[q] # NoLine => problem[q] = private[q]
=============================================================================
