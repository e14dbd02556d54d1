SPECIFICATION Spec
CONSTANTS
  NoArtifact = NoArtifact
  NoCondition = NoCondition
  NoState = NoState
  NoNode = NoNode
  SchemaPayloads <- BaselinePayloads
  Graph <- B2
  MaxParallel = 4
  Contracts = {c1}
  AllowDriftChoices = {FALSE}
  MaxBoots = 3
INVARIANTS OneBranchRuns DeadlockMeansFailure 
PROPERTIES DeadlockIsForever
CHECK_DEADLOCK FALSE
