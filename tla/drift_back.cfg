SPECIFICATION Spec
CONSTANTS
  NoArtifact = NoArtifact
  NoCondition = NoCondition
  NoState = NoState
  NoNode = NoNode
  SchemaPayloads <- BaselinePayloads
  Graph <- B0
  MaxParallel = 4
  Contracts = {c1, c2}
  AllowDriftChoices = {TRUE, FALSE}
  MaxBoots = 3
INVARIANTS NoSilentDrift
CHECK_DEADLOCK FALSE
