SPECIFICATION FairSpec
CONSTANTS
  NoArtifact = NoArtifact
  NoCondition = NoCondition
  NoState = NoState
  NoNode = NoNode
  SchemaPayloads <- BaselinePayloads
  Graph <- B0
  MaxParallel = 4
  Contracts = {c1, c2}
  AllowDriftChoices = {FALSE}
  MaxBoots = 3
INVARIANTS NoSilentDrift
PROPERTIES EveryStartEnds
CHECK_DEADLOCK FALSE
