SPECIFICATION Spec
CONSTANTS
  NoArtifact = NoArtifact
  NoCondition = NoCondition
  NoState = NoState
  NoNode = NoNode
  SchemaPayloads <- MixedPayloads
  Graph <- Mixed
  MaxParallel = 2
  Contracts = {c1}
  AllowDriftChoices = {FALSE}
  MaxBoots = 2
INVARIANTS TypeOK ReferencedArtifactsStored CheckpointQuiescent FrozenIffAnswered CommittedLineage CrashCostsOneWave CheckpointExplained
PROPERTIES DecisionsAreFinal ImplementsDurableTask
CHECK_DEADLOCK FALSE
