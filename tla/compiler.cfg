SPECIFICATION Spec
CONSTANTS
  NoArtifact = NoArtifact
  NoCondition = NoCondition
  SchemaPayloads <- CompilerPayloads
  Declarations <- AllDeclarations
  AgentContracts <- ShippedContracts
  ComponentIds <- ShippedComponents
  SchemaFields <- ShippedFields
  PathRoot <- ShippedRoots
INVARIANTS TypeOK AcceptedIsGraph WavesAreDepths CycleVerdictExact AcceptedGraphsDeliver
CHECK_DEADLOCK FALSE
