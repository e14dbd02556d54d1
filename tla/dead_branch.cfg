SPECIFICATION Spec
CONSTANTS
  NoArtifact = NoArtifact
  NoCondition = NoCondition
  SchemaPayloads <- CompilerPayloads
  Declarations <- AllDeclarations
  AgentContracts <- ShippedContracts
  ComponentIds <- ShippedComponents
  SchemaFields <- ShippedFields
  PathRoot <- ShippedRoots
INVARIANTS EveryBranchCanActivate
CHECK_DEADLOCK FALSE
