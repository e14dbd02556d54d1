SPECIFICATION FairSpec
CONSTANTS
  AgentNodes <- Agents
  HarnessNodes <- Harnesses
  Waves <- ThreeTasks
  TaskSlots = 2
  LLMSlots = 1
  SandboxSlots = 1
  TimedNodes = {"a1"}
INVARIANTS TypeOK WorkersWithinSlots WholeOrAborted
PROPERTIES RunEndsEventually
CHECK_DEADLOCK FALSE
