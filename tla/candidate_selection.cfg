SPECIFICATION Spec
CONSTANTS
  MaxPublicTests = 2
  MaxPrivateTests = 1
  PerTestSeconds = 2
  WorkerGraceSeconds = 1
  MaxWorkerWallSeconds = 6
  Backends = {"lcb_official", "docker", "docker_failing"}
  ContainerSeconds = 1
  CacheWritable = TRUE
  None = None
INVARIANTS TypeOK VerdictExact RepairHasReason FrozenCodeIsBest GradeAgreesWithHarness CorrectCodeIsNeverCutOff
CHECK_DEADLOCK FALSE
