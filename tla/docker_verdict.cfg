SPECIFICATION Spec
CONSTANTS
  MaxPublicTests = 2
  MaxPrivateTests = 1
  PerTestSeconds = 2
  WorkerGraceSeconds = 1
  MaxWorkerWallSeconds = 6
  Backends = {"docker"}
  ContainerSeconds = 1
  CacheWritable = FALSE
  None = None
INVARIANTS VerdictExact
CHECK_DEADLOCK FALSE
