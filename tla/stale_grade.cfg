SPECIFICATION Spec
CONSTANTS
  q1 = q1
  q2 = q2
  Manifest <- TwoTasks
  MaxTasks = 1
  Selections <- EitherOrBoth
  KillPoints = {"clearing"}
  ForceDuringEvaluation = FALSE
  MaxCommands = 5
INVARIANTS EvaluationMatchesAnswer
CHECK_DEADLOCK FALSE
