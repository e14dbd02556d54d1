SPECIFICATION FairSpec
CONSTANTS
  q1 = q1
  q2 = q2
  Manifest <- TwoTasks
  MaxTasks = 1
  Selections <- EitherOrBoth
  KillPoints = {"running", "evaluating"}
  ForceDuringEvaluation = FALSE
  MaxCommands = 5
INVARIANTS TypeOK EvaluationMatchesAnswer PrivateOnlyAfterFreeze
PROPERTIES NoReevaluation ExportedAsGraded CommandsEnd
CHECK_DEADLOCK FALSE
