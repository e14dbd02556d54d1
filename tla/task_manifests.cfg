SPECIFICATION Spec
CONSTANTS
  NoLine = NoLine
  Questions <- ThreeQuestions
  Difficulties = {"easy", "hard"}
  Shards = 2
  MaxLines = 2
  CountChoices <- OneOrTwo
  Exclusions = {3}
  MaxManifests = 2
INVARIANTS TypeOK ManifestsRunnable ManifestsDisjoint GradedOnOwnTests
CHECK_DEADLOCK FALSE
