CONSTANTS
  Members = {0, 1, 2}
  Rounds = 2
  Met <- MetFirst
  Failing = {0, 1}
  Losing = {1}
  Redelivery = TRUE
  None = None
SPECIFICATION FairSpec
INVARIANTS TypeOK SameData
PROPERTY DataIsTaken
CHECK_DEADLOCK FALSE
