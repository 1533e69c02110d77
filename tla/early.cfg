CONSTANTS
  Members = {0, 1}
  Settings <- OneBarrier
  None = None
SPECIFICATION FairSpec
PROPERTY AllReturn
CHECK_DEADLOCK FALSE
