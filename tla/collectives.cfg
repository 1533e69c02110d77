CONSTANTS
  Members = {0, 1, 2}
  Settings <- Collective
  None = None
SPECIFICATION Spec
INVARIANTS TypeOK ResultsAreExact
PROPERTY IsRendezvous
CHECK_DEADLOCK FALSE
