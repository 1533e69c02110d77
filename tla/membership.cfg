CONSTANTS
  a = a  b = b
  Peers = {a, b}
  Settings <- SettingsOf
  Capacity = 1
  Readers = {b}
SPECIFICATION Spec
INVARIANTS TypeOK EventsShowTheView LatestIsServed
PROPERTIES ViewsSettle CloseReturns
CHECK_DEADLOCK FALSE
