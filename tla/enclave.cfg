CONSTANTS
  p1 = p1  p2 = p2  fresh = fresh
  Processes = {p1, p2, fresh}
  Sessions = {p1, p2, fresh}
  Ephemeral = {fresh}
  Modes <- ModesOf
  MaxStarts = 2
  ServerModes <- EveryMode
  AllowUnattested = {"dial"}
  Acceptable <- Allowed
  Build <- BuildOf
  ServerBuild = "new"
  MaxRestarts = 1
  None = None
  Nobody = Nobody
SPECIFICATION Spec
INVARIANTS TypeOK ModesFit HonestPeersAreKnown KeysAreKept
PROPERTIES HandshakesEnd SavedKeyIsKept
CHECK_DEADLOCK FALSE
