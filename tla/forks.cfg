CONSTANTS
  o1 = o1  o2 = o2  o3 = o3
  w1 = w1  w2 = w2
  c1 = c1  c2 = c2
  a = a  b = b
  other = other
  Operators = {o1, o2}
  Witnesses = {w1}
  Clients = {c1}
  K = 1
  Entries = {a, b}
  Feed <- TwinParts
  PublishEmpty = {}
  Origins = {log, other}
  LogOrigin = log
  OriginOf <- OriginOfEach
  Follows <- FollowO1
  Restarting = {}
  Unopened <- LongestUnopened
  Redelivery = FALSE
  None = None
SPECIFICATION FairSpec
INVARIANT SignaturesAreBehindHead
PROPERTIES ForksAreProved AnnouncedIsSaved
