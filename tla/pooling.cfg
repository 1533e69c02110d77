CONSTANTS
  o1 = o1  o2 = o2  o3 = o3
  w1 = w1  w2 = w2
  c1 = c1  c2 = c2
  a = a  b = b
  other = other
  Operators = {o1, o2, o3}
  Witnesses = {w1, w2}
  Clients = {c1}
  K = 2
  Entries = {a, b}
  Feed <- OneEach
  PublishEmpty = {}
  Origins = {log, other}
  LogOrigin = log
  OriginOf <- OriginOfEach
  Follows <- FollowIdle
  Restarting = {c1, w2}
  Unopened = {}
  Redelivery = TRUE
  None = None
SPECIFICATION Spec
INVARIANT NoSplitView
PROPERTY ReadsOneLog
