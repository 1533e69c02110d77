CONSTANTS
  o1 = o1  o2 = o2  o3 = o3
  w1 = w1  w2 = w2
  c1 = c1  c2 = c2
  a = a  b = b
  other = other
  Operators = {o1, o2}
  Witnesses = {}
  Clients = {c1}
  K = 0
  Entries = {a, b}
  Feed <- TwoEach
  PublishEmpty = {}
  Origins = {log, other}
  LogOrigin = log
  OriginOf <- OriginOfEach
  Follows <- FollowO1
  Restarting = {}
  Unopened = {}
  Redelivery = FALSE
  None = None
SPECIFICATION FairSpec
PROPERTY ForksAreProved
