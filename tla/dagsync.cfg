CONSTANTS
  sv = sv  wrong = wrong  cl = cl
  root = root  inner = inner  leaf = leaf  far = far  junk = junk
  i1 = i1  i2 = i2
  Nodes = {sv, wrong, cl}
  Data = {root, inner, leaf, far, junk}
  Children <- DagChildren
  Cids <- DagCids
  Loaded <- ServersHaveDag
  Library <- ImportedLate
  Calls = {i1, i2}
  Client <- OneClient
  Server <- TwoServers
  Requests <- LinksInline
  Stopping = {sv}
  Cutting = {i1}
  None = None
  Error = Error
SPECIFICATION FairSpec
INVARIANTS TypeOK TablesFit InStep
PROPERTY CallsReturn
CHECK_DEADLOCK FALSE
