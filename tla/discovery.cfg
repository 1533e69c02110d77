CONSTANTS
  t1 = t1  t2 = t2  h1 = h1  h2 = h2
  early = early  late = late  query = query
  Trackers = {t1, t2}
  Calls = {early, late, query}
  Plans <- PlansOf
  Expiry = 1
  Limit = 1
  Unreliable = {t2}
  Restarting = {t1}
  Collecting = {t1}
  MaxTime = 2
  None = None
SPECIFICATION Spec
INVARIANT TypeOK
PROPERTIES SuccessIsOfAll NewerStays NoneStaysBehind FreshIsKept
CHECK_DEADLOCK FALSE
