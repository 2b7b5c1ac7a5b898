SPECIFICATION Spec
CONSTANTS
  q1 = q1
  q2 = q2
  s1 = s1
  s2 = s2
  d1 = d1
  d2 = d2
  con = con
  r1 = r1
  m1 = m1
  h1 = h1
  h2 = h2
  Handlers = {h1, h2}
  Questions = {q1, q2}
  Sqls = {s1}
  Days = {d1}
  Tables = {}
  People = {}
  Receipts = {}
  Asks <- AskedApart
  Binds <- BindsFirst
  RequireHumanLock = FALSE
  None = None
  MaxRequests = 3
  MaxCrashes = 0
PROPERTY RowsAreKept
