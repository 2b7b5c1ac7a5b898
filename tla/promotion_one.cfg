SPECIFICATION FairSpec
CONSTANTS
  q1 = q1
  q2 = q2
  s1 = s1
  s2 = s2
  d1 = d1
  d2 = d2
  con = con
  r1 = r1
  m1 = m1
  h1 = h1
  h2 = h2
  Handlers = {h1, h2}
  Questions = {q1, q2}
  Sqls = {s1, s2}
  Days = {d1, d2}
  Tables = {m1}
  People = {con}
  Receipts = {r1}
  Asks <- AskedAnyhow
  Binds <- BindsFirst
  RequireHumanLock = FALSE
  None = None
  MaxRequests = 2
  MaxCrashes = 1
INVARIANTS ApprovalUsedOnce LockedWasApproved OneChartPerSlug PromotedIsOnDashboard
PROPERTIES MutexReleased RowsAreKeptApart
