SPECIFICATION FairGenbiSpec
CONSTANTS
  Requests = {"r1", "r2", "r3"}
  Asked <- AskedDef
  Blank = ""
  Nobody = "nobody"
  MaxDeaths = 1
  Statements <- StatementsDef
  Uris <- UrisDef
  RowCap = 2
  Endless = Endless
  Nothing = Nothing
  Searches = {"s1"}
  Principals = {"ann"}
  Rooms = {"east", "west"}
  Documents = {"d1", "d2"}
  Policies <- PoliciesDef
  Unreadable = Unreadable
  Malformed = Malformed
  NoEntry = NoEntry
  MaxTopK = 2
  MaxEdits = 2
  ToolLists = {"old", "new"}
  Unpinned = Unpinned
  Garbled = Garbled
  MaxUpgrades = 2
  MaxPins = 2
  Calls = {"c1", "c2"}
  Answers <- AnswersDef
  Goldens <- GoldensDef
  Unusable = Unusable
  Unparsable = Unparsable
  Deployments <- DeploymentsDef
  NoOne = NoOne
  Pinned = {"sales"}
  MaxReceipts = 1
  MaxChanges = 1
INVARIANTS GenbiTypeOK NeverOvercounts OneLockCountsAll ResultIsWhole ReturnedWasAllowed AnswerIsAudited QuietMeansMatched PinnedTruthPrevails SelfCertifiedIsEarned LockIsBacked
PROPERTY RunningStatementIsCutOff
CHECK_DEADLOCK FALSE
