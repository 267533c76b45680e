SPECIFICATION FairSpec
CONSTANTS
  r1 = r1
  r2 = r2
  NoLogin = NoLogin
  NoRequest = NoRequest
  Users = {"ann", "bob"}
  Readers <- MCOneReader
  MaxRequests = 2
  MaxEvents = 0
  MaxRows = 1
  RecentLimit = 1
CHECK_DEADLOCK FALSE
PROPERTY HistoryReturns
