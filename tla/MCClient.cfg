SPECIFICATION FairSpec
CONSTANTS
  r1 = r1
  r2 = r2
  NoLogin = NoLogin
  NoRequest = NoRequest
  Users = {"ann", "bob"}
  Readers <- MCOneReader
  MaxRequests = 3
  MaxEvents = 1
  MaxRows = 2
  RecentLimit = 1
CHECK_DEADLOCK FALSE
INVARIANTS TypeOK HistoryIsWhole WaiterHasReader
PROPERTIES TimedCallsReturn LoggedOutReaderEnds
