SPECIFICATION Spec
CONSTANTS
  c1 = c1
  c2 = c2
  c3 = c3
  NoConn = NoConn
  NoLogin = NoLogin
  NoPassword = NoPassword
  LegacyHash = LegacyHash
  Conns <- MCConns2
  Fds = {4, 5}
  Commands <- AllCommands
  Logins = {"admin", "bob", "old"}
  Passwords <- MCPasswords
  Contents <- MCContents
  InitUsers <- MCAdminBob
  Admin <- MCAdmin
  AdminPassword <- MCAdminPassword
  MaxLines = 2
  MaxStarts = 2
  MaxClock = 0
  DbFaults = FALSE
  SendFaults = {"error", "sigpipe"}
  ReuseHeld = FALSE
  Leaving = {c1}
  Stalled = {}
  SockBuf = 9

CHECK_DEADLOCK FALSE
INVARIANTS TypeOK RegistrationExclusive HistoriesPartition StoredBeforeSent PrivateStaysPrivate

PROPERTIES HistoriesGrow SessionsKept
