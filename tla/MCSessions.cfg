SPECIFICATION Spec
CONSTANTS
  c1 = c1
  c2 = c2
  c3 = c3
  NoConn = NoConn
  NoLogin = NoLogin
  NoPassword = NoPassword
  LegacyHash = LegacyHash
  Conns <- MCConns3
  Fds = {4, 5}
  Commands <- SessionCommands
  Logins = {"admin", "bob", "old"}
  Passwords <- MCPasswords
  Contents <- MCContents
  InitUsers <- MCAdminBob
  Admin <- MCAdmin
  AdminPassword <- MCAdminPassword
  MaxLines = 3
  MaxStarts = 1
  MaxClock = 0
  DbFaults = TRUE
  SendFaults = {"error"}
  ReuseHeld = FALSE
  Leaving = {c1, c2}
  Stalled = {}
  SockBuf = 9

CHECK_DEADLOCK FALSE
INVARIANTS SocketsAreOpen SessionAgreement LoginsHaveHandlers AuthorIsAuthenticated PrivateReachesParties NoSelfEcho PerSenderOrder
