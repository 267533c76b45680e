SPECIFICATION Spec
CONSTANTS
  c1 = c1
  c2 = c2
  c3 = c3
  NoConn = NoConn
  NoLogin = NoLogin
  NoPassword = NoPassword
  LegacyHash = LegacyHash
  Conns <- MCConns3
  Fds = {4, 5}
  Commands <- SessionCommands
  Logins = {"admin", "bob", "old"}
  Passwords <- MCPasswords
  Contents <- MCContents
  InitUsers <- MCAdminBob
  Admin <- MCAdmin
  AdminPassword <- MCAdminPassword
  MaxLines = 3
  MaxStarts = 1
  MaxClock = 0
  DbFaults = FALSE
  SendFaults = {"error"}
  ReuseHeld = TRUE
  Leaving = {c1, c2, c3}
  Stalled = {}
  SockBuf = 9

CHECK_DEADLOCK FALSE
INVARIANTS AuthorIsAuthenticated
