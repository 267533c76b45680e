SPECIFICATION FairSpec
CONSTANTS
  c1 = c1
  c2 = c2
  c3 = c3
  NoConn = NoConn
  NoLogin = NoLogin
  NoPassword = NoPassword
  LegacyHash = LegacyHash
  Conns <- MCConns3
  Fds = {4, 5, 6}
  Commands <- ListenCommands
  Logins = {"admin", "bob", "old"}
  Passwords <- MCPasswords
  Contents <- MCContents
  InitUsers <- MCAdminBob
  Admin <- MCAdmin
  AdminPassword <- MCAdminPassword
  MaxLines = 2
  MaxStarts = 1
  MaxClock = 1
  DbFaults = FALSE
  SendFaults = {"error"}
  ReuseHeld = FALSE
  Leaving = {c2}
  Stalled = {}
  SockBuf = 9

CHECK_DEADLOCK FALSE
INVARIANTS NoGap
PROPERTIES BroadcastCompletes DepartedAreCleaned
