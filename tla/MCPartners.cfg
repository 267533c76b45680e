SPECIFICATION Spec
CONSTANTS
  NoLogin = NoLogin
  LegacyHash = LegacyHash
  Logins = {"ann", "bob", "cid"}
  Passwords = {"pw"}
  Contents = {"text"}
  InitUsers <- MCUsers
  DbFaults = FALSE
  MaxClock = 1
  MaxMessages = 3
CHECK_DEADLOCK FALSE
INVARIANT EveryPartnerListed
