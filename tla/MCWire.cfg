SPECIFICATION FairSpec
CONSTANTS
  Newline = TRUE
  Auth <- MCAuth
  Commands <- MCCommands
  ChatLine <- MCChat
  Others = {"other"}
  RecvMax = 3
  MaxLine = 2
  MaxSends = 3
  MaxChat = 1
CHECK_DEADLOCK FALSE
INVARIANTS TypeOK CommandsWhole LinesWhole
PROPERTIES CommandsHandled
