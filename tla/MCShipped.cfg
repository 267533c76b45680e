SPECIFICATION FairSpec
CONSTANTS
  Newline = FALSE
  Auth <- MCAuth
  Commands <- MCCommands
  ChatLine <- MCChat
  Others = {"other"}
  RecvMax = 3
  MaxLine = 2
  MaxSends = 2
  MaxChat = 0
CHECK_DEADLOCK FALSE
PROPERTY CommandsHandled
