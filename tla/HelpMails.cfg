SPECIFICATION FairSpec
CONSTANTS
  ann = ann
  bob = bob
  annSeat = annSeat
  bobSeat = bobSeat
  cyd = cyd
  noseat = noseat
  Users = {ann, bob}
  Tag <- BothSeated
  Chats = {c1, c2}
  Ends = {e1}
  MaxClock = 2
  NoReq = NoReq
  NoConv = NoConv
  MailFails = TRUE
  StoreFails = FALSE
  Restarts = TRUE
  SameSecond = FALSE
CHECK_DEADLOCK FALSE
PROPERTIES TurnsMailed
