SPECIFICATION Spec
CONSTANTS
  ann = ann
  bob = bob
  annSeat = annSeat
  bobSeat = bobSeat
  cyd = cyd
  noseat = noseat
  Users = {ann, bob, cyd}
  Tag <- OneSeated
  Chats = {c1, c2}
  Ends = {e1}
  MaxClock = 2
  NoReq = NoReq
  NoConv = NoConv
  MailFails = TRUE
  StoreFails = TRUE
  Restarts = TRUE
  SameSecond = TRUE
SYMMETRY Symmetry
CHECK_DEADLOCK FALSE
INVARIANTS TypeOK OwnWords MarkIsTrue
