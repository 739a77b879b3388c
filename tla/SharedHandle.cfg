SPECIFICATION Spec
CONSTANTS
  ann = ann
  bob = bob
  blank = blank
  a1 = a1
  a2 = a2
  b1 = b1
  u1 = u1
  null = null
  Users = {ann, bob}
  Admins = {ann}
  Blank = blank
  NoUser = NoUser
  Handles = {a1, a2, b1, u1, null}
  NullKey = null
  Cands <- SharedCands
  MaxSeats = 2
  Seated <- SharedSeated
  Threads = {t1, t2}
  Pods = {p1, p2}
  NoToken = NoToken
  OldToken = OldToken
  Acts = {"provision", "reset", "deprovision", "bulk"}
  Faults = FALSE
  Deaths = FALSE
SYMMETRY Symmetry
CHECK_DEADLOCK FALSE
PROPERTIES SeatKeepsOwner
