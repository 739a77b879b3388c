SPECIFICATION Spec
CONSTANTS
  None = None
  Attendees = attendees
  Doors = {redhat, handsonmode}
  Subs = {s1, s2}
  Uids = {u1, u2}
  Toks = {t1, t2, t3}
  Keys = {k1, k2}
  BuildsStop = FALSE
  RemovalsStop = FALSE
  MaxSlips = 0
SYMMETRY Names
CHECK_DEADLOCK FALSE
INVARIANTS MembershipsGo
