SPECIFICATION Spec
CONSTANTS
  Seats = {ann, bob}
  Beacons = {b1, b2, b3}
  GapMax = 1
  DayLength = 2
  Hour = 1
  MaxClock = 3
  MaxFaults = 2
SYMMETRY Alike
CHECK_DEADLOCK FALSE
INVARIANTS TypeOK OnlyWatched ViewsKept OncePerDay MarkedIsSent
