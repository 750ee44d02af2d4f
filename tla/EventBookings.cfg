SPECIFICATION MCSpec
SYMMETRY MCSymmetry
CONSTANTS
  Users = {u1, u2}
  Events = {e1, e2, e3}
  RowIds = {r1, r2}
  Positions = {p1}
  Groups = {g1, g2}
  CheckTimes = {1, 3, 4}
  CloseTimes = {1, 3}
  FarTimes = {1, 4}
  Early = 2
  MaxRecruiting = 1
  MaxTime = 5
  Slots = {s1, s2}
  None = None
  DayLength = 3
  Offset = 1
  MonthLength = 2
INVARIANTS NoDoubleBooking TrackedWhileOnTheWay RowsAreOfDepartures MarkedListedAndOpen StatisticsAddUp LimitIsKept
CHECK_DEADLOCK FALSE
