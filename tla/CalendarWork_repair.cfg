CONSTANTS
  Contents = {1, 2}
  Theirs = 9
  MaxChanges = 2
  OpenChanges = 2
  Attempts = 2
  MaxForeign = 0
  MaxMishaps = 1
  MaxStops = 0
SPECIFICATION CalendarSpec
INVARIANTS
  RepairsStayInOrder
CHECK_DEADLOCK FALSE
