CONSTANTS
  MonthLength <- SmallMonths
  WeekLength = 3
  TicksPerDay = 2
  HorizonMonths = 2
  MaxOut = 12
  Starts <- SmallStarts
  Untils <- SmallUntils
  NoUntil = NoUntil
SPECIFICATION Spec
INVARIANTS
  SeriesIsExact
CHECK_DEADLOCK FALSE
