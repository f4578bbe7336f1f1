SPECIFICATION Spec
CONSTANTS
  Null = Null
  DayLen = 6
  WeekLen = 2
  MonthLen = 4
  HourLen = 3
  FullDay = 24
  Starts <- MCStarts
  Saves <- MCSaves
  Zones <- MCZones
  Horizon = 13
  MaxEdits = 2
INVARIANT
  OneIntervalPerHourPushed
CHECK_DEADLOCK FALSE
