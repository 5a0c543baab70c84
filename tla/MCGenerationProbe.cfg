SPECIFICATION Spec

CONSTANTS
  Attempts = {a1, a2, a3}
  ann = ann
  Members = {}
  Background = background
  Reservation <- Costs
  Day = 2
  Month = 4
  DayLimit = 6
  MonthLimit = 6
  DayCalls = 3
  DirectWindow = 1
  DirectCalls = 1
  CallLimit = 1
  FailureWindow = 2
  FailureThreshold = 1
  MaxClock = 2
  MaxFaults = 1

PROPERTY BookkeepingIsRecovered
