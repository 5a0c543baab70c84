CONSTANTS
  MaxWindows = 1
  CallbackCap = 2
  Budgets <- OneStop
SPECIFICATION Spec
PROPERTY EveryWindowEnds
CHECK_DEADLOCK FALSE
