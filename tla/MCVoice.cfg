CONSTANTS
  MaxSummons = 1
  MaxJobs = 5
  QueueCap = 2
  MaxActs = 3
  i1 = i1
  i2 = i2
  n1 = n1
  er = er
  fw = fw
  wf = wf
  None = None
SPECIFICATION MCSpec
INVARIANTS SessionIsHeld LinesAreHeld
PROPERTIES MuteSurvives LinesAsAsked NothingHangs
CHECK_DEADLOCK FALSE
