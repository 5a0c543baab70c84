CONSTANTS
  MaxSummons = 1
  MaxJobs = 5
  QueueCap = 2
  MaxActs = 2
SPECIFICATION Spec
INVARIANTS
  SpeechIsConnected
