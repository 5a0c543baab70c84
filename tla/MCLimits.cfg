CONSTANTS
  card = card
  edit1 = edit1
  edit2 = edit2
  PublicRows <- MCPublicRows
  EditRows <- MCEditRows
  Source <- MCSource
  Revision <- MCRevision
  Predecessors <- MCPredecessors
  Workers = {w1, w2}
  Tokens = {t1, t2, t3, t4, t5, t6}
  NoToken = NoToken
  NoRow = NoRow
  MaxAttempts = 2
  ClaimLease = 1
  ReceiptWait = 2
  LeaseMargin = 1
  NonceWindow = 2
  RetryDelays <- MCRetryDelays
  WireDelay = 1
  ProviderMemory = 4
  a1 = a1
  a2 = a2
  a3 = a3
  ann = ann
  background = background
SPECIFICATION MCSpec
INVARIANTS
  TypeOK
  ExclusiveClaim
  PostedOnce
  GenerationLimits
PROPERTIES
  CardNeverRegresses
  ImplementsDelivery
  ConfigurationFailureSticks
SYMMETRY Interchangeable
