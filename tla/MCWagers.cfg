CONSTANTS
  ann = ann
  ben = ben
  sam = sam
  w1 = w1
  n1 = n1
  n2 = n2
  i1 = i1
  i2 = i2
  i3 = i3
  WagerIds = {w1, w2}
  Users = {ann, ben, sam}
  Owner = sam
  Agreements <- Scripts
  Stakes = {2, 3}
  StartingFate = 4
  DraftLifetime = 1
  OfferLifetime = 1
  OutcomeWindow = 2
  Grace = 1
  Workers = {k1, k2}
  JobLease = 1
  RetryDelay = 1
  MaxAttempts = 2
  Nobody = Nobody
SPECIFICATION MCSpec
INVARIANTS
  TypeOK
  ResultHasAuthority
  NeverStranded
  NoticesHold
  StakesAreBacked
PROPERTIES
  DeadlinesHold
  ImplementsPots
SYMMETRY Interchangeable
CHECK_DEADLOCK FALSE
