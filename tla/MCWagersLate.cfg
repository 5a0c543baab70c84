CONSTANTS
  ann = ann
  ben = ben
  sam = sam
  w1 = w1
  n1 = n1
  n2 = n2
  i1 = i1
  i2 = i2
  i3 = i3
  WagerIds = {w1}
  Users = {ann, ben, sam}
  Owner = sam
  Agreements <- SealedOrJudged
  Stakes = {2}
  StartingFate = 4
  DraftLifetime = 1
  OfferLifetime = 1
  OutcomeWindow = 2
  Grace = 1
  Workers = {k1}
  JobLease = 1
  RetryDelay = 1
  MaxAttempts = 2
  Nobody = Nobody
SPECIFICATION MCSpec
PROPERTIES
  DraftExpiryHolds
CHECK_DEADLOCK FALSE
