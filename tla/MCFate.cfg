CONSTANTS
  dawn = dawn
  hour = hour
  standard = standard
  ada = ada
  ben = ben
  cyn = cyn
  w1 = w1
  w2 = w2
  o1 = o1
  c1 = c1
  c2 = c2
  Users = {ada, ben, cyn}
  Owner = ada
  TestMode = TRUE
  Bets = {w1, w2}
  Offers = {o1}
  NoOffer = NoOffer
  Weekly = Weekly
  Templates <- MCTemplates
  Authority <- MCAuthority
  Recovers = {dawn}
  Offered = {standard}
  Stake <- MCStake
  Profit <- MCProfit
  EligibleBelow <- MCEligibleBelow
  Window <- MCWindow
  Cooldown <- MCCooldown
  DrawCooldown = 1
  ExposureCap = 2
  Opening = 1
  OfferLife = 1
  ReminderAt = 1
  ResolveFor = 1
  MissedAfter = 0
  Week = 2
  MaxAttempts = 2
  Lag = 1
  Faults = 1
  ClaimIds = {c1, c2}
  Adjustments = {x1}
  Amounts <- MCAmounts
  Threshold <- MCThreshold
  GraceTarget = 2
  TrialRewardMin = 1
  TrialRewardMax = 1
  Lifetime = 1
  RecoveryRest <- MCRest
SPECIFICATION MCSpec
INVARIANTS
  TypesOK
  LedgersHold
  ResultIsEarned
  OfferTakenOnce
PROPERTIES
  GivenSparingly
  Settles
CHECK_DEADLOCK FALSE
