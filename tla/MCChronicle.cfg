CONSTANTS
  ann = ann
  ben = ben
  cyn = cyn
  x = x
  y = y
  m1 = m1
  m2 = m2
  e1 = e1
  l1 = l1
  l2 = l2
  l3 = l3
  t1 = t1
  Test = Test
  NoAuthor = NoAuthor
  Members = {ann, ben, cyn}
  Owner = ann
  Entries = {x, y}
  Author <- MCAuthor
  Subjects <- MCSubjects
  Memories = {m1, m2}
  Keeper <- MCKeeper
  Lasting = {m2}
  Capacity = 1
  PreviewLife = 1
  NoticeLife = 2
  StaleAge = 1
  MemoryLife = 1
  MaxAttempts = 2
  RetryDelay = 1
  MaxClock = 3
  MaxRevision = 2
  MaxChanges = 2
SPECIFICATION MCSpec
INVARIANTS
  TypesOK
  PublicWordHolds
  PrivateIsForgotten
  ReviewsAreCurrent
  RareAppearances
  ListeningEnds
PROPERTIES
  RecordsAreAgreed
  AppearsAsDecided
  HeardWithConsent
\* the clock stops
CHECK_DEADLOCK FALSE
