SPECIFICATION MCSpec

CONSTANTS
  sam = sam
  w1 = w1
  clerk = clerk
  Nobody = Nobody
  Tasks = {t1, t2, t3}
  Workers = {k1, k2}
  Pools <- BothPools

INVARIANTS
  TypeOK
  TasksAreKept

PROPERTIES
  AnyoneIsServed
  WorkEnds

\* a worker that misses the stop's notification sleeps for ever, and a
\* stopped pool has nothing left to do
CHECK_DEADLOCK FALSE
