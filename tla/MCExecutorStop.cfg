SPECIFICATION Spec

CONSTANTS
  Tasks = {t1}
  Workers = {k1}
  Pools <- BothPools

PROPERTY StopReturns

CHECK_DEADLOCK FALSE
