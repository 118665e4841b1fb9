SPECIFICATION ExecutorSteps
CONSTANTS
  Items = {i1, i2, i3}
  Workers = {w1, w2}
  PoolThreads = {t1, t2, t3}
  NoItem = none
INVARIANTS
  WorkersCounted
  ShutdownIsComplete
PROPERTY ShutdownReturns
