CONSTANTS
  Workers = {w1, w2}
  Tasks = {t1, t2, t3}
  None = None
  CountMod = 4
  MayClearTasks = FALSE
SPECIFICATION FairSpec
INVARIANTS
  PopsExclude
  CallsSettle
PROPERTIES
  ImplementsTaskPool
  WaitReturns
  LostWakeUpsHarmless
