CONSTANTS
  Tasks = {t1, t2, t3}
  Queues = {m1, m2}
  NoTask = NoTask
SPECIFICATION FairSpec
INVARIANTS MutualExclusion SleepersWoken
PROPERTY MutexProgress
CHECK_DEADLOCK FALSE
