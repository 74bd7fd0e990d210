CONSTANTS
  Tasks = {t1, t2, t3}
  Queues = {t1, t2, t3}
  NoTask = NoTask
  Cpus = {c1}
  Codes = {1}
  Main = t1
SPECIFICATION ThreadsSpec
INVARIANT JoinReturnsCode
CHECK_DEADLOCK FALSE
