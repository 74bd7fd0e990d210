CONSTANTS
  Tasks = {1, 2, 3}
  Queues = {1, 2, 3}
  NoTask = NoTask
  Cpus = {c1}
  Codes = {1}
  Main = 1
  MaxTid = 3
  Sigs = {2}
  MaxSent = 1
  PThreads = {h1, h2, h3}
  TimedThreads = {h1, h2}
  FirstThread = h1
  NoThread = NoThread
  Results = {1, 2}
  MaxTime = 3
SPECIFICATION MCSpec
INVARIANTS JoinSafe Reachable  JoinValue
PROPERTIES JoinReturns Returns
CHECK_DEADLOCK FALSE
