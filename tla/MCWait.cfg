CONSTANTS
  t1 = t1
  t2 = t2
  t3 = t3
  q1 = q1
  q2 = q2
  Tasks = {t1, t2, t3}
  Queues = {q1, q2}
  NoTask = NoTask
  MaxTicket = 2
SPECIFICATION MCSpec
INVARIANTS QueuesTrue 
PROPERTY TimedReturns
CHECK_DEADLOCK FALSE
