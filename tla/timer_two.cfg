\* Can two callers start the timer twice?
SPECIFICATION TSpec
CONSTANTS
  c1 = c1
  c2 = c2
  t1 = t1
  t2 = t2
  Users <- TwoUsers
  Threads <- MCThreads
  interval = 1
  elapsed = 2
  MaxCounter = 4
INVARIANT OneThread
CHECK_DEADLOCK FALSE
