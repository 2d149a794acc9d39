\* Two callers and two workers of the manager; one user of the timer.
SPECIFICATION ThreadsSpec
CONSTANTS
  c1 = c1
  c2 = c2
  w1 = w1
  w2 = w2
  t1 = t1
  t2 = t2
  NoOne = NoOne
  Callers <- MCCallers
  Workers <- MCWorkers
  MaxWorkerCount = 2
  Users <- MCUsers
  Threads <- MCThreads
  interval = 1
  elapsed = 3
  MaxCounter = 4
INVARIANTS
  SpawnsOverNothing
  NoOrphans
  StoppedIsQuiet
PROPERTIES
  StopsReturn
  StopReturns
  TaskKeepsComing
CHECK_DEADLOCK FALSE
