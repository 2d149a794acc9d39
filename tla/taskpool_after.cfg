\* Are there workers once StopAll has returned?
SPECIFICATION FairSpec
CONSTANTS
  c1 = c1
  c2 = c2
  t1 = t1
  t2 = t2
  t3 = t3
  NoTask = NoTask
  Clients <- MCClients
  Tasks <- MCTasks
  HardwareConcurrency = 2
  maxTaskCount = 1
  MaxStops = 1
INVARIANT NoWorkerAfterStop
CHECK_DEADLOCK FALSE
