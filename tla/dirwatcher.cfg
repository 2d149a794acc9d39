\* The watcher, its owner, the file system and the thread manager.
SPECIFICATION WFairSpec
CONSTANTS
  a = a
  b = b
  d1 = d1
  d2 = d2
  Files <- MCFiles
  Dirs <- MCDirs
  DirOf <- MCDirOf
  Times <- MCTimes
  BufCapacity = 2
INVARIANTS
  WTypeOK
  ListIsSound
PROPERTIES
  ChangesNoticed
  OldestErasureNoticed
  StopReturns
CHECK_DEADLOCK FALSE
