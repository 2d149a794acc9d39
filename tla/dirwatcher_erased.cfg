\* Is every erased file noticed?
SPECIFICATION WFairSpec
CONSTANTS
  a = a
  b = b
  d1 = d1
  d2 = d2
  Files <- MCFiles
  Dirs <- MCDirs
  DirOf <- MCDirOf
  Times <- MCTimes
  BufCapacity = 2
PROPERTY ErasuresNoticed
CHECK_DEADLOCK FALSE
