\* Files, settings, times and strings.
SPECIFICATION UtilitiesSpec
CONSTANTS
  w1 = w1
  w2 = w2
  f = f
  g = g
  h = h
  a = a
  b = b
  t1 = t1
  t2 = t2
  DirName = DirName
  Nothing = Nothing
  Folder = Folder
  Workers <- MCWorkers
  FileNames <- MCFileNames
  Inner <- MCInner
  Contents <- MCContents
  Threads <- MCWorkers
  Settings <- MCSettings
  Objects <- MCObjects
  Times <- MCTimes
  Unset <- MCUnset
  SystemZone = 0
  Horizon = 2
  MaxLength = 5
INVARIANTS
  NothingVanishes
  SettingsSurvive
  ShowsWhatWasWritten
  ScanAgrees
CHECK_DEADLOCK FALSE
