\* Clients, consumer and main thread of the logger.
SPECIFICATION LSpec
CONSTANTS
  c1 = c1
  c2 = c2
  m1 = m1
  m2 = m2
  m3 = m3
  NoMessage = NoMessage
  Consumer = Consumer
  Main = Main
  Clients <- MCClients
  Messages <- MCMessages
  MaxLogQueueSize = 2
  MaxStarts = 2
INVARIANTS
  NoGapInLog
  FileKeepsWhatItTakes
  StoppedIsQuiet
PROPERTIES
  StopComesBack
  MessageReachesFile
CHECK_DEADLOCK FALSE
