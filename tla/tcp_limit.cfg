\* Does the time limit of a Send end its read when the peer stays silent?
SPECIFICATION SharedSpec
CONSTANTS
  p1 = p1
  p2 = p2
  c1 = c1
  c2 = c2
  k1 = k1
  k2 = k2
  a = a
  b = b
  s1 = s1
  s2 = s2
  Producers <- MCProducers
  Consumers <- MCConsumers
  Closers <- MCClosers
  Items <- MCValues
  NoItem = NoItem
  capacity = 1
  Values <- MCValues
  NoValue = NoValue
  Capacity = 1
  Takers <- MCSenders
  Pointers <- MCValues
  Null = Null
  RangeN = 1
  MaxSets = 1
  Senders <- MCSenders
  Manager = Manager
  Nobody = Nobody
  MaxCalls = 1
  MaxLinks = 1
  MaxTalk = 1
PROPERTY LimitEndsRead
CHECK_DEADLOCK FALSE
