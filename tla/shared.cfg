\* The queues, the slot array and the synchronous client.
SPECIFICATION SharedSpec
CONSTANTS
  p1 = p1
  p2 = p2
  c1 = c1
  c2 = c2
  k1 = k1
  k2 = k2
  a = a
  b = b
  s1 = s1
  s2 = s2
  Producers <- MCProducers
  Consumers <- MCConsumers
  Closers <- MCClosers
  Items <- MCValues
  NoItem = NoItem
  capacity = 2
  Values <- MCValues
  NoValue = NoValue
  Capacity = 3
  Takers <- MCSenders
  Pointers <- MCValues
  Null = Null
  RangeN = 1
  MaxSets = 2
  Senders <- MCSenders
  Manager = Manager
  Nobody = Nobody
  MaxCalls = 3
  MaxLinks = 2
  MaxTalk = 2
INVARIANTS
  NoStrandedItem
  SlotExclusion
  ConsumedOnce
  NothingSkipped
PROPERTIES
  ImplementsClosableFifo
  ImplementsBoundedFifo
  WaitsEnd
  OutcomeIsTrue
  
CHECK_DEADLOCK FALSE
