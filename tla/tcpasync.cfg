\* The client, its service thread, and a peer that may not answer.
SPECIFICATION ASpec
CONSTANTS
  MaxMessages = 2
  MaxConnects = 2
  MaxStarts = 2
INVARIANTS
  OnlyLostAttemptsThrow
  DeliveredInOrder
PROPERTIES
  MessagesDelivered
  ConnectResolves
  CallsReturn
CHECK_DEADLOCK FALSE
