SPECIFICATION FairSpec
INVARIANTS
  TypeOK
  CommandsInStep
  ReceiverEndsForCause
  ReconnectIsToldFirst
PROPERTIES
  ImplementsCalls
  CallReturns
  ClientEnds
CONSTANTS
  QUEUE_SIZE = 1
  MaxConnections = 2
  MaxActs = 2
CHECK_DEADLOCK FALSE
