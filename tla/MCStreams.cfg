SPECIFICATION FairSpec
INVARIANTS
  TypeOK
  PromiseIsKept
  StreamThreadStopsForCause
  StreamsAreAccounted
PROPERTIES
  StreamThreadEnds
CONSTANTS
  MAX_CLIENTS = 2
  MaxAsks = 2
  MaxStreams = 2
  Leavers = {1}
CHECK_DEADLOCK FALSE
