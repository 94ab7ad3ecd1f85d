SPECIFICATION Spec
CONSTANTS
  MAX_CLIENTS = 2
  NConns = 4
  Talkers <- MCTalkers
INVARIANTS
  TypeOK
  PoolAgrees
  MembersAreWatched
  
  
  
  CalmBroadcastReachesAll
CHECK_DEADLOCK FALSE
