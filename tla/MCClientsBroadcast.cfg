\* Expected to fail: a broadcast does not reach every client.
SPECIFICATION Spec
CONSTANTS
  MAX_CLIENTS = 2
  NConns = 3
  Talkers <- MCTalkers
INVARIANT BroadcastReachesAll
CHECK_DEADLOCK FALSE
