\* Expected to fail: accept returns descriptor 0.
SPECIFICATION Spec
CONSTANTS
  MAX_CLIENTS = 2
  NConns = 4
  Talkers <- MCTalkers
INVARIANT DescriptorIsPositive
CHECK_DEADLOCK FALSE
