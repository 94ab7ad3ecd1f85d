SPECIFICATION FairSpec
INVARIANTS
  TypeOK
  FreedIsUnused
PROPERTIES
  InterruptIsBounded
CONSTANTS
  Early <- MCEarly
  TICKS = 2
  MaxInts = 2
CHECK_DEADLOCK FALSE
