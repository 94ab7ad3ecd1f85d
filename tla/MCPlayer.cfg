SPECIFICATION FairSpec
CONSTANTS
  Pids <- MCPids
  MAX_FILENUM = 3
  Stoppers = {}
INVARIANTS
  TypeOK
  AtMostOneChild
  PausedChildCanBeResumed
  StoppedMeansSilent
  NoLostWakeup
  ClearFindsNoChild
PROPERTIES
  ImplementsPlayback
  TerminatedIsReaped
  StoppedPlayerWakes
  ShutdownUnlessStuck
\* The program ends after clear_player.
CHECK_DEADLOCK FALSE
