\* Expected to fail: SIGINT while the child is paused.
SPECIFICATION FairSpec
CONSTANTS
  Pids <- MCPids
  MAX_FILENUM = 3
  Stoppers = {sigint}
PROPERTY ShutdownTerminates
CHECK_DEADLOCK FALSE
