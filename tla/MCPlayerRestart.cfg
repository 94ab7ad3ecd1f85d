\* Expected to fail: STOP or PAUSE restarts a stopped player.
SPECIFICATION Spec
CONSTANTS
  Pids <- MCPids
  MAX_FILENUM = 3
  Stoppers = {sigint}
PROPERTY OnlyNavigationRestarts
CHECK_DEADLOCK FALSE
