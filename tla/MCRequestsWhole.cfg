SPECIFICATION Spec
INVARIANT MessagesAreWhole
CONSTANTS
  N = 2
  QUEUE_SIZE = 0
  RESEND_COUNT = 2
  NoRequest = NoRequest
  TrackChanges = TRUE
  MaxRequests <- MCOneEach
  Stoppers <- MCStoppers
CHECK_DEADLOCK FALSE
