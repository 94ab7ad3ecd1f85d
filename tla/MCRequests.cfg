SPECIFICATION Spec
INVARIANTS
  TypeOK
  QueueBounded
  NoStrandedRequest
  WholeUnlessTroubled
PROPERTIES
  AnswersInOrder
  ImplementsMailbox
CONSTANTS
  N = 2
  QUEUE_SIZE = 1
  RESEND_COUNT = 2
  NoRequest = NoRequest
  TrackChanges = TRUE
  MaxRequests <- MCRequestsSent
  Stoppers <- MCNobody
CHECK_DEADLOCK FALSE
