CONSTANTS
  r1 = r1
  r2 = r2
  r3 = r3
  NoRequest = NoRequest
  Requests <- MCRequests
SPECIFICATION Spec
INVARIANTS
  TypeOK
  SerialInOrder
  AtMostOneReply
  GracefulStopAnswersAll
  NoProjectAfterDispose
PROPERTY
  ImplementsSerialService
CHECK_DEADLOCK FALSE
