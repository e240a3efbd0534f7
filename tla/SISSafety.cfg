CONSTANTS
  Client <- WorkerOnly
  Request <- AllRequests
  Drive <- OneTwo
  Segments <- Answers
  Refused <- OnlyValue1
  Faults <- Noise
  DamageAt <- NotLength
  MaxLate = 1
  NoRequest = NoRequest
SPECIFICATION Spec
INVARIANT TypeOK
INVARIANT AcceptedIsAnswer
INVARIANT NothingLeftToRead
