CONSTANTS
  Client <- WorkerOnly
  Request <- ListRequest
  Drive <- OneTwo
  Segments <- Answers
  Refused <- None
  Faults <- LateOrDamaged
  DamageAt <- OnlyLength
  MaxLate = 1
  NoRequest = NoRequest
SPECIFICATION FairSpec
PROPERTY ExchangeEnds
