CONSTANTS
  Attributes <- MoreKinds
  Values <- LowerHalf
  MayEdit <- Integral
  Undescribed <- Unspecified
  CommandMode <- UnsignedWord
  NotTyped = NotTyped
SPECIFICATION Spec
INVARIANT TypeOK
INVARIANT WriteTakesEffect
PROPERTY ShownIsValue
PROPERTY TargetPosAfterIsSet
