CONSTANTS
  i1 = i1
  i2 = i2
  i3 = i3
  NoItem = NoItem
  Item <- ThreeItems
  Raising <- OnlyFirst
  Recycled <- None
SPECIFICATION FairSpec
PROPERTY EveryItemFreed
PROPERTY DestroyEnds
PROPERTY BlockingCallReturns
\* The program stops after Destroy; a thread stuck before that is what
\* DestroyEnds looks for.
CHECK_DEADLOCK FALSE
