CONSTANTS
  i1 = i1
  i2 = i2
  i3 = i3
  NoItem = NoItem
  Item <- ThreeItems
  Raising <- None
  Recycled <- ThreeItems
SPECIFICATION Spec
INVARIANT TypeOK
INVARIANT OwnedOnce
INVARIANT NoLostWakeup
INVARIANT AllFinishedMeansIdle
INVARIANT NothingLeaked
PROPERTY ImplementsWorkQueue
