CONSTANTS
  main = main
  timer = timer
  Thread <- MainAndTimer
  Controllers <- OnlyMain
  Changing <- AllChanging
  Getting <- SomeGetting
  RunSequences <- OneOrTwo
  Faults <- AllFaults
  InitialModes <- FoundMode
  Capacity = 3
  InitialLengths <- FoundFull
  MaxCalls = 2
SPECIFICATION FairSpec
INVARIANT TypeOK
INVARIANT NothingLeftBehind
INVARIANT FlashOnlyOnChange
INVARIANT SequenceWhole
INVARIANT TriggeredOnce
PROPERTY CallsReturn
CHECK_DEADLOCK FALSE
