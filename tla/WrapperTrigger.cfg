CONSTANTS
  main = main
  timer = timer
  Thread <- OnlyMain
  Controllers <- OnlyMain
  Changing <- AllChanging
  Getting <- SomeGetting
  RunSequences <- OneOrTwo
  Faults <- NoFaults
  InitialModes <- FoundMode
  Capacity = 3
  InitialLengths <- FoundFull
  MaxCalls = 2
SPECIFICATION Spec
INVARIANT TriggeredMeansStarted
CHECK_DEADLOCK FALSE
