CONSTANTS
  Parameter <- Parameters
  Attribute <- Attributes
  Initial <- TwoStates
  Numbers <- Written
  Positions <- OneToFour
  Faults <- Anything
  MaxCalls = 2
SPECIFICATION Spec
INVARIANT TypeOK
INVARIANT CommandsAccepted
INVARIANT WrittenIsHeld
INVARIANT ReadIsHeld
INVARIANT ListEndsWithWritten
INVARIANT NothingElseChanged
\* The calls are counted.
CHECK_DEADLOCK FALSE
