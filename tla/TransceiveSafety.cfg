CONSTANTS
  t1 = t1
  t2 = t2
  Nobody = Nobody
  Thread <- TwoThreads
  Faults <- AllButLate
  MaxCalls = 3
  MaxRetries = 1
  MaxRestarts = 1
SPECIFICATION FairSpec
INVARIANT TypeOK
INVARIANT ExchangesSerialized
INVARIANT AnswerIsForRequest
INVARIANT FreeMeansQuiet
PROPERTY ImplementsService
PROPERTY CallsReturn
\* The program stops when its calls are made, or waits for ever.
CHECK_DEADLOCK FALSE
