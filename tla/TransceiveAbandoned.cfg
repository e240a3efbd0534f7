CONSTANTS
  t1 = t1
  t2 = t2
  Nobody = Nobody
  Thread <- TwoThreads
  Faults <- AllButLate
  MaxCalls = 1
  MaxRetries = 1
  MaxRestarts = 0
SPECIFICATION Spec
INVARIANT IdleMeansUnlocked
