SPECIFICATION Spec
CONSTANTS
  m1 = m1
  m2 = m2
  k1 = k1
  k2 = k2
  Nobody = Nobody
  AnotherProcess = AnotherProcess
  Module = {m1, m2}
  Key = {k1, k2}
  KeyOf <- KeyEach
  MaxConns = 2
  MaxHandles = 2
  FailuresBeforeLost = 1
  MaxFaults = 1
  MaxTurns = 1
  MayStop = FALSE
INVARIANTS LostMeansFailed PooledIsClean
SYMMETRY Swapping
CHECK_DEADLOCK FALSE
