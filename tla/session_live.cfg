SPECIFICATION FairSpec
CONSTANTS
  m1 = m1
  m2 = m2
  k1 = k1
  k2 = k2
  Nobody = Nobody
  AnotherProcess = AnotherProcess
  Module = {m1, m2}
  Key = {k1}
  KeyOf <- KeySame
  MaxConns = 2
  MaxHandles = 3
  FailuresBeforeLost = 1
  MaxFaults = 1
  MaxTurns = 0
  MayStop = TRUE
INVARIANTS
  OneLeaderOfAKey
PROPERTIES
  LedInTheEnd
CHECK_DEADLOCK FALSE
