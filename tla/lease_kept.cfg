SPECIFICATION Spec
CONSTANTS
  s1 = s1
  s2 = s2
  Session = {s1, s2}
  Nobody = Nobody
  Heartbeat = 2
  VerifyTimeout = 1
  FailuresBeforeLost = 2
  ServerIdle = 8
INVARIANTS OneLeader StopsInTime
SYMMETRY SessionsAreAlike
