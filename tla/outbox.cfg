SPECIFICATION OutboxSpec
CONSTANTS
  Instances = {i1, i2}
  Unfenced = {}
  NoOne = NoOne
  Kind = "publisher"
  BatchSize = 2
  MaxErrors = 2
  MaxXid = 2
  MaxPos = 2
  MaxFailures = 1
  MaxFaults = 1
  MaxRequests = 1
  PageSize = 1
  BacklogCap = 1
SYMMETRY Same
INVARIANTS NoSkip FollowersMissNothing AnsweredPauseHolds CaughtUpIsTrue
