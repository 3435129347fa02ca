SPECIFICATION FairPollerSpec
CONSTANTS
  Instances = {i1, i2}
  Unfenced = {}
  NoOne = NoOne
  Kind = "view"
  BatchSize = 1
  MaxErrors = 2
  MaxXid = 2
  MaxPos = 1
  MaxFailures = 1
  MaxFaults = 1
  MaxRequests = 2
INVARIANTS ViewIsItsCursor
PROPERTIES HandledInTheEnd
