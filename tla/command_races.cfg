SPECIFICATION FairSpec
CONSTANTS
  Types <- MCTypes
  Tags <- MCTags
  LockHash <- MCLockHash
  Calls = {1, 2, 3}
  Requests <- MCRequests
  Sendings <- RacingSendings
  InitialRows <- MCInitialRows
  Retries = 1
  MaxFaults = 1
  LastPeriod = 2
  NoCause = NoCause
  NoFingerprint = NoFingerprint
  LookupOf <- MCLookupOf
  ModelOf <- MCModelOf
  EntityOf <- MCEntityOf
  Decide <- MCDecide
  Entities = {"w1"}
  LifecycleTypes <- MCLifecycleTypes
  ScopedTypes <- MCScopedTypes
  OpenedType = "Started"
  ClosedType = "Ended"
  Periods = {1, 2, 3}
  TagOfPeriod <- MCTagOfPeriod
  Opening <- MCOpening
  Closing <- MCClosing
INVARIANTS AppliedOnce DecidedOnTheLog AnswersAreTrue
PROPERTIES EveryCallIsAnswered
CHECK_DEADLOCK FALSE
