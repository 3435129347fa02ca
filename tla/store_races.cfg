SPECIFICATION StoreSpec
CONSTANTS
  Types <- MCTypes
  Tags <- MCTags
  LockHash <- MCLockHash
  Requests <- RacingRequests
  NoCause = NoCause
  Sessions = {s1, s2, s3}
  MaxRuns = 3
INVARIANTS OncePerKey BoundaryHeld SortsAfterItsBasis CommandsDoNotDeadlock
PROPERTIES SerialAppends ConflictIsReal
SYMMETRY SessionSymmetry
