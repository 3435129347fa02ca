SPECIFICATION Spec
CONSTANTS
  Catalogue <- MCCatalogue
  Data <- MCData
  Scopes <- MCScopes
  PageSize = 1
  SampleSize = 1
  MaxXid = 2
  MaxPos = 2
INVARIANTS VerifiedIsReadable NothingPersonalIsShown ReasonsAreOfNow
CHECK_DEADLOCK FALSE
