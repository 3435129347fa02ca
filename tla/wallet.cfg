CONSTANTS
    Wallets = {"w1", "w2"}
    First <- MCFirst
    Requests <- MCRequests
    None = None Null = Null Required = Required Refused = Refused
    AtLeast <- MCAtLeast After <- MCAfter
    FirstYear = 2026 FirstWeekday = 4 LastYear = 2040
    PageSize = 1
    MaxNow = 1
    Skew = 1
    MaxEvents = 7
SPECIFICATION Spec
INVARIANTS StatementsAddUp ClosedWalletsAreStill ReadsAreSo AnswersAreSo
CHECK_DEADLOCK FALSE
