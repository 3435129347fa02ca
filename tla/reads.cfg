SPECIFICATION FairSpec
CONSTANTS
  balances = balances
  summaries = summaries
  page1 = page1
  View = {balances, summaries}
  Selection <- MCSelection
  Endpoints <- MCEndpoints
  Endpoint = {balances, summaries}
  Page = {page1}
  Follows <- MCFollows
  MaxXid = 2
  MayFail = {balances}
  MaxFaults = 1
INVARIANTS ReadsWhatWasWritten SleepersAreTold
PROPERTIES ReadsEnd
