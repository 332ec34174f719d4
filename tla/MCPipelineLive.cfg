SPECIFICATION FairSpec
CONSTANTS
  NoId = NoId
  r1 = r1
  r2 = r2
  c1 = c1
  Ids = {r1, r2}
  Clients = {c1}
  MaxAttempts = 2
  MaxRequests = 2
  MaxFaults = 1
  MaxCrashes = 0
\* A behaviour ends when its requests are used up.
CHECK_DEADLOCK FALSE
INVARIANTS
  OnlyAskedIsCancelled
PROPERTIES
  InboxDrains
  RowsComeToRest
