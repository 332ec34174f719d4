SPECIFICATION Spec
CONSTANTS
  NoId = NoId
  r1 = r1
  c1 = c1
  c2 = c2
  Ids = {r1}
  Clients = {c1, c2}
  MaxAttempts = 2
  MaxRequests = 3
  MaxFaults = 1
  MaxCrashes = 1
\* A behaviour ends when its requests are used up.
CHECK_DEADLOCK FALSE
SYMMETRY ClientSymmetry
INVARIANTS
  BusyRowsHaveWork
  ClaimedIsHeld
  CancelledStaysDown
