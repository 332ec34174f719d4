SPECIFICATION FairSpec
CONSTANTS
  None = None
  c1 = c1
  c2 = c2
  Clients = {c1, c2}
  Ops <- ToggleOps
  Tracks = 2
  MaxRecs = 2
  MaxFaults = 0
\* A behaviour ends when its recordings are used up.
CHECK_DEADLOCK FALSE
INVARIANTS
  ToggleDecisionStands

  
