SPECIFICATION Spec
CONSTANTS
  None = None
  c1 = c1
  c2 = c2
  Clients = {c1, c2}
  Ops <- MixedOps
  Tracks = 2
  MaxRecs = 3
  MaxFaults = 1
\* A behaviour ends when its recordings are used up.
CHECK_DEADLOCK FALSE
SYMMETRY ClientSymmetry
INVARIANTS
  OneHolder
  NoOrphanCapture
  RowsAreBacked
  HandedOverWhole
PROPERTIES
  SettledRowsStay
  FinishedOrDiscarded
