CONSTANTS
  Recs = {r1, r2}
  Callers = {c1, c2}
  Queries = {q1, q2}
  Cold = Cold
  MaxCached = 3
  MaxText = 2
SPECIFICATION Spec
SYMMETRY Symmetry
INVARIANTS SnapshotIsCurrent SnapshotIsBounded DeletedAreGone
CHECK_DEADLOCK FALSE
