SPECIFICATION Spec
CONSTANTS
    Callers = {c1, c2, c3}
    Nobody = Nobody
    User = User
    MaxSpawns = 3
    MaxUser = 2
INVARIANTS SingleChild LeavesNothingBehind
PROPERTIES KeepsPromise
CHECK_DEADLOCK FALSE
