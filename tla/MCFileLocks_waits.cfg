CONSTANTS
    NTables = 2
    ThreadIds = {a, b}
    NSlots = 2
    Uids = {0, 1}
    OFF_MAX = 3
    Bases = {1, 2}
    Starts = {0}
    Lens <- MCLens
    LOCKS_MAX = 4
    LOCKS_PER_UID = 2
    CloseSleeps = TRUE
    MaxFids = 2
    MaxOps = 4
SPECIFICATION Spec
SYMMETRY Alike
CHECK_DEADLOCK FALSE
INVARIANT NoConflict
INVARIANT OwnerDisjoint
INVARIANT CountsExact
INVARIANT WaiterBlocked
INVARIANT NoStrandedLock
