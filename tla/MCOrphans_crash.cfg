CONSTANTS
    Inodes = {i1, i2, i3}
    i1 = i1
    i2 = i2
    i3 = i3
    NSlots = 1
    Blocks = 3
    MaxOps = 4
    MaxCrashes = 2
SPECIFICATION Spec
SYMMETRY Symmetry
CHECK_DEADLOCK FALSE
INVARIANT RecordExact
INVARIANT NeverHalfFreed
INVARIANT HeldOrFinished
