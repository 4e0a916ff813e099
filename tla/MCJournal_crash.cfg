CONSTANTS
    f1 = f1
    f2 = f2
    b1 = b1
    b2 = b2
    Files = {f1, f2}
    DataBlocks = {b1, b2}
    Vers = {1, 2}
    None = None
    Bitmap = Bitmap
    Cap = 3
    TagsPer = 2
    ReplayWrites = {TRUE}
    MaxCalls = 4
    MaxCuts = 2
    MaxFaults = 1
SPECIFICATION JnlSpec
SYMMETRY Symmetry
CHECK_DEADLOCK FALSE
INVARIANT DurableConsistent
PROPERTY ImplementsAtomicFs
