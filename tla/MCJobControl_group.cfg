CONSTANTS
    NThreads = 2
    NStart = 1
    Sigs = {9, 10, 18, 20}
    Caught = {10}
    Maskable = {10}
    MaxSends = 3
    MaxMasks = 1
SPECIFICATION FairSpec
CHECK_DEADLOCK FALSE
INVARIANT StoppedByStop
INVARIANT StopReachesAll
INVARIANT ParentTold
INVARIANT NoLostSignal
PROPERTY KilledEnds
PROPERTY StopCompletes
