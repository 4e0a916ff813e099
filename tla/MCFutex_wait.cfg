SPECIFICATION FutexSpec
CHECK_DEADLOCK FALSE
CONSTANTS
    Tasks = {t1, t2}
    Vals = {0, 1}
    SeqMod = 8
    MaxSleeps = 2
    Signalled = {t1, t2}
    Droppers = {t1, t2}
INVARIANTS NoLostWake
PROPERTIES WakeNotStolen TimeoutHonoured
SYMMETRY ThreadSymmetry
