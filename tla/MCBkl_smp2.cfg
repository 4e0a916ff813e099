CONSTANTS
    c1 = c1
    c2 = c2
    t1 = t1
    t2 = t2
    CPUs = {c1, c2}
    Threads = {t1, t2}
    BSP = c1
    NoCPU = NoCPU
    MaxNest = 3
SPECIFICATION Spec
SYMMETRY Symmetry
INVARIANT Exclusion
INVARIANT NoSelfDeadlock
INVARIANT LockFreeOutside
