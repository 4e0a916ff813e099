SPECIFICATION Spec
CONSTANTS
    CPUs = {c0, c1}
    BSP = c0
    t1 = t1
    t2 = t2
    t3 = t3
    Threads = {t1, t2, t3}
    None = None
    Rescan = 1
SYMMETRY Symmetry
INVARIANTS OneCpuPerThread NoLostKick NoForgottenThread PinnedAtHome
