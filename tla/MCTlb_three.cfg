CONSTANTS
    c1 = c1
    c2 = c2
    c3 = c3
    f1 = f1
    f2 = f2
    CPUs = {c1, c2, c3}
    Frames = {f1, f2}
    NoFrame = NoFrame
    NoCPU = NoCPU
    GEN = 8
    FirstGen = 7
    MaxSends = 2
SPECIFICATION Spec
CHECK_DEADLOCK FALSE
SYMMETRY Symmetry
INVARIANTS NoStaleFrame WaitedForServes
