SPECIFICATION FairSpec
CONSTANTS
    CPUs = {c0, c1}
    BSP = c0
    Threads = {t1}
    None = None
    Rescan = 1
PROPERTY RunnableRuns
