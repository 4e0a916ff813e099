SPECIFICATION FairSpec
CONSTANTS
    MAX_PROCS = 4
    MaxPid = 4
    Killable = {3}
    Codes = {1}
    Killed = 9
    CloseSleeps = TRUE
    CopySleeps = TRUE
    None = None
INVARIANTS NoLostWait StatusTold ExitedReapable
PROPERTIES ReleasedGone CollectedOnce GroupExitEnds
