CONSTANTS
    r1 = r1
    w1 = w1
    Readers = {r1}
    Writers = {w1}
    Faulting = {r1, w1}
    PIPE_BUF_SIZE = 2
    WORD = 8
    MaxLen = 3
    MaxBytes = 4
    MaxEnds = 2
SPECIFICATION FairSpec
INVARIANT NoLostWakeup
INVARIANT NoUseAfterFree
INVARIANT NoLeak
INVARIANT ByteStream
PROPERTY BlockedCallsEnd
