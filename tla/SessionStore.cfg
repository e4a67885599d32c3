SPECIFICATION FairSpec
CONSTANTS
    r1 = r1
    m1 = m1
    m2 = m2
    t1 = t1
    t2 = t2
    t3 = t3
    None = None
    Roots <- OneTree
    Messages <- TwoIds
    LogCap = 1
    Timers <- ThreeTimers
    MaxSaves = 3
    MaxFailures = 1
INVARIANT NothingForgotten
INVARIANT FlushAloneIsDurable
PROPERTY ChangesAreWritten
