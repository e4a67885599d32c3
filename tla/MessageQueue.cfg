SPECIFICATION FairSpec
CONSTANTS
    m1 = m1
    s1 = s1
    s2 = s2
    k1 = k1
    None = None
    Screens = {m1}
    Sends <- TwoSends
    SendKey <- OneKey
    MaxEdits = 2
    MaxRetries = 2
INVARIANT TypeOK
INVARIANT NoWaiterLost
INVARIANT NewestShown
PROPERTY Answered
CHECK_DEADLOCK FALSE
