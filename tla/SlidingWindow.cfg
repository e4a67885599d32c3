SPECIFICATION FairSpec
CONSTANTS
    a = a
    b = b
    c = c
    d = d
    Callers <- FourCalls
    RateLimit = 2
    RateWindow = 3
    MaxIdle = 4
PROPERTY QuotaSpec
PROPERTY AllGetThrough
CHECK_DEADLOCK FALSE
