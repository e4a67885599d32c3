SPECIFICATION FairSpec
CONSTANTS
    q1 = q1
    q2 = q2
    q3 = q3
    Requests <- ThreeStreams
    RateLimit = 1
    RateWindow = 2
    MaxConcurrency = 1
    MaxRetries = 1
    BaseDelay = 1
    MaxDelay = 1
    Jitter = 1
    FinalBlock = 3
    MaxReopens = 1
VIEW RelativeTime
PROPERTY RequestEnds
CHECK_DEADLOCK FALSE
