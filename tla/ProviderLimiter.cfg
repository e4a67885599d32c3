SPECIFICATION Spec
CONSTANTS
    q1 = q1
    q2 = q2
    q3 = q3
    Requests <- ThreeStreams
    RateLimit = 2
    RateWindow = 3
    MaxConcurrency = 2
    MaxRetries = 1
    BaseDelay = 1
    MaxDelay = 1
    Jitter = 1
    FinalBlock = 3
    MaxReopens = 1
SYMMETRY StreamSymmetry
VIEW RelativeTime
INVARIANT TypeOK
INVARIANT SlotsConserved
INVARIANT LeaksBounded
PROPERTY QuotaSpec
CHECK_DEADLOCK FALSE
