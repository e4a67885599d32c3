SPECIFICATION FairSpec
CONSTANTS
    k1 = k1
    k2 = k2
    r1 = r1
    r2 = r2
    KeyIds = {k1, k2}
    Requests = {r1, r2}
    KeyFiles <- Files
    MaxAttempts = 2
INVARIANT AllKeysTried
INVARIANT RefusedAreBlamed
PROPERTY RotationSound
PROPERTY RequestEnds
