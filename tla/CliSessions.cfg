SPECIFICATION FairSpec
CONSTANTS
    a1 = a1
    a2 = a2
    a3 = a3
    b1 = b1
    None = None
    Turns <- Fork
    ReplyTo <- ForkParents
    TreeOf <- ForkTrees
    MaxStops = 2
CONSTRAINT Bounded
INVARIANT TypeOK
INVARIANT StopAllKills
INVARIANT MapsAgree
INVARIANT SessionsUnshared
PROPERTY CancelledEnds
PROPERTY StopAllReturns
CHECK_DEADLOCK FALSE
