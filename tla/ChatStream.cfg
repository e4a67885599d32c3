SPECIFICATION FairSpec
CONSTANTS
    Tools <- TwoTools
    Buffered <- TaskTool
    MaxRetries = 1
    MaxChunks = 3
INVARIANT OneAttempt
INVARIANT SalvagedWhole
PROPERTY StreamContract
PROPERTY MessageEnds
CHECK_DEADLOCK FALSE
