SPECIFICATION FairSpec
CONSTANTS
    Indexes <- TwoBlocks
    MaxRetries = 1
    MaxEvents = 4
CONSTRAINT Watched
INVARIANT TypeOK
INVARIANT ThinkingHidden
INVARIANT OneWholeAnswer
PROPERTY WellFormed
PROPERTY MessageEnds
CHECK_DEADLOCK FALSE
