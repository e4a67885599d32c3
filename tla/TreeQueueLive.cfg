SPECIFICATION FairSpec
CONSTANTS
    m1 = m1
    m2 = m2
    m3 = m3
    c1 = c1
    c2 = c2
    None = None
    Nodes <- ThreeMessages
    Clears <- OneCommand
    Commands = {"stop", "stop_all", "clear_branch", "clear_all"}
    MaxRestarts = 0
CONSTRAINT OneTree
PROPERTY QueuedGetsTurn
CHECK_DEADLOCK FALSE
