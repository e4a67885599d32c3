SPECIFICATION Spec
CONSTANTS
    m1 = m1
    m2 = m2
    m3 = m3
    c1 = c1
    c2 = c2
    None = None
    Nodes <- ThreeMessages
    Clears <- OneCommand
    Commands <- AllCommands
    MaxRestarts = 1
SYMMETRY MessageSymmetry
INVARIANT QueueSound
INVARIANT NoOrphans
INVARIANT StoreCurrent
PROPERTY StartsInOrder
PROPERTY NeverRevived
CHECK_DEADLOCK FALSE
