SPECIFICATION Spec
CONSTANTS
    m1 = m1
    m2 = m2
    m3 = m3
    c1 = c1
    c2 = c2
    None = None
    Nodes <- ThreeMessages
    Clears <- TwoCommands
    Commands = {"stop", "clear_branch", "restart"}
    MaxRestarts = 1
SYMMETRY MessageSymmetry
INVARIANT OneTurnPerTree
CHECK_DEADLOCK FALSE
