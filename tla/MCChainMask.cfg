CONSTANTS
    g = g
    a1 = a1
    a2 = a2
    b1 = b1
    b2 = b2
    b3 = b3
    NoBlock = NoBlock
    Genesis = g
    Blocks <- MCBlocks
    Parent <- MCParent
    Chain <- MCChain
    Work <- MCWork
    Addr <- MCAddr
    Verdicts <- NoneBad
    MaxCalls <- UndoCalls
    Keep = 2
    MinimumWork = 3
    RpcInterleaves = FALSE
SPECIFICATION Spec
INVARIANTS
    MarksUndone
CHECK_DEADLOCK FALSE
