CONSTANTS
    g = g
    a1 = a1
    a2 = a2
    b1 = b1
    b2 = b2
    b3 = b3
    NoBlock = NoBlock
    Genesis = g
    Blocks <- ForkBlocks
    Parent <- ForkParent
    Chain <- ForkChain
    Work <- ForkWork
    Addr <- ForkAddr
    Verdicts <- ForkGood
    MaxCalls <- InvalidateCall
    Keep = 2
    MinimumWork = 3
    RpcInterleaves = FALSE
SPECIFICATION Spec
INVARIANTS
    ChainTxExact
CHECK_DEADLOCK FALSE
