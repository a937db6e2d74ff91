CONSTANTS
    g = g
    a1 = a1
    a2 = a2
    b1 = b1
    b2 = b2
    b3 = b3
    NoBlock = NoBlock
    Genesis = g
    Blocks <- ForkBlocks
    Parent <- ForkParent
    Chain <- ForkChain
    Work <- ForkWork
    Addr <- ForkAddr
    Verdicts <- ForkOneBad
    MaxCalls <- NodeCalls
    Keep = 1
    MinimumWork = 3
    RpcInterleaves = FALSE
SPECIFICATION Spec
INVARIANTS
    
    PrunedUnlinkedExact
    PrunedBestTipActive
    FailedBlocksMarked
    ActiveChainValid
CHECK_DEADLOCK FALSE
