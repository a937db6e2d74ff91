CONSTANTS
    g = g
    a1 = a1
    a2 = a2
    b1 = b1
    b2 = b2
    b3 = b3
    NoBlock = NoBlock
    Genesis = g
    Blocks <- MCBlocks
    Parent <- MCParent
    Chain <- MCChain
    Work <- MCWork
    Addr <- MCAddr
    Verdicts <- OneBad
    MaxCalls <- OperatorCalls
    Keep = 2
    MinimumWork = 3
    RpcInterleaves = FALSE
SPECIFICATION FairSpec
INVARIANTS
    TypeOK
    StatusConsistent
    CandidatesComplete
    CandidatesSound
    CandidatesLeft
    UnlinkedExact
    FailureRooted
    ActiveChainValid
    BestTipActive
PROPERTIES
    RoundsKeepTip
    ActivationSettles
CHECK_DEADLOCK FALSE
