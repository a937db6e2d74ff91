CONSTANTS
    g = g
    a1 = a1
    a2 = a2
    b2 = b2
    x = x
    y = y
    None = None
    Genesis = g
    Blocks <- MCBlocks
    Parent <- MCParent
    Chain <- MCChain
    Outs <- MCOuts
    Spends <- MCSpends
    Creates <- MCCreates
    Passing <- MCPassing
    Utxo <- MCUtxo
    Keep = 1
    MaxFile = 1
    MaxCrashes = 2
SPECIFICATION FairSpec
INVARIANTS
    TypeOK
    CoinsOfTip
    DatabaseRepairable
    ReferencesKept
    

    
CHECK_DEADLOCK FALSE
