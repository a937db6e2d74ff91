CONSTANTS
    w1 = w1
    w2 = w2
    Master = m
    Workers <- MCWorkers
    Checks <- MCChecks
    nBatchSize <- MCBatchSize
SPECIFICATION FairSpec
INVARIANTS
    TypeOK
    CountsExact
    VerdictExact
    FinishedBeforeContinuing
    MasterNotStranded
PROPERTIES
    WaitReturns
