CONSTANTS
    Outs = {o1, o2, o3, o4}
    MaxTxs = 3
SPECIFICATION Spec
SYMMETRY Interchangeable
INVARIANTS
    TypeOK
    ConnectEffect
    RollforwardEffect
    DisconnectEffect
    CleanExact
CHECK_DEADLOCK FALSE
