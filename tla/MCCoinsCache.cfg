CONSTANTS
    o1 = o1
    o2 = o2
    c1 = c1
    c2 = c2
    burned = burned
    h1 = h1
    h2 = h2
    Spent = Spent
    NoEntry = NoEntry
    NullHash = NullHash
    Outpoints <- MCOutpoints
    Coins <- MCCoins
    Unspendable <- MCUnspendable
    Hashes <- MCHashes
SYMMETRY Symmetry
SPECIFICATION Spec
INVARIANTS
    TypeOK
    FlagsSound
    NeverThrows
PROPERTIES
    CallsTakeEffect
    PlainMaps
