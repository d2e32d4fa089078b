SPECIFICATION Spec
CONSTANTS
    Tx <- MCTx
    Block <- MCBlock
    Genesis <- MCGenesis
    NoHash <- MCNoHash
    NoBlock = NoBlock
    NoFile = NoFile
    Torn = Torn
    MaxSupply = 12
    InitialSubsidy = 4
    HalvingInterval = 2
    Maturity = 2
    MedianSpan = 3
    CryptoProvider = FALSE
    MaxHeight = 4
    MaxFaults <- NoFaults
    MaxDisconnects = 0
    Inner = {"plain", "low", "stale", "f3", "f22", "c2"}
    Leaf = {"over", "free", "fs", "f5", "ff", "chained", "twice", "early", "unsealed", "high", "bare", "extra"}
INVARIANTS
    PoolConsistent
    OutpointSpentOnce
    CoinbasesMature
