SPECIFICATION Spec
CONSTANTS
    Tx <- MCTx
    Block <- MCBlock
    Genesis <- MCGenesis
    NoHash <- MCNoHash
    NoBlock = NoBlock
    NoFile = NoFile
    Torn = Torn
    MaxSupply = 13
    InitialSubsidy = 4
    HalvingInterval = 2
    Maturity = 1
    MedianSpan = 2
    CryptoProvider = FALSE
    MaxHeight = 3
    MaxFaults <- StoreFault
    MaxDisconnects = 0
    Inner = {"plain", "f3", "low"}
    Leaf = {"c2", "f22", "fs"}
INVARIANTS
    AlwaysReopens
CHECK_DEADLOCK FALSE
