SPECIFICATION Spec
CONSTANTS
    Tx <- MCTx
    Block <- MCBlock
    Genesis <- MCGenesis
    NoHash <- MCNoHash
    NoBlock = NoBlock
    NoFile = NoFile
    Torn = Torn
    MaxSupply = 40
    InitialSubsidy = 4
    HalvingInterval = 10
    Maturity = 1
    MedianSpan = 2
    CryptoProvider = FALSE
    MaxHeight = 4
    MaxFaults <- NoFaults
    MaxDisconnects = 0
    Inner = {"plain", "f3", "again"}
    Leaf = {"f22"}
INVARIANTS
    OutpointSpentOnce
