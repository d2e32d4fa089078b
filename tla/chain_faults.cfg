SPECIFICATION Spec
CONSTANTS
    Tx <- MCTx
    Block <- MCBlock
    Genesis <- MCGenesis
    NoHash <- MCNoHash
    NoBlock = NoBlock
    NoFile = NoFile
    Torn = Torn
    MaxSupply = 12
    InitialSubsidy = 4
    HalvingInterval = 2
    Maturity = 1
    MedianSpan = 2
    CryptoProvider = FALSE
    MaxHeight = 3
    MaxFaults <- AnyFault
    MaxDisconnects = 1
    Inner = {"plain", "f3", "low"}
    Leaf = {"c2", "over", "twice", "chained"}
INVARIANTS
    UnspentWithinMinted
    MintedWithinLimit
    StateIsReplay
    IndexBehindFiles
    CanReopen
    IndexMatchesChain
    ChainIsValid
PROPERTIES
    RefinesStore
CHECK_DEADLOCK FALSE
