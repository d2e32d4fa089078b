SPECIFICATION LiveSpendSpec
CONSTANTS
    Tx <- MCTx
    Block <- MCBlock
    Genesis <- MCGenesis
    NoHash <- MCNoHash
    NoBlock = NoBlock
    NoFile = NoFile
    Torn = Torn
    MaxSupply = 100
    InitialSubsidy = 4
    HalvingInterval = 2
    Maturity = 1
    MedianSpan = 3
    CryptoProvider = FALSE
    MaxHeight = 4
    MaxFaults <- NoFaults
    MaxDisconnects = 0
    Offered <- Foreign
    BlockId <- MCBlockId
    CoinbaseId <- MCCoinbaseId
    MaxCount = 2
    MaxBytes = 4
    MaxInputs = 5
    MinChange = 1
    Dust = 1
    SearchLimit = 3
    KeyOrder <- MCKeyOrder
    Blank = Blank
    Address = {"a", "m"}
    Request <- MCRequest
    Owner <- MCOwner
    Signable <- MCSignable
    PaymentId <- MCPaymentId
    MaxKeys = 2
INVARIANTS
    
    PaymentIsExact
    CandidateFate
    PoolIsMinable
PROPERTIES
    PooledIsMined
CHECK_DEADLOCK FALSE
