SPECIFICATION Spec
CONSTANTS
    MaxInputs = 4
    MinChange = 2
    Dust = 2
    SearchLimit = 4
    KeyOrder <- MCKeyOrder
    Blank = 0
    Amount = {1, 2, 3, 5}
    Owner = {1, 2}
    MaxCoins = 5
    MaxTarget = 9
    Base = 4
    Digits = 4
    Interval = 2
    Spacing = 4
    InitialBits <- MCPowLimitBits
    PowLimitBits <- MCPowLimitBits
    MaxElapsed = 40
    Radix = 3
    Decimals = 2
    UintMax = 60
    MaxSupply = 40
    MaxText = 6
    Number <- MCNumber
    Word = 65536
    MaxPort = 65535
    MaxPeers = 1024
    Dashed <- MCDashed
    DefaultConf = "conf"
    MaxArgs = 0
    Words = {"--network", "mainnet", "devnet", "--datadir", "--unsafe-start", "--conf", "other", "help"}
INVARIANT
    ProductionStarts
CHECK_DEADLOCK FALSE
