SPECIFICATION MCSpec
CONSTANTS
    Host = {"four", "six"}
    V6Host = {"six"}
    Port = {1, 2}
    DefaultPort = 1
    Malformed = Malformed
    SeenReward = 1
    GoodReward = 1
    Penalty = 2
    BanBelow <- MCBanBelow
    MaxInvalid = 3
    MinReputation <- MCMinReputation
    MaxReputation = 2
    BanTime = 1
    BanSeconds = {2}
    Outbound <- MCOutbound
    FirstFile <- MCFirstFile
    MaxTime = 1
    MaxLoads = 1
    Client = {c1, c2}
    Inbound <- MCInbound
    MaxConnects = 3
    Network = {0, 1, 2}
    MaxPayload = 2
INVARIANTS
    TypeOK
    BanHolds
    BanIsEarned
    HandshakeAgrees
    ReportIsDeserved
PROPERTIES
    NoAcceptAfterStop
    StopReturns
    HandshakeReturns
CHECK_DEADLOCK FALSE
