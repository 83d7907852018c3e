SPECIFICATION BothSpec
CONSTANTS
    Connections = {k1, k2, k3}
    MaxConnections = 2
    RetryInitial = 1
    RetryMax = 3
    StartupHooks <- AppStartup
    ShutdownHooks <- AppShutdown
    Requests = {r1, r2}
    HttpApps <- MCHttpApps
    Base = 2
    PrefixLen = 2
    MaxFrameLen = 2
    ChunkLen = 2
    IdleTicks = 2
    Payloads <- ReaderPayloads
    Messages <- ReaderMessages
    MaxFrames = 3
INVARIANTS
    OrderlyTeardown
    RequestsServed
PROPERTIES
    
    ChannelSpec
    StallDetected
CHECK_DEADLOCK FALSE
