SPECIFICATION FairSpec
CONSTANTS
    c1 = c1
    r1 = r1
    r2 = r2
    Conns <- AllConns
    Calls <- AllCalls
    Scenarios <- AllScenarios
    MaxConnections = 1
    SocketDepth = 1
    IdleTimeout = TRUE
    OutboundBuffer = 1
    Fanout = 1
    ChannelDepth = 1
INVARIANTS SlotsOwned SessionReleased
PROPERTIES ShutdownEnds PublishReturns CallsEnd
CHECK_DEADLOCK FALSE
