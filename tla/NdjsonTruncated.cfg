SPECIFICATION NdjsonSpec
CONSTANTS
    Namespaces = {"@run"}
    Screaming <- MCScreaming
    MaxDepth = 3
    MaxSteps = 8
    MaxText = 12
    Stems <- MCStems
    Documents <- MCDocuments
    Types <- MCTypes
    Bindings <- MCBindings
    Environments <- MCEnvironments
    MaxEdits = 1
    MaxBinds = 3
    MaxRaw = 5
    MaxBody = 5
    MaxChunk = 3
    MaxLineBytes = 2
    MaxStreamBytes = 4
    MaxStreamItems = 2
    Threads = {"t1", "t2"}
    LogRuns = {"r1", "r2", "r3"}
    Sizes = {1, 3}
    CaptureCapacity = 2
    MaxLogRuns = 2
    MaxLogBytes = 3
    Ttl = 1
    MaxEvents = 3
    MaxClock = 2
    Procs = {"p", "q"}
    Ensurers = {"e"}
    Depth = 2
    Ancestors <- MCAncestors
    Calls = {"a", "b"}
    Streaming = {"b"}
    EventsCapacity = 1
    RequestCapacity = 1
    InputCapacity = 1
    MaxItems = 2
    MaxInputs = 1
    RpcApps <- MCRpcApps
    RpcPaths <- MCRpcPaths
    UserCodes = {"Denied"}
    MaxRequests = 2
    MaxYields = 2
    HeaderMaps <- MCHeaderMaps
    Providers <- MCProviders
    MaxBodyParts = 2
    StaticLists <- MCStaticLists
    Dynamic <- MCDynamic
    RecentCap = 1
    MaxJobs = 2
    MaxJobRuns = 2
INVARIANT OnlySentItems
CHECK_DEADLOCK FALSE
