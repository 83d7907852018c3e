CONSTANTS
    MaxCalls = 1
    Kinds = {"unary", "stream"}
    WriteBuffer = 1
    ReplyBuffer = 1
    MaxSends = 1
    MaxReplies = 2
    Terminal = {"Response", "End", "Error"}
SPECIFICATION FairSpec
CHECK_DEADLOCK FALSE
PROPERTIES
    ShutdownResolves
    NoOrphan
