CONSTANTS
    MaxCalls = 2
    Kinds = {"stream"}
    WriteBuffer = 2
    ReplyBuffer = 1
    MaxSends = 0
    MaxReplies = 2
    Terminal = {"End"}
SPECIFICATION Spec
CHECK_DEADLOCK FALSE
INVARIANTS
    CallerHasEnd
