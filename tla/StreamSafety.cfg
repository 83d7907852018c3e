CONSTANTS
    Ids = {i1, i2}
    MaxInFlight = 2
    MaxTasks = 2
    Buffer = 1
    PayloadSizes = {0, 1}
    MaxCallBytes = 1
    MaxConnBytes = 1
    MaxInstances = 2
    MaxItems = 1
SYMMETRY IdSymmetry
SPECIFICATION Spec
INVARIANTS
    BytesAgree
    TerminalIsLast
