CONSTANTS
    Ids = {i1}
    MaxInFlight = 1
    MaxTasks = 2
    Buffer = 1
    PayloadSizes = {1, 2}
    MaxCallBytes = 1
    MaxConnBytes = 1
    MaxInstances = 2
    MaxItems = 1
SPECIFICATION FairSpec
PROPERTIES
    SlotReclaimed
    EndDelivered
    ClosedUnwinds
