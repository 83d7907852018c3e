CONSTANTS
    Sources <- ConfigSources
    Slots <- ConfigSlots
    Linked = "port"
    Literals = {"v1", "v2"}
    FirstAnswer = "v2"
    Defaults <- ConfigDefaults
    Documents <- ConfigDocuments
    Hooks = {"onAddr", "onPort"}
    Targets <- ConfigTargets
    Triggers = {"watch", "sighup"}
    Callers = {c}
    MaxEdits = 2
    MaxChanges = 1
    MaxCalls = 1
SPECIFICATION FairSpec
CHECK_DEADLOCK FALSE
INVARIANTS
    LiveIsRoot
PROPERTIES
    EditsTakeEffect
