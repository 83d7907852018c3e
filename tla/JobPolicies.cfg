CONSTANTS
    Policies = {"Skip", "QueueOne", "CancelPrevious"}
    RunOnStartup = TRUE
    HasDeadline = TRUE
    BodyResults = {}
    MayPanic = TRUE
    Reporting = {1}
    Schedules = {hourly}
    Firing = {hourly}
    FirstSchedule = hourly
    Callers = {a}
    MaxRuns = 3
    MaxCalls <- PolicyCalls
SPECIFICATION Spec
CHECK_DEADLOCK FALSE
INVARIANTS
    SkipExclusive
    OneLiveRun
    PausedAgrees
    FiringsAccounted
    NotResurrected
