CONSTANTS
    Policies = {"QueueOne", "CancelPrevious"}
    RunOnStartup = FALSE
    HasDeadline = FALSE
    BodyResults = {"Success"}
    MayPanic = TRUE
    Reporting = {}
    Schedules = {hourly, never}
    Firing = {hourly}
    FirstSchedule = hourly
    Callers = {a, b}
    MaxRuns = 2
    MaxCalls <- LivenessCalls
SPECIFICATION FairSpec
CHECK_DEADLOCK FALSE
PROPERTIES
    ControlsTakeEffect
    CancelWindsDown
