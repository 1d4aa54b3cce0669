SPECIFICATION Spec
CONSTANTS
    Events = {0, 1, 2, 3}
    Stamp <- StampByNumber
    EventType <- AllHttp
    Unowned = {}
    TicksPerHour = 1
    HoursPerDay = 2
    RawDays = 1
    HourlyDays = 2
    RunHour = 1
    MaxLateness = 0
    MaxLag = 0
    Failures = FALSE
    MaxTime = 8
INVARIANTS NothingLost
CHECK_DEADLOCK FALSE
