SPECIFICATION Spec
CONSTANTS
    Events = {0, 2, 3, 5}
    Stamp <- StampByNumber
    EventType <- AllHttp
    Unowned = {5}
    TicksPerHour = 2
    HoursPerDay = 2
    RawDays = 1
    HourlyDays = 2
    RunHour = 1
    MaxLateness = 2
    MaxLag = 1
    Failures = TRUE
    MaxTime = 16
INVARIANTS RawDeletedAfterFolded HistoryCountsOnce RetentionHonoured
CHECK_DEADLOCK FALSE
