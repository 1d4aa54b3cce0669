SPECIFICATION FairSpec
CONSTANTS
    None = None
    Events = {"own"}
    Workers = {w1}
    SdkRetries = 1
    MaxRetries = 2
    Method <- MethodByName
    Invalid = {}
    ClientId = {"own"}
    Unstorable = {}
    Alerts = {}
    Faults = {"net", "redis", "db", "crash"}
    PushLimit = 2
    MaxCrashes = 1
INVARIANTS EveryPushAccounted AnalysedOnce LossHasCause
PROPERTIES ImplementsTrail SendSettles QueueDrains
CHECK_DEADLOCK FALSE
