SPECIFICATION Spec
CONSTANTS
    None = None
    Events = {"bare", "wide", "alert"}
    Workers = {w1, w2}
    SdkRetries = 0
    MaxRetries = 2
    Method <- MethodByName
    Invalid = {}
    ClientId = {}
    Unstorable = {"wide"}
    Alerts = {"alert"}
    Faults = {"redis"}
    PushLimit = 2
    MaxCrashes = 0
SYMMETRY WorkerSymmetry
INVARIANTS EveryPushAccounted LossHasCause
CHECK_DEADLOCK FALSE
