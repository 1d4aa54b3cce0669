SPECIFICATION FairSpec
CONSTANTS
    None = None
    Events = {"bare"}
    Workers = {w1}
    SdkRetries = 1
    MaxRetries = 2
    Method <- MethodByName
    Invalid = {}
    ClientId = {}
    Unstorable = {}
    Alerts = {}
    Faults = {}
    PushLimit = 1
    MaxCrashes = 0
PROPERTIES AcceptedIsStored
CHECK_DEADLOCK FALSE
