SPECIFICATION Spec
CONSTANTS
    tv1 = tv1
    tv2 = tv2
    noc = noc
    Screens = {tv1, tv2}
    Codes = {noc}
    Queries <- MCQueries
    AccessTTL = 2
    RenewMargin = 1
    RefreshTTL = 3
    MaxClock = 4
    MaxHash = 3
CHECK_DEADLOCK FALSE
INVARIANTS
    RevokedGoesDark
    OneRenewerPerCode
    DisconnectEndsRenewal
