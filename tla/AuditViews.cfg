SPECIFICATION Spec
CONSTANTS
    p1 = p1
    e1 = e1
    Projects = {p1}
    Envs = {e1}
    Followed <- Singly
    MaxPage = 2
    MaxNav = 2
    MaxVer = 1
    MaxFail = 1
CHECK_DEADLOCK FALSE
INVARIANTS
    TypeOK
    ShownAnswersSelection
    WaitsOnlyWhileFetching
PROPERTIES
    NoTimeTravel
    PanelsCatchUp
