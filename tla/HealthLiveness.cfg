SPECIFICATION FairSpec
CONSTANTS
    Monitors = {m1}
    Flaky = {m1}
    Requests = {r1}
    Slots = {g1, g2}
    MaxMonitors = 1
    Faults = FALSE
    MaxEdits = 1
    MaxProcesses = 2
PROPERTIES StatusFollowsService PausedIsNotPolled
CHECK_DEADLOCK FALSE
