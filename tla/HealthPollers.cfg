SPECIFICATION Spec
CONSTANTS
    Monitors = {m1, m2}
    Flaky = {m1}
    Requests = {r1}
    Slots = {g1, g2}
    MaxMonitors = 1
    Faults = TRUE
    MaxEdits = 1
    MaxProcesses = 2
SYMMETRY SlotSymmetry
INVARIANTS PollersConsistent EventsTrackStatus
CHECK_DEADLOCK FALSE
