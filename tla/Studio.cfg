SPECIFICATION Spec
CONSTANTS
    p1 = p1
    w1 = w1
    w2 = w2
    Projects = {p1}
    Periods = {"today"}
    Widgets = {w1, w2}
    Queries = {"a", "b"}
    Reports = {"r1"}
    Saved <- OneWidget
    MaxSteps = 4
    MaxFail = 1
CHECK_DEADLOCK FALSE
INVARIANTS
    TypeOK
    WidgetShowsItsQuery
    SpinnerIsBackedByRun
    SavedUnderOwnReport
PROPERTIES
    SaveButtonReturns
