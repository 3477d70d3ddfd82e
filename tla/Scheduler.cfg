CONSTANTS
    d1 = d1
    d2 = d2
    d3 = d3
    Delay = {d1, d2, d3}
    Job <- Tasks
    MaxTime = 1
    Slack = 0
    FetchSize = 2
    Interval = 1
    Repeats <- OnceOrTwice
    Modes = {FALSE}
    MaxCrashes = 1
    MaxTimeOuts = 1
    MayFail = TRUE
    RemoveAfterSuccess = FALSE
SPECIFICATION Spec
SYMMETRY Rows
INVARIANTS TypeOK CommandOnceUnlessLost OneHeirUnlessDetached WaitsForTheOnlyTask
PROPERTIES SuccessIsFinal
