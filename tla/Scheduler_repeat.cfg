CONSTANTS
    d1 = d1
    d2 = d2
    d3 = d3
    Delay = {d1, d2, d3}
    Job <- Tasks
    MaxTime = 2
    Slack = 0
    FetchSize = 1
    Interval = 1
    Repeats <- OneOrTwo
    Modes = {FALSE}
    MaxCrashes = 0
    MaxTimeOuts = 0
    MayFail = TRUE
    RemoveAfterSuccess = FALSE
SPECIFICATION Spec
INVARIANT RepeatCountEnds
