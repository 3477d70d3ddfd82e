CONSTANTS
    d1 = d1
    d2 = d2
    d3 = d3
    Delay = {d1, d2}
    Job <- Tasks
    MaxTime = 1
    Slack = 0
    FetchSize = 1
    Interval = 1
    Repeats <- OnceOnly
    Modes = {TRUE, FALSE}
    MaxCrashes = 1
    MaxTimeOuts = 1
    MayFail = TRUE
    RemoveAfterSuccess = TRUE
SPECIFICATION FairSpec
PROPERTY EveryRowSucceeds
