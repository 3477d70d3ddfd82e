CONSTANTS
    s1 = s1
    s2 = s2
    Setting = {s1, s2}
    Composites <- TwoSettings
    MaxDepth = 2
    MaxWrites = 2
    CatchNested = FALSE
    DisposeMayFail = TRUE
SPECIFICATION Spec
INVARIANTS FailedMessageNeverDurable DisciplineUnlessPoisoned LeakOnlyAfterFailedDispose
