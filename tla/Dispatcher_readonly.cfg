CONSTANTS
    s1 = s1
    s2 = s2
    Setting = {s1, s2}
    Composites <- TwoSettings
    MaxDepth = 2
    MaxWrites = 1
    CatchNested = FALSE
    DisposeMayFail = FALSE
SPECIFICATION Spec
INVARIANT CommandsFlush
