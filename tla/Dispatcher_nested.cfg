CONSTANTS
    s1 = s1
    s2 = s2
    Setting = {s1}
    Composites <- OneSetting
    MaxDepth = 2
    MaxWrites = 2
    CatchNested = TRUE
    DisposeMayFail = FALSE
SPECIFICATION FairSpec
INVARIANTS TypeOK NothingDurableBeforeCommit CommittedCycleIsDurable LeakOnlyAfterFailedDispose
PROPERTIES CycleEnds TransactionCloses TransactionalCycle
