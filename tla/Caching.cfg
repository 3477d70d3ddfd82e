CONSTANTS
    t1 = t1
    t2 = t2
    a = a
    b = b
    Thread = {t1, t2}
    Key = {a, b}
    Operation = {"get", "set", "retrieve", "update", "deleteAll"}
    MaxVersion = 2
    MaxLocks = 6
    Inner <- Ordered
    NullCallback = TRUE
SPECIFICATION PlanSpec
INVARIANTS TypeOK CallbackAtMostOnce ThrowsOnlyAfterLoss StaleOnlyAfterOverlap
PROPERTY EveryCallEnds
