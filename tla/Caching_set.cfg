CONSTANTS
    Thread = {t1, t2, t3}
    Key = {a}
    Operation = {"set", "retrieve"}
    MaxVersion = 1
    MaxLocks = 8
    Inner = {}
    NullCallback = TRUE
SPECIFICATION Spec
INVARIANT SetNeverThrows
