CONSTANTS
    k1 = k1
    k2 = k2
    c1 = c1
    c2 = c2
    Tick = {k1, k2}
    Caller = {c1}
    MaxTimers = 2
    MaxItems = 2
    Kinds = {"sequential", "simple"}
    HasAfter = TRUE
    MayFail = TRUE
SPECIFICATION FairSpec
INVARIANTS TypeOK OneExecutionUnlessRaced ImmediateStop OrphanOnlyByOverlap
PROPERTIES ExecutionEnds StopQuiesces
