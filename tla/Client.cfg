CONSTANTS
    Element <- Elements
    Path <- Paths
    PrefixOrder <- HashPrefixes
    Page <- Pages
    Id = {"i"}
    MaxTicks = 1
SPECIFICATION FairSpec
CHECK_DEADLOCK FALSE
INVARIANTS TypeOK InitialisedOnce HandledOnceUnlessBoundTwice BreakPreventsActions
    NeverAnEarlierEvent IndicatorBalanced ContentBelongsToHash ClearedIntervalStops
PROPERTIES  IndicatorClears ReloadSafe ReloadNoticed
