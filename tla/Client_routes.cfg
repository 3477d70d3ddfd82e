CONSTANTS
    Element <- Elements
    Path <- Paths
    PrefixOrder <- HashPrefixes
    Page <- SearchPages
    Id = {"i"}
    MaxTicks = 1
SPECIFICATION Spec
CHECK_DEADLOCK FALSE
INVARIANT RoutesRead
