SPECIFICATION Spec
CONSTANTS
    NumDays = 7
    Year <- OneYear
    Month <- ThreeMonths
    Week <- Weeks
    Configs <- AllConfigs
    Histories <- Starts
    MaxStops = 2
\* A finished walk need not be repeated and the calendar ends.
CHECK_DEADLOCK FALSE
INVARIANTS
    TypeOK
    CurveIsTheBook
    EverySessionPriced
    RepaidOnlyAfterStop
PROPERTIES
    BookIsKept
    PublishedOnlyGrows
