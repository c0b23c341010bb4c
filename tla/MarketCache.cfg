SPECIFICATION FairSpec
CONSTANTS
    Procs = {p1, p2}
    p1 = p1
    p2 = p2
    Tickers <- TwoTickers
    Vendor <- Listed
    Windows <- Asked
    StartSlack = 1
    EndSlack = 1
    MaxChunk = 2
    MaxRetries = 1
    MaxStarts = 2
\* The number of commands is bounded, so the system does stop.
CHECK_DEADLOCK FALSE
INVARIANTS
    TypeOK
    FilesHoldTheirTicker
    StoredDaysKept
    GapsAreInside
PROPERTIES
    CommandsEnd
