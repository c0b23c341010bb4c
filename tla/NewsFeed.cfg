SPECIFICATION FairSpec
CONSTANTS
    Runs = {r1, r2}
    r1 = r1
    r2 = r2
    Articles = {1, 2, 3, 4, 5}
    Pub <- PubOf
    Cluster <- ClusterOf
    Title <- TitleOf
    Names <- NamesOf
    Reputable = {3}
    Unreadable = {4}
    Tickers <- TheTicker
    LabelOf <- ChipLabel
    SectorLabels <- TheLabel
    Themes <- NoThemes
    CompanyDays = 0
    SectorDays = 1
    MacroDays = 0
    ChunkDays = 1
    MaxArticles = 4
    AsOfDays = {2}
    Match <- Found
    Exported = {5}
    PageSize = 3
    MaxPages = 2
    MaxApiCalls = 2
    MaxAttempts = 2
    RecentDays = 0
    Ttl = 0
    FailOnCatcher = {FALSE}
    StartInstant = 4
    MaxInstant = 6
\* Every run ends once and the clock is bounded, so the system does stop.
CHECK_DEADLOCK FALSE
INVARIANTS
    TypeOK
    PostsBounded
    PagesAreAnswers
    ClosedSlicesComplete
    NoStoryLost
PROPERTIES
    GathersEnd
