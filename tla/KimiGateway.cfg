SPECIFICATION FairSpec
CONSTANTS
    Runs = {r1, r2}
    r1 = r1
    r2 = r2
    extract = extract
    bull = bull
    bear = bear
    Calls = {extract, bull, bear}
    Batch <- Batches
    Extraction = {extract}
    Costs = {1}
    CallCost = 1
    MaxConcurrency = 2
    MaxAttempts = 2
    RunBudget = 1
    DayBudget = 1
    NumDays = 2
    NoFile = NoFile
    NoCall = NoCall
\* A run starts once, so the system does stop.
CHECK_DEADLOCK FALSE
INVARIANTS
    TypeOK
    RunSpendBounded
    DaySpendBounded
    FilesComplete
    NeverRepaid
PROPERTIES
    RunsComplete
