SPECIFICATION FairSpec
CONSTANTS
    Procs = {p1}
    p1 = p1
    p2 = p2
    monday = monday
    tuesday = tuesday
    ClientOf <- OneClient
    NumTickers = 2
    Targets <- BuyTwo
    Quotes = {0, 1, 2}
    NavReadings = {0, 100}
    PnlReadings <- Losses
    NoPnl = NoPnl
    DryRun = {TRUE, FALSE}
    InitialHeld <- Tilted
    MinOrder = 1
    MaxOrder = 5
    MaxPosition = 5
    MaxGross = 4
    MaxDailyTurnover = 4
    MaxDailyLoss = 5
    MaxConcurrent = 1
    StaleSignal = 1
    MaxRuns = 1
    MaxCrashes = 1
    MaxDrops = 1
    MaxSwitches = 1
\* Runs and crashes are bounded, so the system does stop.
CHECK_DEADLOCK FALSE
INVARIANTS
    KillSwitchSlip
    TurnoverWithinRun
PROPERTIES
    RunsEnd
