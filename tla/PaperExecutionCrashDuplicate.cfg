SPECIFICATION Spec
CONSTANTS
    Procs = {p1}
    p1 = p1
    p2 = p2
    monday = monday
    tuesday = tuesday
    ClientOf <- OneClient
    NumTickers = 1
    Targets <- BuyOne
    Quotes = {1}
    NavReadings = {100}
    PnlReadings = {NoPnl}
    NoPnl = NoPnl
    DryRun = {FALSE}
    InitialHeld <- Flat
    MinOrder = 1
    MaxOrder = 5
    MaxPosition = 5
    MaxGross = 9
    MaxDailyTurnover = 9
    MaxDailyLoss = 5
    MaxConcurrent = 3
    StaleSignal = 1
    MaxRuns = 2
    MaxCrashes = 1
    MaxDrops = 0
    MaxSwitches = 0
\* Runs and crashes are bounded, so the system does stop.
CHECK_DEADLOCK FALSE
INVARIANTS
    RestartNeverDuplicates
