SPECIFICATION FairSpec
CONSTANTS
    Runs = {r1, r2}
    Evals = {e1}
    r1 = r1
    r2 = r2
    e1 = e1
    Price <- Prices
    Benchmark = "spy"
    Notional = 10000
    OrderCost = 10
    Delay = 1
    DrawdownLimit = 20
    CostLimit = 2
    RunTickers <- Fetched
    Books <- TheBooks
    AsOfs = {4}
    BackSessions = 3
    FirstDay = 3
    MaxDay = 4
    Seconds = {0}
    WithBacktest = {TRUE}
\* Every run ends once and the sessions are bounded, so the system does stop.
CHECK_DEADLOCK FALSE
INVARIANTS
    TypeOK
    OutcomesFollowDecisions
PROPERTIES
    RunsClose
