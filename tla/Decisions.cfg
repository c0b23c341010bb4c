SPECIFICATION Spec
CONSTANTS
    Sectors <- TheSectors
    CardSets <- Evidence
    SecuritiesOf <- Companies
    EtfsOf <- Funds
    MomentumRank <- Momenta
    VolumeRank <- Volumes
    Volatility <- Vols
    DollarVolume <- DollarVolumes
    Views <- TheViews
    Opinions <- TheOpinions
    BarHistories <- Histories
    Weight <- Weights
    RiskSubtracted <- Risks
    Threshold = 5500
    MinDays = 126
    MinPrice = 2
    MinTraded = 500
    Strategies = {"long_basket", "score_weighted", "etf_rotation", "long_short", "momentum", "risk_parity", "ensemble", "cash"}
    MaxLongs = 3
    MaxTicker = 4000
    MaxSector = 6000
    MaxGross = 9000
    MaxNet = 8000
    MaxPositions = 2
    VolTarget = 25
    AllowShorting = FALSE
\* A decision is made once: the system does stop.
CHECK_DEADLOCK FALSE
INVARIANTS
    TypeOK
    OnlyVetted
    LimitsHold
    NotSilentlyCash
