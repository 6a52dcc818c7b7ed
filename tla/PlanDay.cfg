SPECIFICATION PipelineSpec
CONSTANTS
    SpecNames = {"basic", "uneven", "bank", "thirds", "near", "poorer"}
    Specs <- MCSpecs
    Panels <- MCPanels
    Budgets = {7, 10, 13, 20}
    MaxClock = 2
    StakeUnit = 2
    TargetOffset = 4
    CutoffOffset = 2
    Lead = 1
    DayLength = 20
    ConnectionDate = 0
    MaxBetsPerRace = 2
    MaxRaces = 2
    MaxStakePerRace = 8
    MaxDailyTotalStake = 16
    AllowedPools = {"win", "place", "wakuren", "umaren", "wide", "umatan", "sanrenpuku", "sanrentan"}
    OpeningBalance = 10
    MaxPaperFaults = 2
    BetUnit = 2
    FactorNum = 4
    FactorDen = 5
    MaxShortlist = 3
    MinOdds = 4
    MaxOdds = 15
    Dividends = {1, 5, 16}
INVARIANTS
    TypeOK
    SolvedIsDelivered
    PlannedFitsBank
    PlannerCompletes
    RefusedIsExplained
    PaperConserves
    AdmittedIsAffordable
    KnapsackIsOptimal
    OneHitReachesTarget
    LaterRacesGetMore
    ProfitIsKept
    TableIsAffordable
PROPERTIES
    VoteIsFinal
CHECK_DEADLOCK FALSE
