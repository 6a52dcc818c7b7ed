SPECIFICATION Spec
CONSTANTS
    StakeUnit = 1
    TargetOffset = 4
    CutoffOffset = 2
    Lead = 1
    DayLength = 20
    ConnectionDate = 0
    MaxBetsPerRace = 5
    MaxRaces = 4
    MaxStakePerRace = 20
    MaxDailyTotalStake = 40
    AllowedPools = {"win", "place", "wakuren", "umaren", "wide", "umatan", "sanrenpuku", "sanrentan"}
    BetUnit = 1
    FactorNum = 4
    FactorDen = 5
    MaxShortlist = 3
    MinOdds = 5
    MaxOdds = 15
    Table <- MCTable
    TableRaces = 4
    BankGrid = 5
    PerRaceCap = 8
    FrontRaces = 3
    TailFloor = 1
    MinTurnover = 12
    TailPolicy <- MCTailPolicy
    FixedTickets = 3
    FixedStake = 1
    ClassSpecs <- MCClassSpecs
    CutoffA = 14
    CutoffC = 10
    QualityTickets = 3
    BandLimits <- MCBandLimits
    AllinMoney = 2
    DynamicTarget = 40
    DynamicSlots = 2
    RecoveryRace = 3
    RecoveryCap = 10
    TurnoverLimit = 14
    Calendars <- MCCalendars
    TailDate = 1
    Snapshots <- MCSnapshots
    Complete <- MCComplete
    Rankings <- MCRankings
    InitialBank = 20
    MaxFaults = 1
INVARIANTS
    TypeOK
    BuiltIsAdmitted
    FloorMakesUp
    HitSecuresGoal
    PostedOnce
    LedgerHoldsVotes
CHECK_DEADLOCK FALSE
