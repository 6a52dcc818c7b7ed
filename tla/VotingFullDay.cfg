SPECIFICATION WatchedSpec
CONSTANTS
    Plans = {1, 2, 3}
    Bundles <- MCBundles
    RaceOf <- MCRaceOf
    Target <- MCTarget
    Deadline <- MCDeadline
    Window = 1
    Gap = 1
    Stake <- MCStake
    NoTime = NoTime
    NoPlan = NoPlan
    NoVote = NoVote
    OtherVote = OtherVote
    AutomaticRecovery = FALSE
    MaxRaces = 2
    MaxArms = 2
    MaxPOSTRequests = 2
    MaxDailyStake = 4
    VerificationMaxGETAttempts = 2
    PrecheckLimit = 2
    InitialWait = 1
    Interval = 1
    RetryDelay = 1
    DayEnd = 4
    Horizon = 4
    MaxFaults = 1
    MaxCrashes = 1
    MaxMishaps = 2
INVARIANTS
    TypeOK
    DayInv
    AtMostOnePostPerRace
    NoHiddenVote
    ConfirmedIsRecorded
    AdmittedFitsBudget
PROPERTIES
    KillIsFinal
    TerminalIsFinal
    SentOnFreshVerdict
    TroubleStopsDay
