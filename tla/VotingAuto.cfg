SPECIFICATION Spec
CONSTANTS
    Plans = {1, 3}
    Bundles <- MCBundles
    RaceOf <- MCRaceOf
    Target <- MCTarget
    Deadline <- MCDeadline
    Window = 3
    Gap = 0
    Stake <- MCStake
    NoTime = NoTime
    NoPlan = NoPlan
    NoVote = NoVote
    OtherVote = OtherVote
    AutomaticRecovery = TRUE
    MaxRaces = 2
    MaxArms = 2
    MaxPOSTRequests = 2
    MaxDailyStake = 5
    VerificationMaxGETAttempts = 2
    PrecheckLimit = 2
    InitialWait = 1
    Interval = 1
    RetryDelay = 1
    DayEnd = 4
    Horizon = 4
    MaxFaults = 1
    MaxCrashes = 1
    MaxMishaps = 1
INVARIANTS
    OneUnresolvedPost
    ReadRetriesBounded
