SPECIFICATION FairSpec
CONSTANTS
    Plans = {1, 3}
    Bundles <- MCBundles
    RaceOf <- MCRaceOf
    Target <- MCTarget
    Deadline <- MCDeadline
    Window = 1
    Gap = 1
    Stake <- MCStake
    NoTime = NoTime
    NoPlan = NoPlan
    NoVote = NoVote
    OtherVote = OtherVote
    AutomaticRecovery = FALSE
    MaxRaces = 2
    MaxArms = 2
    MaxPOSTRequests = 2
    MaxDailyStake = 5
    VerificationMaxGETAttempts = 2
    PrecheckLimit = 2
    InitialWait = 1
    Interval = 1
    RetryDelay = 1
    DayEnd = 4
    Horizon = 4
    MaxFaults = 1
    MaxCrashes = 0
    MaxMishaps = 1
PROPERTY ArmedIsTakenUp
