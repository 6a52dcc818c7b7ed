SPECIFICATION Spec
CONSTANTS
    Plans = {p1, p2}
    States = {validated, killed}
    Discovered = discovered
    KillEvent = kill
    Torn = torn
    NoSnapshot = none
    MaxEvents = 3
    MaxFaults = 1
    MaxSplits = 1
    MaxDeaths = 2
    MaxOutages = 1
INVARIANTS
    TypeOK
    RestorableAfterDeath
PROPERTY ImplementsAtomicStore
CHECK_DEADLOCK FALSE
