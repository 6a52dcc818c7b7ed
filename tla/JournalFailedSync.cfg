SPECIFICATION Spec
CONSTANTS
    Plans = {p1, p2}
    States = {validated, killed}
    Discovered = discovered
    KillEvent = kill
    Torn = torn
    NoSnapshot = none
    MaxEvents = 3
    MaxFaults = 0
    MaxSplits = 1
    MaxDeaths = 1
    MaxOutages = 0
INVARIANT AcknowledgedIsRestorable
CHECK_DEADLOCK FALSE
