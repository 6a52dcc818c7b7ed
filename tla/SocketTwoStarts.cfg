SPECIFICATION Spec
CONSTANTS
    Procs = {d1, d2}
    NoFile = nofile
    Dead = dead
    OneAtATime = FALSE
    MaxDeaths = 0
INVARIANT
    SecondIsRefused
