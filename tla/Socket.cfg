SPECIFICATION FairSpec
CONSTANTS
    Procs = {d1, d2, d3}
    NoFile = nofile
    Dead = dead
    OneAtATime = TRUE
    MaxDeaths = 2
INVARIANTS
    TypeOK
    SingleWriter
    Reachable
PROPERTY ComesBack
