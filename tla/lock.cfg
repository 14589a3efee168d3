SPECIFICATION FairLockSpec
CONSTANTS
    Null = Null
    Runners = {r1, r2}
    Probes = {p1}
    MaxStarts = 2
    MaxDeaths = 1
CHECK_DEADLOCK FALSE
INVARIANTS
    ExclusiveUnlessStolen
PROPERTY ProbeGetsIn
