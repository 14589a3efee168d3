SPECIFICATION Spec
CONSTANTS
    Clients = {c1}
    Keys = {}
    Bodies = {b1}
    Workers = {w1}
    Admins = {a1}
    Null = Null
    Torn = Torn
    Budget = 1
    MaxCost = 1
    MayOverrun = TRUE
    MaxRuns = 1
    MaxDay = 0
    MaxFaults = 0
INVARIANT ReimportReadsBack
