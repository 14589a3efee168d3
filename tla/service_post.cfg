SPECIFICATION Spec
CONSTANTS
    Clients = {c1, c2}
    Keys = {k1}
    Bodies = {b1, b2}
    Workers = {w1}
    Admins = {}
    Null = Null
    Torn = Torn
    Budget = 1
    MaxCost = 1
    MayOverrun = TRUE
    MaxRuns = 2
    MaxDay = 0
    MaxFaults = 0
SYMMETRY MCSymmetry
INVARIANTS KeyNamesOneRun KnownKeyPassesNoBudgetGate
