SPECIFICATION Spec
CONSTANTS
    Clients = {c1}
    Keys = {}
    Bodies = {b1}
    Workers = {w1}
    Admins = {a1}
    Null = Null
    Torn = Torn
    Budget = 2
    MaxCost = 1
    MayOverrun = TRUE
    MaxRuns = 1
    MaxDay = 1
    MaxFaults = 1
SYMMETRY MCSymmetry
INVARIANTS TypeOK ArtifactInOneRow RecordedWithinPaid
