SPECIFICATION FairSpec
CONSTANTS
    Clients = {c1}
    Keys = {}
    Bodies = {b1}
    Workers = {w1, w2}
    Admins = {}
    Null = Null
    Torn = Torn
    Budget = 2
    MaxCost = 1
    MayOverrun = FALSE
    MaxRuns = 2
    MaxDay = 0
    MaxFaults = 1
INVARIANTS EvidenceBehindRow StrandedOnlyByFault SoleExecution
PROPERTIES TerminalIsFinal EveryRunLands ImplementsLedger
