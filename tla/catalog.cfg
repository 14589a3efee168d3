SPECIFICATION FairSpec
CONSTANTS
    Null = Null
    Apis = {a1, a2}
    NFiles = 2
    Cards = {1}
    Attempts = 3
    MaxVersion = 3
    MaxFaults = 2
CHECK_DEADLOCK FALSE
INVARIANTS LedgerTells SyncedUnlessExcused SnapshotAsOfPass
PROPERTY EveryApiServes
