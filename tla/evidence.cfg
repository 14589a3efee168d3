SPECIFICATION Spec
CONSTANTS
    Cards = {a, b}
    MaxJobs = 3
    MaxOverlaps = 1
    MaxStops = 1
SYMMETRY Swap
CHECK_DEADLOCK FALSE
INVARIANTS
    ManifestTells RefTells DiffAgainstBaseline
