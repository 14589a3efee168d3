SPECIFICATION SweepSpec
CONSTANTS
    Null = Null
    MaxSteps = 2
    CostCap = 2
    ToolRetries = 1
    MaxNudges = 1
    MaxCallCost = 2
    MaxBlocks = 2
    NumCards = 2
INVARIANT RequestsWellFormed FirstSubmitIsTheAnswer GuardsRecorded
INVARIANT SweepCostBound
INVARIANT ReportTellsAll
