SPECIFICATION Spec
CONSTANTS
    Plans <- MCPlans
    Services = {"cart", "email"}
    Fallible = {"docker", "iptables", "tc", "flagd", "backend"}
    MaxBatches = 2
    MaxStops = 1
    AbortGate = 2
    AbortRecovered = 2
CHECK_DEADLOCK FALSE
INVARIANTS
    PackedIsWhole CardsBooked GoesOnWithinLimits
    OneFault NoSilentResidue RestartPolicyKept
