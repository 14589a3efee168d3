CONSTANTS
    Null = Null
    BaseSteps = 2
    InjectSteps = 3
    Stale = 1
    ErrFloor = 2
    MinExpected = 2
    EntityFloor = 2
    Levels = {10, 40, 41, 130, 600}
    MaxCalls = 1
    MaxFaults = 2
SPECIFICATION Spec
INVARIANTS CountsBacked SilenceIsTold AnswersBearOutAlerts
CHECK_DEADLOCK FALSE
