SPECIFICATION Spec
CONSTANTS
    Null = Null
    Ids = {1, 2, 3}
    Times = {1, 2}
    CardOf <- MCCardOf
    Limit = 1
    MaxMeanwhile = 2
CHECK_DEADLOCK FALSE
INVARIANTS PagesAreExact ShownWhole SummaryOfNewest
