CONSTANTS
    d1 = d1
    d2 = d2
    Dates = {d1, d2}
    Hours = {6}
    Cap = 8
    Batches <- SameDate
    None = None
    MaxCalls = 1
    MaxOthers = 0
    Reparses = FALSE
    FetchFails = FALSE
    LandsLate = FALSE
    ErrorBodies = FALSE
SPECIFICATION Spec
INVARIANT WithinCap
CHECK_DEADLOCK FALSE
