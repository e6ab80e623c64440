CONSTANTS
    d1 = d1
    d2 = d2
    Dates = {d1}
    Hours <- StatedHours
    Cap = 8
    Batches <- AnyBatches
    None = None
    MaxCalls = 2
    MaxOthers = 1
    Reparses = TRUE
    FetchFails = TRUE
    LandsLate = TRUE
    ErrorBodies = FALSE
SPECIFICATION Spec
INVARIANTS ReportTrue VerdictTrue OneInDoubt
PROPERTY Reports
CHECK_DEADLOCK FALSE
