CONSTANTS
    Turns = {t1, t2, t3, t4}
    Batches = {b1}
    Foreign = {}
    Singles = {s1}
    Slugs = {s1}
    Approvals = {}
    None = None
    Kinds = {"batch", "single", "confirm", "cancel", "reply", "update"}
    MaxHistory = 2
    Overlap = FALSE
    StoreFails = FALSE
    Disconnects = FALSE
    Fallback = TRUE
    PlannerWrites = FALSE
SPECIFICATION Spec
SYMMETRY TurnSymmetry
INVARIANT SpentWithinArmed
PROPERTIES LicenceSpec ArmedWriteKept
CHECK_DEADLOCK FALSE
