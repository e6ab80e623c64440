CONSTANTS
    Turns = {t1, t2}
    Batches = {b1, b2}
    Foreign = {b2}
    Singles = {s1}
    Slugs = {}
    Approvals = {a1}
    None = None
    Kinds = {"batch", "vague", "single", "confirm", "cancel", "reply", "update", "approve", "other"}
    MaxHistory = 2
    Overlap = TRUE
    StoreFails = TRUE
    Disconnects = TRUE
    Fallback = FALSE
    PlannerWrites = FALSE
SPECIFICATION Spec
SYMMETRY TurnSymmetry
INVARIANTS BatchWriteOnlyOnConfirmation CancelNeverWrites ColdSaveRefused
CHECK_DEADLOCK FALSE
