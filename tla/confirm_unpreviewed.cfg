CONSTANTS
    Turns = {t1, t2, t3}
    Batches = {b1}
    Foreign = {}
    Singles = {s1}
    Slugs = {}
    Approvals = {}
    None = None
    Kinds = {"batch", "vague", "single", "confirm", "cancel", "reply", "update", "approve", "other"}
    MaxHistory = 2
    Overlap = FALSE
    StoreFails = FALSE
    Disconnects = FALSE
    Fallback = FALSE
    PlannerWrites = FALSE
SPECIFICATION Spec
SYMMETRY TurnSymmetry
INVARIANT PendingWriteWasPreviewed
CHECK_DEADLOCK FALSE
