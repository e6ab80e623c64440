CONSTANTS
    c1 = c1
    c2 = c2
    e1 = e1
    e2 = e2
    Calls = {c1, c2}
    Entities = {e1, e2}
    Offered <- AllRequests
    WriteTools = {"save_workhour", "batch_save_workhour", "approve_workhour"}
    Whitelist = {"save_workhour"}
    None = None
    MaxTokens = 2
SPECIFICATION Spec
INVARIANTS WrittenOnce AsAsked AuditTrue ReplyTrue
PROPERTY EveryoneTold
CHECK_DEADLOCK FALSE
