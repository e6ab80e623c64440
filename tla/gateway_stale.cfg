CONSTANTS
    c1 = c1
    c2 = c2
    e1 = e1
    e2 = e2
    Calls = {c1, c2}
    Entities = {e1, e2}
    Offered <- WriteRequests
    WriteTools = {"save_workhour", "batch_save_workhour", "approve_workhour"}
    Whitelist = {"save_workhour"}
    None = None
    MaxTokens = 2
SPECIFICATION Spec
PROPERTY RefusedTokenReplaced
CHECK_DEADLOCK FALSE
