CONSTANTS
    a = a
    b = b
    c = c
    v = v
    Tasks = {a, b, c}
    Unknown = Unknown
    Values = {v}
    None = None
    Plans <- AllShapes
    MaxAttempts = 2
    Cancellable = TRUE
SPECIFICATION Spec
INVARIANTS WriteInvokedOnce CommittedNeverDenied InOrder
PROPERTY Terminates
CHECK_DEADLOCK FALSE
