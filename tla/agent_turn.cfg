CONSTANTS
    k1 = k1
    k2 = k2
    k3 = k3
    w1 = w1
    r1 = r1
    KbCalls = {k1, k2, k3}
    Business = {w1, r1}
    Writes = {w1}
    None = None
    MaxIterations = 4
    MaxChunks = 2
    MaxTasks = 2
SPECIFICATION Spec
INVARIANTS WritesOnce LoopBounded RecordTrue SavedAnswer
PROPERTIES KeepsProtocol Terminates
CHECK_DEADLOCK FALSE
