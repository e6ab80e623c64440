CONSTANTS
    v1 = v1
    v2 = v2
    r1 = r1
    r2 = r2
    r3 = r3
    m1 = m1
    m2 = m2
    u1 = u1
    u2 = u2
    n1 = n1
    n2 = n2
    p1 = p1
    p2 = p2
    e1 = e1
    Workers = {v1, v2}
    None = None
    NewToken = TRUE
    MaxChanges = 1
    MaxCrashes = 1
    MaxRestarts = 1
    MemoryRequests = {r1, r2, r3}
    Memories = {m1, m2}
    Importance <- ImportanceOf
    MaxMemories = 1
    RecallTop = 1
    Questions = {r1, r2}
    Users = {u1, u2}
    Names = {n1, n2}
    Projects = {p1, p2}
    Members = {e1}
    Shorter <- WithoutLast
    Hits <- HitsOf
    Score <- ScoreOf
    Bookings <- BookingSet
    Types = {"rd", "ops"}
    DefaultType = "rd"
    DefaultHours = 8
    SuggestTop = 1
    MaxUpdates = 1
    LlmCalls = {"c1", "c2", "c3"}
    Streams = {"c2", "c3"}
    Limit = 1
    MaxAttempts = 2
    MaxChunks = 1
    MaxText = 7
    MaxPiece = 2
SPECIFICATION ServicesSpec
INVARIANTS ServesRight MemoriesRight ResolvedRight ShownRight CallsRight
PROPERTIES WorkersSettle EveryCallEnds
CHECK_DEADLOCK FALSE
