CONSTANTS
    None = None
    u1 = u1
    u2 = u2
    p1 = p1
    p2 = p2
    p3 = p3
    n1 = n1
    n2 = n2
    n3 = n3
    n4 = n4
    n5 = n5
    f1 = f1
    f2 = f2
    d1 = d1
    d2 = d2
    Dates = {d1, d2}
    Hours <- SomeHours
    Cap = 8
    Batches <- OnePerDate
    MaxCalls = 3
    MaxOthers = 0
    Reparses = FALSE
    FetchFails = FALSE
    LandsLate = FALSE
    ErrorBodies = TRUE
    MaxWords = 3
    Questions <- Asked
    ModelCalls <- Proposed
    LastCalls <- Earlier
    MaxTurns = 9
    MaxRounds = 5
    Budget = 2
    Users = {u1, u2}
    Projects = {p1, p2, p3}
    Dept <- DeptOf
    Title <- TitleOf
    Holders <- HoldersOf
    Exact <- ExactOf
    Shorter <- ShorterOf
    Resembling <- ResemblingOf
    Page = 2
    Bookings <- SomeBookings
    ReadCalls <- CallsToRead
    WeekDays = 2
    MonthDays = 4
    NewYear = 5
    Reach = 3
    Today = 6
    MaxEvents = 4
    Files = {f1, f2}
    Titles = {"week", "work week"}
    Contains <- Within
    Contents <- SomeContents
    MaxChanges = 2
    NewestStays = TRUE
    Ids = {1, 2}
SPECIFICATION RulesSpec
INVARIANTS RoutedRight RewrittenRight PairsWhole HoursRight ReplyWhole OutlineRight
PROPERTIES ReportSpec LimitKept
CHECK_DEADLOCK FALSE
