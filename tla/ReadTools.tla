------------------------------ MODULE ReadTools ------------------------------
(***************************************************************************)
(* The tools that read booked hours: query_timesheet, compute_statistics   *)
(* and generate_weekly_report; and query_project.  A call finds the person *)
(* or the project it names, reads the bookings of its days, and adds them  *)
(* up by the key of its kind.  Days are numbers; a week has WeekDays and a *)
(* month MonthDays of them, and day NewYear begins a year.  Who has which  *)
(* name does not change (Resolvers has that, and the cache of the names).  *)
(***************************************************************************)
EXTENDS Naturals, FiniteSets, FiniteSetsExt

CONSTANTS
    None,
    Users,
    Projects,
    Dept,           \* the department of each user
    Title,          \* the name of each project
    Holders,        \* whose name, or which project's, contains a name
    Exact,          \* whose name it is
    Shorter,        \* a name without its suffix, None where it has none
    Resembling,     \* recent projects with enough of a name in theirs
    Page,           \* the most that a lookup shows
    Bookings,       \* bound: the records that may be booked
    Calls,          \* the calls the agent makes
    WeekDays, MonthDays, NewYear, Today     \* bounds: the calendar

VARIABLES
    at,
    booked,         \* SpringBoot: the records
    call,
    who,            \* the user or project that is looked up
    fetched,        \* the records read
    answer

vars == <<at, booked, call, who, fetched, answer>>

Types == {"user_hours", "project_hours", "department_hours", "daily_hours", "weekly_hours",
          "monthly_hours"}
HoursTools == {"query_timesheet", "compute_statistics", "generate_weekly_report"}

\* _resolve_week_range: a week is named by a day of it; what cannot be read is
\* this week.
MondayMut(d) == d - ((d + 1) % WeekDays)
Monday(d) == d - (d % WeekDays)
WeekRange(week) ==
    LET monday == CASE week = <<"lastWeek">> -> Monday(Today) - WeekDays
                    [] week \in {None, <<"thisWeek">>, <<"unreadable">>} -> Monday(Today)
                    [] OTHER -> Monday(week[2])
    IN [start |-> monday, end |-> monday + WeekDays - 1]

Days(c) == IF c.tool = "generate_weekly_report" THEN WeekRange(c.week)
           ELSE [start |-> c.start, end |-> c.end]

\* What a record is counted under.
Key(type, r) ==
    CASE type = "user_hours" -> <<type, r.user>>
      [] type = "project_hours" -> <<type, r.project>>
      [] type = "department_hours" -> <<type, Dept[r.user]>>
      [] type = "daily_hours" -> <<type, r.day>>
      [] type = "weekly_hours" -> <<type, r.day >= NewYear, r.day \div WeekDays>>
      [] type = "monthly_hours" -> <<type, r.day \div MonthDays>>
      [] OTHER -> <<type, Title[r.project]>>

TotalHours(rs) == MapThenSumSet(LAMBDA r : r.hours, rs)

\* The dictionaries of the statistics: each record is added under its key.
ItemsMut(type, rs) ==
    [k \in {Key(type, r) : r \in rs} |-> (CHOOSE r \in rs : Key(type, r) = k).hours]
Items(type, rs) ==
    [k \in {Key(type, r) : r \in rs} |-> TotalHours({r \in rs : Key(type, r) = k})]

Total(items) == MapThenSumSet(LAMBDA k : items[k], DOMAIN items)

Failed == [success |-> FALSE, items |-> <<>>, total |-> 0]
Success(items) == [success |-> TRUE, items |-> items, total |-> Total(items)]

\* What a lookup by name may show: a page of those who have it in theirs.
Pages(name) == IF Cardinality(Holders[name]) <= Page THEN {Holders[name]}
               ELSE kSubset(Page, Holders[name])

\* The first on the page whose name it is, or else the first.
ChosenMut(page, name) == page
Chosen(page, name) == IF page \cap Exact[name] # {} THEN page \cap Exact[name] ELSE page
OnPage(name) == UNION {Chosen(page, name) : page \in Pages(name)}

\* A project that nobody finds so is looked up without the suffix, and then among
\* the recent projects of whoever asked first.
Found(c) ==
    IF c.tool # "query_project" \/ Holders[c.name] # {} THEN OnPage(c.name)
    ELSE IF Shorter[c.name] # None /\ Holders[Shorter[c.name]] # {}
         THEN UNION Pages(Shorter[c.name])
         ELSE Resembling[c.name]

-----------------------------------------------------------------------------
Init ==
    /\ at = "asked"
    /\ booked \in SUBSET Bookings
    /\ call \in Calls
    /\ who = call.user
    /\ fetched = {}
    /\ answer = None

Becomes(from, to) == at = from /\ at' = to /\ UNCHANGED <<booked, call>>

Fails(from) == Becomes(from, "answered") /\ answer' = Failed /\ UNCHANGED <<who, fetched>>

\* resolve_member_id, or resolve_project_id, when no id is given: it finds one,
\* or the call fails.  (In the mutant, it goes on with what it has.)
Named(c) == c.name # None /\ c.user = None

FindMut ==
    /\ Named(call)
    /\ Becomes("asked", "found")
    /\ who' \in Found(call) \cup {None}
    /\ UNCHANGED <<fetched, answer>>
Find ==
    /\ Named(call)
    /\ \/ Becomes("asked", "found") /\ who' \in Found(call) /\ UNCHANGED <<fetched, answer>>
       \/ Fails("asked")

NoName ==
    /\ ~Named(call)
    /\ Becomes("asked", "found")
    /\ UNCHANGED <<who, fetched, answer>>

\* The records of the days; without a user, those of everybody.
Matching(c, u) ==
    {b \in booked : /\ Days(c).start <= b.day /\ b.day <= Days(c).end
                    /\ u # None => b.user = u
                    /\ c.project # None => b.project = c.project}

Fetch ==
    /\ call.tool \in HoursTools /\ Days(call).start <= Days(call).end
    /\ Becomes("found", "fetched")
    /\ fetched' = Matching(call, who)
    /\ UNCHANGED <<who, answer>>

\* The days are the wrong way round, or SpringBoot does not answer.
LookupFails == Fails("found")

OfType(c, rs) == IF c.workType = None THEN rs ELSE {r \in rs : r.type = c.workType}

\* The statistics count what they are asked for; the others by project name.
Compute ==
    /\ Becomes("fetched", "answered")
    /\ answer' = Success(IF call.tool = "compute_statistics"
                         THEN Items(call.type, OfType(call, fetched))
                         ELSE Items("by_title", fetched))
    /\ UNCHANGED <<who, fetched>>

\* Without a name, query_project lists the projects.
ShowProject ==
    /\ call.tool = "query_project"
    /\ Becomes("found", "answered")
    /\ answer' = Success([p \in IF who = None THEN Projects ELSE {who} |-> 0])
    /\ UNCHANGED <<who, fetched>>

Next == Find \/ NoName \/ Fetch \/ LookupFails \/ Compute \/ ShowProject

Spec == Init /\ [][Next]_vars

-----------------------------------------------------------------------------
\* Whom a call may answer for: whose name it is, unless there are more that have
\* it in theirs than a lookup shows, and otherwise one that has; a project that
\* no name has may be one that is called something like it.
Meant(c) ==
    CASE Exact[c.name] # {} /\ Cardinality(Holders[c.name]) <= Page -> Exact[c.name]
      [] c.tool = "query_project" /\ Holders[c.name] = {} ->
           Resembling[c.name]
             \cup (IF Shorter[c.name] = None THEN {} ELSE Holders[Shorter[c.name]])
      [] OTHER -> Holders[c.name]

\* A call that names somebody, or a project, answers for one whom it may mean
\* and for nobody else; when the name leads to nobody it fails (the early returns
\* of the handlers) and does not answer for everybody.
NamedOnly ==
    at = "answered" /\ Named(call) /\ answer.success =>
        \E x \in Meant(call) :
            /\ \A r \in fetched : r.user = x
            /\ call.tool = "query_project" => DOMAIN answer.items = {x}

\* Whatever it is counted by, each hour that was booked, in the days and of the
\* kind asked for, is in the total exactly once.
CountedOnce ==
    at = "answered" /\ answer.success /\ call.tool \in HoursTools =>
        answer.total = TotalHours(OfType(call, Matching(call, who)))

\* The week of a report is one item of the statistics by week, with the same
\* hours, unless a year begins within it, and it is never longer: two readings
\* of one week, in two files, that must agree.
WeeksAgree ==
    at = "answered" /\ answer.success /\ call.tool = "generate_weekly_report" =>
        LET weeks == Items("weekly_hours", fetched)
        IN \/ Days(call).start < NewYear /\ NewYear <= Days(call).end
           \/ Cardinality(DOMAIN weeks) <= 1 /\ Total(weeks) = answer.total
=============================================================================
