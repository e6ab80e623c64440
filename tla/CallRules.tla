------------------------------ MODULE CallRules ------------------------------
(***************************************************************************)
(* What becomes of the tool calls the model proposes for a message about   *)
(* hours: calls forced by the words of the message, normalisation, the     *)
(* comparison of two parties, the expansion of months, the cap at today,   *)
(* the questions asked back, and the dispatch.  The writes have a module   *)
(* of their own, WriteConfirmation.  A message is the set of what the      *)
(* patterns of the agent find in it; days are numbers, and a year has as   *)
(* many days as its months.                                                *)
(***************************************************************************)
EXTENDS Naturals, Sequences, FiniteSets, Functions

CONSTANTS
    None,
    Questions,      \* the messages: sets of findings
    ModelCalls,     \* the calls the model may propose: sequences of calls
    LastCalls,      \* the calls an earlier turn may have ended with
    MonthDays,      \* bound: days of a month
    WeekDays,       \* bound: days of a week
    Reach,          \* the most days that a detail query goes back, or covers
    Today

MonthNames == <<"month1", "month2", "month3">>

\* What the patterns find.  "pair" and "projects" are two names with 和 before a
\* week, at the start; "each": month by month; "first": confirm the project
\* first; "people": hours per person; "unowned": without a project; "self":
\* I, in a follow-up; "lunar", "iso", "merged": details the questions ask for;
\* "filled": 填了多少 or 报了多少; "excel": a file is meant; "anyProject": no single
\* project is meant; "earlier": an earlier message of the user names this week.
Findings == {"weekly", "aggregate", "detail", "colleague", "pair", "projects", "dept", "versus",
             "project", "month1", "month2", "month3", "each", "thisMonth", "thisYear", "thisWeek",
             "ratio", "company", "people", "first", "projectId", "unowned", "suggest", "follow",
             "self", "lunar", "iso", "merged", "filled", "excel", "anyProject", "earlier"}

VARIABLES
    at,
    message,
    last,           \* the last call of an earlier turn
    proposed,       \* ghost: the calls of the model
    forced,         \* the calls the words force, None if the model's count
    calls,          \* the calls as they stand
    plan            \* what is dispatched

vars == <<at, message, last, proposed, forced, calls, plan>>

Call(n, as) == [name |-> n, args |-> as]
Is(call, n) == call.name = n

\* Arguments: a value for each key that is there.
Field(key, value) == [k \in {key} |-> value]
Nothing == [k \in {} |-> None]
With(as, more) ==
    [k \in DOMAIN as \cup DOMAIN more |-> IF k \in DOMAIN more THEN more[k] ELSE as[k]]
Only(as, keys) == Restrict(as, DOMAIN as \cap keys)
Without(as, keys) == Restrict(as, DOMAIN as \ keys)
Has(as, key) == key \in DOMAIN as

\* The elements of a sequence at some of its places, in their order.
Nth(places, n) == CHOOSE i \in places : Cardinality({j \in places : j <= i}) = n
Keep(s, places) == [n \in 1..Cardinality(places) |-> s[Nth(places, n)]]

\* The calls of a tool, and the others.
Those(cs, n) == Keep(cs, {i \in DOMAIN cs : Is(cs[i], n)})
Others(cs, n) == Keep(cs, {i \in DOMAIN cs : ~Is(cs[i], n)})

Between(d, e) == With(Field("start", d), Field("end", e))
Monday(d) == d - (d % WeekDays)
ThisWeek == Between(Monday(Today), Monday(Today) + WeekDays - 1)
ThisYear == Between(1, Len(MonthNames) * MonthDays)
First(k) == (k - 1) * MonthDays + 1
LastDayMut(k) == k * MonthDays + 1
LastDay(k) == k * MonthDays
CurrentMonth == (Today - 1) \div MonthDays + 1

\* The months a message names.
Months(m) ==
    LET ifNamed(k) == IF MonthNames[k] \in m THEN <<k>> ELSE <<>>
    IN ifNamed(1) \o ifNamed(2) \o ifNamed(3)

HasDateEvidence(m) ==
    m \cap ({"thisMonth", "thisYear", "thisWeek", "iso", "pair", "projects"} \cup Range(MonthNames)) # {}

Type(t) == Field("type", t)

\* _infer_statistics_type
Inferred(m, as) ==
    IF Has(as, "member") \/ "colleague" \in m THEN "user_hours"
    ELSE IF Has(as, "dept") \/ "dept" \in m THEN "department_hours"
    ELSE IF Has(as, "project") \/ "project" \in m THEN "project_hours"
    ELSE IF "each" \in m THEN "monthly_hours" ELSE "user_hours"

\* _normalize_week_argument
Week(m) ==
    IF "iso" \in m THEN Field("week", "date")
    ELSE IF m \cap {"thisWeek", "pair", "projects"} # {} THEN Field("week", "thisWeek") ELSE Nothing

Statistics(as) == Call("compute_statistics", as)

\* _forced_tool_calls_for_request, but for the writes.
Forced(m) ==
    IF "suggest" \in m THEN <<Call("suggest_workhour", Field("fill", Today))>>
    ELSE IF m \cap {"pair", "projects"} # {} /\ "aggregate" \in m THEN
        [i \in 1..2 |-> Statistics(With(With(Type("project_hours"), ThisWeek), Field("project", i)))]
    ELSE IF {"aggregate", "unowned"} \subseteq m /\ Months(m) # <<>> THEN
        <<Statistics(With(With(Type("user_hours"), Field("project", 0)),
                          Between(First(Months(m)[1]), LastDay(Months(m)[1]))))>>
    ELSE IF "ratio" \in m /\ ~HasDateEvidence(m) THEN
        <<Statistics(With(With(With(Type(Inferred(m, Nothing)), ThisYear),
                               IF "project" \in m THEN Field("project", 1) ELSE Nothing),
                          IF "dept" \in m THEN Field("dept", 1) ELSE Nothing))>>
    ELSE IF "weekly" \in m /\ Week(m) # Nothing /\ {"project", "people"} \subseteq m THEN
        <<Call("query_project", Field("project", 1)), Statistics(With(Type("user_hours"), ThisWeek))>>
    ELSE IF "weekly" \in m /\ Week(m) # Nothing /\ {"project", "first"} \subseteq m THEN
        <<Call("query_project", Field("project", 1)), Call("generate_weekly_report", Week(m))>>
    ELSE IF "weekly" \in m /\ Week(m) # Nothing /\ "projectId" \in m THEN
        <<Call("generate_weekly_report", Week(m))>>
    ELSE IF {"aggregate", "thisYear"} \subseteq m THEN
        <<Statistics(With(Type(Inferred(m, Nothing)), ThisYear))>>
    ELSE None

-----------------------------------------------------------------------------
(* _normalize_business_tool_calls, one call                                *)

PersonTools == {"query_timesheet", "compute_statistics", "generate_weekly_report", "save_workhour"}

\* The properties that the schema of each tool allows.
Allowed(n) ==
    IF n = "compute_statistics" THEN {"type", "start", "end", "user", "member", "project", "dept"}
    ELSE IF n = "query_timesheet" THEN {"start", "end", "user", "member", "project"}
    ELSE IF n = "generate_weekly_report" THEN {"week", "user", "member"}
    ELSE IF n = "query_project" THEN {"project"}
    ELSE IF n = "export_report" THEN {"start", "end"}
    ELSE {"fill"}

\* Whom the message is about: a colleague it names, or in a follow-up the one
\* the last call was about.
Colleague(m) ==
    IF "colleague" \in m THEN 1
    ELSE IF {"follow", "self"} \cap m = {"follow"} /\ last # None /\ Has(last.args, "member")
         THEN last.args["member"] ELSE None

\* A follow-up with the tool of the last call takes over what it leaves open.
Followed(m, c) ==
    LET keys == {"member", "project", "dept"}
                  \cup (IF HasDateEvidence(m) THEN {} ELSE {"start", "end", "week"})
    IN IF "follow" \in m /\ last # None /\ c.name = last.name
       THEN Call(c.name, With(Only(last.args, keys), c.args)) ELSE c

Aggregate(m) == "aggregate" \in m /\ m \cap {"detail", "filled"} = {}

\* Another tool, when the words say so; None when the call is dropped.
Routed(m, c, hasWeekly) ==
    IF "weekly" \in m /\ Is(c, "query_timesheet") THEN
        IF hasWeekly THEN None ELSE Call("generate_weekly_report", Only(c.args, {"user", "member"}))
    ELSE IF "weekly" \in m /\ hasWeekly /\ Is(c, "export_report") /\ "excel" \notin m THEN None
    ELSE IF Is(c, "query_timesheet") /\ Aggregate(m) THEN Statistics(c.args)
    ELSE IF Is(c, "compute_statistics") /\ "detail" \in m THEN
        Call("query_timesheet", Without(c.args, {"type", "dept"}))
    ELSE c

AboutMut(m, c) ==
    IF c.name \in PersonTools /\ Colleague(m) # None
    THEN Call(c.name, With(c.args, Field("member", Colleague(m)))) ELSE c
About(m, c) ==
    IF c.name \in PersonTools /\ Colleague(m) # None
    THEN Call(c.name, With(Without(c.args, {"user"}), Field("member", Colleague(m)))) ELSE c

Dated(m, as) ==
    IF "thisMonth" \in m THEN With(as, Between(First(CurrentMonth), Today))
    ELSE IF "ratio" \in m /\ ~HasDateEvidence(m) THEN With(as, ThisYear) ELSE as

Completed(m, c) ==
    IF Is(c, "compute_statistics")
    THEN LET as == IF "dept" \in m THEN With(Without(c.args, {"member"}), Field("dept", 1)) ELSE c.args
         IN Statistics(Dated(m, With(as, Type(Inferred(m, as)))))
    ELSE IF Is(c, "generate_weekly_report") THEN Call(c.name, With(c.args, Week(m)))
    ELSE c

OnlyAllowed(c) == Call(c.name, Only(c.args, Allowed(c.name)))

\* _deduplicate_tool_calls: the first of equal calls stays.
SameMut(c, d) == c.name = d.name
Same(c, d) == c = d
Unique(cs) == Keep(cs, {i \in DOMAIN cs : \A j \in 1..(i - 1) : ~Same(cs[j], cs[i])})

Normalized(m, cs) ==
    LET hasWeekly == \E i \in DOMAIN cs : Is(cs[i], "generate_weekly_report")
        routed == [i \in DOMAIN cs |-> Routed(m, Followed(m, cs[i]), hasWeekly)]
        left == Keep(routed, {i \in DOMAIN cs : routed[i] # None})
    IN Unique([i \in DOMAIN left |-> OnlyAllowed(Completed(m, About(m, left[i])))])

-----------------------------------------------------------------------------
(* _normalize_business_tool_calls, all calls together                      *)

\* A weekly report about a project whose existence is to be confirmed first,
\* and one with the hours of each person.
WeeklyCompleted(m, cs) ==
    LET projects == Those(cs, "query_project")
        report == IF {"weekly", "first"} \subseteq m /\ projects # <<>>
                      /\ Those(cs, "generate_weekly_report") = <<>>
                  THEN Append(cs, Call("generate_weekly_report", Week(m))) ELSE cs
        named == \E i \in DOMAIN report : Has(report[i].args, "project")
    IN IF {"weekly", "people"} \subseteq m
       THEN Append(IF projects # <<>> \/ ~named THEN projects
                   ELSE <<Call("query_project", Field("project", 1))>>,
                   Statistics(With(Type("user_hours"), ThisWeek)))
       ELSE report

\* A comparison asks for each party, if the statistics are one call so far.
Parties(m, as) ==
    IF "versus" \in m THEN
        IF {"colleague", "dept"} \subseteq m
        THEN <<With(Without(as, {"user", "dept"}), With(Type("user_hours"), Field("member", 1))),
               With(Without(as, {"user", "member"}), With(Type("department_hours"), Field("dept", 1)))>>
        ELSE <<as>>
    ELSE IF "pair" \in m THEN
        [i \in 1..2 |-> With(Without(as, {"user"}), With(Type("user_hours"), Field("member", i)))]
    ELSE IF "projects" \in m THEN
        [i \in 1..2 |-> With(Without(as, {"user"}), With(Type("project_hours"), Field("project", i)))]
    ELSE IF "company" \in m /\ Has(as, "dept") THEN
        <<as, With(Type("monthly_hours"), Only(as, {"start", "end"}))>>
    ELSE <<as>>

Compared(m, cs) ==
    LET stats == Those(cs, "compute_statistics")
        parties == Parties(m, stats[1].args)
    IN IF Len(stats) = 1 /\ Len(parties) > 1
       THEN Others(cs, "compute_statistics") \o [i \in DOMAIN parties |-> Statistics(parties[i])]
       ELSE cs

\* Month by month, each up to today.
MonthRange(k) ==
    Between(First(k), IF k = CurrentMonth /\ Today < LastDay(k) THEN Today ELSE LastDay(k))

ByMonth(m, cs) ==
    LET stats == Those(cs, "compute_statistics")
        months == Months(m)
    IN IF Len(stats) = 1 /\ Len(months) >= 2 /\ "each" \in m
       THEN Others(cs, "compute_statistics")
              \o [i \in DOMAIN months |-> Statistics(With(stats[1].args, MonthRange(months[i])))]
       ELSE cs

\* Statistics that start in this month do not go past today.
Capped(m, c) ==
    IF /\ Is(c, "compute_statistics") /\ {"start", "end"} \subseteq DOMAIN c.args
       /\ "thisMonth" \in m \/ Months(m) # <<>>
       /\ m \cap {"thisWeek", "pair", "projects"} = {}
       /\ First(CurrentMonth) <= c.args["start"] /\ c.args["start"] <= LastDay(CurrentMonth)
       /\ c.args["end"] > Today
    THEN Call(c.name, With(c.args, Field("end", Today))) ELSE c

-----------------------------------------------------------------------------
(* _tool_call_clarification: what is asked back before a read.             *)

Required(n) ==
    IF n = "compute_statistics" THEN {"type", "start", "end"}
    ELSE IF n \in {"query_timesheet", "export_report"} THEN {"start", "end"} ELSE {}

Refused(m, c) ==
    \/ ~(Required(c.name) \subseteq DOMAIN c.args)
    \/ Is(c, "query_timesheet") /\ ~HasDateEvidence(m) /\ "earlier" \notin m
    \/ /\ Is(c, "generate_weekly_report")
       /\ \/ m \cap {"thisWeek", "pair", "projects", "earlier"} = {}
          \/ "merged" \in m \/ "dept" \in m
          \/ "project" \in m /\ "colleague" \notin m /\ "projectId" \notin m
    \/ Is(c, "suggest_workhour") /\ "lunar" \in m
    \/ Is(c, "export_report") /\ m \cap {"thisWeek", "thisMonth"} = {}
    \/ Is(c, "query_project") /\ "anyProject" \in m
    \/ {"start", "end"} \subseteq DOMAIN c.args /\ c.args["start"] > c.args["end"]
    \/ /\ Is(c, "query_timesheet") /\ {"start", "end"} \subseteq DOMAIN c.args
       /\ \/ c.args["end"] > Today
          \/ c.args["start"] + Reach < Today
          \/ c.args["end"] > c.args["start"] + Reach

-----------------------------------------------------------------------------
Init ==
    /\ at = "asked"
    /\ message \in Questions
    /\ last \in IF "follow" \in message THEN LastCalls \cup {None} ELSE {None}
    /\ proposed \in ModelCalls
    /\ forced = None
    /\ calls = proposed
    /\ plan = <<>>

Becomes(from, to, cs) ==
    /\ at = from
    /\ at' = to
    /\ calls' = cs
    /\ UNCHANGED <<message, last, proposed, plan>>

Force ==
    /\ Becomes("asked", "forced", IF Forced(message) = None THEN calls ELSE Forced(message))
    /\ forced' = Forced(message)

Normalize == Becomes("forced", "normalized", Normalized(message, calls)) /\ UNCHANGED forced

Complete == Becomes("normalized", "completed", WeeklyCompleted(message, calls)) /\ UNCHANGED forced

Compare == Becomes("completed", "compared", Compared(message, calls)) /\ UNCHANGED forced

Expand ==
    /\ LET months == ByMonth(message, calls)
       IN Becomes("compared", "expanded", Unique([i \in DOMAIN months |-> Capped(message, months[i])]))
    /\ UNCHANGED forced

\* The first call that lacks something stops them all; no call at all goes to
\* the classifier (IntentRouting).
AskBack ==
    /\ calls = <<>> \/ \E i \in DOMAIN calls : Refused(message, calls[i])
    /\ Becomes("expanded", "asked back", calls)
    /\ UNCHANGED forced

\* The asker's id, unless the call is about somebody.
WithUser(c) ==
    IF Has(c.args, "user") \/ Has(c.args, "member") THEN c
    ELSE Call(c.name, With(c.args, Field("user", "me")))

Dispatch ==
    /\ at = "expanded" /\ calls # <<>>
    /\ \A i \in DOMAIN calls : ~Refused(message, calls[i])
    /\ plan' = [i \in DOMAIN calls |-> WithUser(calls[i])]
    /\ at' = "dispatched"
    /\ UNCHANGED <<message, last, proposed, forced, calls>>

Next == Force \/ Normalize \/ Complete \/ Compare \/ Expand \/ AskBack \/ Dispatch

Spec == Init /\ [][Next]_vars

-----------------------------------------------------------------------------
Planned(n) == Those(plan, n)

\* Who is named is who is asked about: a call never joins the asker with a
\* colleague, and when the message names a colleague and no department, or
\* follows up on one, the calls that take a person are about the colleague.
\* Left out: the call that a report per person puts in the place of the others,
\* the shares of a company, the report added for a confirmed project, pairs,
\* and follow-ups that are about the asker.
RightPerson ==
    at = "dispatched" /\ message \cap {"dept", "people", "company", "first", "pair", "self"} = {} =>
        \A i \in DOMAIN plan :
            LET as == plan[i].args IN
            /\ ~(Has(as, "user") /\ Has(as, "member"))
            /\ Colleague(message) # None /\ plan[i].name \in PersonTools =>
                 Has(as, "member") /\ as["member"] = Colleague(message)

\* The statistics that are asked for come from one call of the model, or from
\* the words alone.
OneQuestion == forced # None \/ Len(proposed) = 1

\* A comparison of two asks once for each of them, and for the same days.
PartiesOnce ==
    LET stats == Planned("compute_statistics")
        party(i) == Only(stats[i].args, {"member", "project", "dept"})
        compares ==
            \/ message \cap {"pair", "projects"} # {} /\ "versus" \notin message
            \/ {"versus", "colleague", "dept"} \subseteq message
    IN at = "dispatched" /\ OneQuestion /\ stats # <<>> /\ "people" \notin message /\ compares =>
       /\ Len(stats) = 2
       /\ party(1) # party(2)
       /\ stats[1].args["start"] = stats[2].args["start"]
       /\ stats[1].args["end"] = stats[2].args["end"]

Days(c) == c.args["start"] .. c.args["end"]

\* Statistics month by month cover the days of the months that are named, the
\* current one up to today, and no day twice.
EachDayOnce ==
    LET stats == Planned("compute_statistics")
        named == {d \in 1..(Len(MonthNames) * MonthDays) :
                    /\ \E k \in DOMAIN MonthNames :
                         MonthNames[k] \in message /\ (d - 1) \div MonthDays = k - 1
                    /\ (d - 1) \div MonthDays = CurrentMonth - 1 => d <= Today}
    IN at = "dispatched" /\ OneQuestion /\ stats # <<>>
         /\ "each" \in message /\ Len(Months(message)) >= 2
         /\ message \cap {"pair", "projects", "versus", "company", "people", "unowned"} = {} =>
       /\ UNION {Days(stats[i]) : i \in DOMAIN stats} = named
       /\ \A i, j \in DOMAIN stats : i # j => Days(stats[i]) \cap Days(stats[j]) = {}
=============================================================================
