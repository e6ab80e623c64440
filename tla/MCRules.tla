------------------------------- MODULE MCRules -------------------------------
(***************************************************************************)
(* The parts of the agent that decide by rules, for TLC.  They share no    *)
(* state, so one of them runs at a time, "part", while the others stay as  *)
(* they began: this loses none of the behaviours of each.                  *)
(***************************************************************************)
EXTENDS Rules, Functions, TLC

CONSTANTS u1, u2, p1, p2, p3, n1, n2, n3, n4, n5, f1, f2, d1, d2

VARIABLE part

routes == <<at, llm, rules, message, intent, tool, params, registered, handled, missed>>
rulings == <<ruling, said, last, proposed, forced, called, plan>>
windows == <<choosing, messages, rounds, window>>
readings == <<reading, hours, call, who, fetched, figures>>
replies == <<phase, failed, sent, reply, status, detected, answer, log>>
outlines == <<asking, kb, clock, cache, signature, unread, scanned, outline, since, asked, section>>
approvals == <<approving, ids, posted, approved, told>>
rulesVars == <<part, vars, routes, rulings, windows, readings, replies, outlines, approvals>>

-----------------------------------------------------------------------------
(* Messages about hours, and the calls that are proposed for them.  A      *)
(* message is what some three patterns find, or two months and one more.   *)

Between(start, end) == ("start" :> start) @@ ("end" :> end)
SomeDays == Between(5, 6)
Me == "user" :> "me"
Type(type) == "type" :> type
Call(name, args) == [name |-> name, args |-> args]
Statistics(args) == Call("compute_statistics", args)

Findings == {"weekly", "aggregate", "detail", "colleague", "pair", "projects", "dept", "versus",
             "project", "month1", "month2", "month3", "each", "thisMonth", "thisYear", "thisWeek",
             "ratio", "company", "people", "first", "projectId", "unowned", "suggest", "follow",
             "self", "lunar", "iso", "merged", "filled", "excel", "anyProject", "earlier"}

\* What the patterns of the agent can find together.
Consistent(m) ==
    /\ "projectId" \in m => "project" \in m
    /\ "pair" \in m => m \cap {"projects", "colleague"} = {}
    /\ {"first", "people", "merged"} \cap m # {} => "weekly" \in m
    /\ "self" \in m => "follow" \in m /\ "colleague" \notin m
    /\ "lunar" \in m => "suggest" \in m
    /\ "versus" \in m => "dept" \in m

Asked == {m \in {Range(f) : f \in [1..3 -> Findings]}
                  \cup {{x, "month1", "month2", "each"} : x \in Findings} : Consistent(m)}

OneCall == {Call("query_timesheet", SomeDays), Call("query_timesheet", SomeDays @@ Me),
            Statistics(Type("user_hours") @@ Between(5, 7) @@ Me),
            Statistics(Type("department_hours") @@ SomeDays @@ ("dept" :> 1)),
            Call("generate_weekly_report", <<>>), Call("export_report", SomeDays),
            Call("query_project", "project" :> 1)}
Proposed == {<<c>> : c \in OneCall}
              \cup {<<c, d>> : c \in OneCall,
                               d \in {Call("query_timesheet", SomeDays), Call("generate_weekly_report", <<>>)}}
Earlier == {Statistics(Type("user_hours") @@ SomeDays @@ ("member" :> 2)),
            Call("query_timesheet", SomeDays @@ ("member" :> 2))}

-----------------------------------------------------------------------------
(* Calls that read hours, for two people, of whom two, one or none have a  *)
(* name, and two projects; weeks of two days and months of four.           *)

Booked(u, p, d, h, t) == [user |-> u, project |-> p, day |-> d, hours |-> h, type |-> t]
SomeBookings == {Booked(u1, p1, 2, 4, "rd"), Booked(u1, p2, 2, 4, "ops"),
                 Booked(u1, p1, 3, 8, "rd"), Booked(u2, p1, 3, 4, "rd"),
                 Booked(u2, p2, 5, 8, "ops"), Booked(u1, p1, 6, 2, "rd")}

Listing == [tool |-> "query_project", type |-> None, user |-> None, name |-> None, start |-> 1,
            end |-> 1, week |-> None, project |-> None, workType |-> None]
People == {[Listing EXCEPT !.user = u, !.name = n] : u \in {u1, None}, n \in {n1, n2, None}}
Kinds == {"user_hours", "project_hours", "department_hours", "daily_hours", "weekly_hours",
          "monthly_hours"}
CallsToRead ==
    {[c EXCEPT !.tool = "query_timesheet", !.start = s, !.end = 5, !.project = p] :
       c \in People, s \in {2, 6}, p \in {p1, None}}
    \cup {[c EXCEPT !.tool = "compute_statistics", !.type = t, !.start = s, !.end = 6, !.workType = w] :
            c \in People, t \in Kinds, s \in {2, 3}, w \in {None, "rd"}}
    \cup {[c EXCEPT !.tool = "generate_weekly_report", !.week = w] :
            c \in People, w \in {None, <<"lastWeek">>, <<"unreadable">>, <<"date", 3>>}}
    \cup {[Listing EXCEPT !.name = n] : n \in {None, n2, n3, n4, n5}}

DeptOf == [u \in Users |-> "dept"]
TitleOf == [p \in Projects |-> "title"]

\* Of the projects, three have n3 in their names, more than a page, and two have
\* what n4 is without its suffix; n5 resembles one.
HoldersOf == (n1 :> {u1, u2}) @@ (n2 :> {}) @@ (n3 :> {p1, p2, p3}) @@ (n4 :> {})
               @@ (n5 :> {}) @@ ("suffixless" :> {p1, p2})
ExactOf == (n1 :> {u1}) @@ (n2 :> {}) @@ (n3 :> {p1}) @@ (n4 :> {}) @@ (n5 :> {})
ShorterOf == [n \in {n1, n2, n3, n4, n5} |-> IF n = n4 THEN "suffixless" ELSE None]
ResemblingOf == [n \in {n1, n2, n3, n4, n5} |-> IF n \in {n4, n5} THEN {p3} ELSE {}]

-----------------------------------------------------------------------------
\* A day once it is rounded, and less than nothing.
SomeHours == {7, -2}

\* Batches of up to two records, for different dates.
OnePerDate == {<<>>} \cup {<<r>> : r \in Record}
                \cup {b \in Record \X Record : b[1].date # b[2].date}

\* Documents with one section, or two of which one title contains the other.
Within == {<<"work week", "week">>}
SomeContents == {<<"work week", "week">>, <<"week">>}

-----------------------------------------------------------------------------
Parts == {"router", "rules", "window", "reads", "batch", "reply", "outline", "approval"}

\* A part that does not run begins, and stays, in one state.
RulesInit ==
    /\ part \in Parts
    /\ Init
    /\ Routing!Init /\ (part # "router" => llm = "none" /\ rules)
    /\ Replying!Init
    /\ Outlining!Init /\ (part # "outline" => \A f \in Files : kb[f] = None)
    /\ Approving!Init /\ (part # "approval" => ids = [ids |-> {}, action |-> "approve"])
    /\ IF part = "rules" THEN Ruling!Init
       ELSE /\ ruling = "asked" /\ said = {} /\ last = None /\ forced = None
            /\ proposed = <<>> /\ called = <<>> /\ plan = <<>>
    /\ IF part = "window" THEN Choosing!Init
       ELSE choosing = "choosing" /\ messages = <<>> /\ rounds = 0 /\ window = <<>>
    /\ IF part = "reads" THEN Reading!Init
       ELSE /\ reading = "asked" /\ hours = {} /\ call = Listing /\ who = None
            /\ fetched = {} /\ figures = None

Routes(A) == part = "router" /\ A
               /\ UNCHANGED <<part, vars, rulings, windows, readings, replies, outlines, approvals>>
Proposes(A) == part = "rules" /\ A
                 /\ UNCHANGED <<part, vars, routes, windows, readings, replies, outlines, approvals>>
Windows(A) == part = "window" /\ A
                /\ UNCHANGED <<part, vars, routes, rulings, readings, replies, outlines, approvals>>
Reads(A) == part = "reads" /\ A
              /\ UNCHANGED <<part, vars, routes, rulings, windows, replies, outlines, approvals>>
Saves(A) == part = "batch" /\ A
              /\ UNCHANGED <<part, routes, rulings, windows, readings, replies, outlines, approvals>>
Replies(A) == part = "reply" /\ A
                /\ UNCHANGED <<part, vars, routes, rulings, windows, readings, outlines, approvals>>
Outlines(A) == part = "outline" /\ A
                 /\ UNCHANGED <<part, vars, routes, rulings, windows, readings, replies, approvals>>
Approves(A) == part = "approval" /\ A
                 /\ UNCHANGED <<part, vars, routes, rulings, windows, readings, replies, outlines>>

RulesNext ==
    \/ Routes(Routing!Next)
    \/ Proposes(Ruling!Next)
    \/ Windows(Choosing!Next)
    \/ Reads(Reading!Next)
    \/ Saves(Next)
    \/ Replies(Replying!Next)
    \/ Outlines(Outlining!Next)
    \/ Approves(Approving!Next)

RulesSpec == RulesInit /\ [][RulesNext]_rulesVars
=============================================================================
