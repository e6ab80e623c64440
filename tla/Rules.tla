------------------------------- MODULE Rules -------------------------------
(***************************************************************************)
(* The parts of the agent that decide by rules, side by side: the batch    *)
(* tool (BatchSave, whose names stay as they are), the intent router, the  *)
(* rules for proposed calls, the window of the model, the tools that read  *)
(* hours, the reply of POST /chat and the outline of the knowledge base,   *)
(* and the approval tool.  They share no state.  Each keeps its own        *)
(* specification; here are what they assume of their constants and what    *)
(* each of them promises.                                                  *)
(***************************************************************************)
EXTENDS BatchSave, FiniteSets

CONSTANTS
    MaxWords,
    Questions, ModelCalls, LastCalls,
    MaxTurns, MaxRounds, Budget,
    Users, Projects, Dept, Title, Holders, Exact, Shorter, Resembling, Page,
    Bookings, ReadCalls,
    WeekDays, MonthDays, NewYear, Reach, Today,
    MaxEvents,
    Files, Titles, Contains, Contents, MaxChanges, NewestStays,
    Ids

VARIABLES
    at, llm, rules, message, intent, tool, params, registered, handled, missed,
    ruling, said, last, proposed, forced, called, plan,
    choosing, messages, rounds, window,
    reading, hours, call, who, fetched, figures,
    phase, failed, sent, reply, status, detected, answer, log,
    asking, kb, clock, cache, signature, unread, scanned, outline, since, asked, section,
    approving, ids, posted, approved, told

Routing == INSTANCE IntentRouting WITH calls <- handled

Ruling == INSTANCE CallRules WITH at <- ruling, message <- said, calls <- called

Choosing == INSTANCE ContextWindow WITH at <- choosing

Reading == INSTANCE ReadTools WITH
    Calls <- ReadCalls, at <- reading, booked <- hours, answer <- figures

Replying == INSTANCE ChatReply WITH intent <- detected

Outlining == INSTANCE KbOutline WITH at <- asking

Approving == INSTANCE Approval WITH at <- approving, asked <- ids, result <- told

\* What is no handler, no user, no project or no document is told from one; the
\* knowledge base and what is booked are finite; hours and days are numbers, only
\* the statistics have a kind of work, and a week is one of those the tool reads.
\* The calls the model proposes are no writes here (WriteConfirmation has those),
\* and they keep to the prompt (system.yaml): an id is the asker's own, and whoever
\* else is meant is named instead.
ASSUME RulesAssumption ==
    /\ None \notin Routing!Targets
    /\ \A c \in ReadCalls : Reading!Named(c) =>
         /\ None \notin Reading!Found(c)
         /\ IsFiniteSet(Holders[c.name]) /\ Exact[c.name] \subseteq Holders[c.name]
    /\ Page \in Nat
    /\ IsFiniteSet(Bookings) /\ \A b \in Bookings : b.hours \in Nat /\ b.day \in Nat
    /\ \A c \in ReadCalls :
         /\ c.workType # None => c.tool = "compute_statistics"
         /\ c.week \in {None, <<"thisWeek">>, <<"lastWeek">>, <<"unreadable">>}
                        \cup ({"date"} \X Nat)
    /\ None # <<"lastWeek">>
    /\ WeekDays \in Nat \ {0} /\ MonthDays \in Nat \ {0}
    /\ NewYear \in Nat /\ Today \in Nat \ {0}
    /\ \A cs \in ModelCalls :
         /\ cs \in Seq({cs[i] : i \in DOMAIN cs})
         /\ \A i \in DOMAIN cs :
              /\ cs[i].name # "save_workhour"
              /\ "user" \in DOMAIN cs[i].args =>
                   cs[i].args["user"] = "me" /\ "member" \notin DOMAIN cs[i].args
    /\ None # 1
    /\ \A c \in LastCalls : "member" \in DOMAIN c.args => c.args["member"] # None
    /\ IsFiniteSet(Files)
    /\ Contents \subseteq Seq(Titles)
    /\ None \notin [time : Nat, titles : Contents]
    /\ None \notin Nat \X Nat

-----------------------------------------------------------------------------
(* Properties.                                                             *)

\* A message is routed for one person, once, never with parameters missing, and
\* one more word of either kind never reverses the verdict (IntentRouting).
RoutedRight ==
    /\ Routing!OnePerson /\ Routing!CompleteBeforeRun
    /\ Routing!TargetOnce /\ Routing!VerdictMonotone

\* The calls that replace a question ask for the colleague it means, for each
\* party of a comparison once and for each day of several months once (CallRules).
RewrittenRight == Ruling!RightPerson /\ Ruling!PartiesOnce /\ Ruling!EachDayOnce

\* A call and its result are shown together, the newest last (ContextWindow).
PairsWhole == Choosing!PairsWhole

\* Hours are those of a person whom the name may mean, each is in a total once,
\* and the weekly report and the statistics agree on a week (ReadTools).
HoursRight == Reading!NamedOnly /\ Reading!CountedOnce /\ Reading!WeeksAgree

\* One answer says what the stream said (ChatReply).
ReplyWhole == Replying!ReplyWhole

\* An outline is current however it was cached, and a listed section is the one
\* that is read (KbOutline).
OutlineRight == Outlining!OutlineCurrent /\ Outlining!ReadsListed

\* The approval tool implements WriteReport (Approval).
ReportSpec == Approving!ReportSpec
=============================================================================
