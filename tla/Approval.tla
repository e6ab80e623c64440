------------------------------- MODULE Approval -------------------------------
(***************************************************************************)
(* approve_workhour (tools/approve_workhour.py): one post with the ids of  *)
(* the records, or an id alone, that SpringBoot approves as a whole, maybe *)
(* after the handler has given it up.  Nothing of a 2xx answer but its     *)
(* status is read: that it means approved is assumed of SpringBoot.        *)
(***************************************************************************)
EXTENDS FiniteSets

CONSTANT Ids

VARIABLES
    at,
    asked,      \* the call: its ids and its action
    posted,     \* whether SpringBoot may still approve
    approved,   \* SpringBoot: the records approved
    result

vars == <<at, asked, posted, approved, result>>

Init ==
    /\ at = "asked"
    /\ asked \in [ids : SUBSET Ids, action : {"approve", "reject"}]
    /\ posted = FALSE
    /\ approved = {}
    /\ result = "nothing"

Returns(r) == at' = "returned" /\ result' = r

\* No ids, or another action.
Refuse ==
    /\ at = "asked"
    /\ asked.ids = {} \/ asked.action # "approve"
    /\ Returns("failure")
    /\ UNCHANGED <<asked, posted, approved>>

Post ==
    /\ at = "asked"
    /\ asked.ids # {} /\ asked.action = "approve"
    /\ at' = "posting"
    /\ posted' = TRUE
    /\ UNCHANGED <<asked, approved, result>>

Approve ==
    /\ posted
    /\ posted' = FALSE
    /\ approved' = asked.ids
    /\ UNCHANGED <<at, asked, result>>

Accepted ==
    /\ at = "posting" /\ approved # {}
    /\ Returns("success")
    /\ UNCHANGED <<asked, posted, approved>>

\* A 403 or another answer below 500.
Rejected ==
    /\ at = "posting" /\ posted
    /\ posted' = FALSE
    /\ Returns("failure")
    /\ UNCHANGED <<asked, approved>>

\* A 5xx, no answer, or any other exception.  (In the mutant, a failure.)
LostMut == at = "posting" /\ Returns("failure") /\ UNCHANGED <<asked, posted, approved>>
Lost == at = "posting" /\ Returns("unknown") /\ UNCHANGED <<asked, posted, approved>>

Next == Refuse \/ Post \/ Approve \/ Accepted \/ Rejected \/ Lost

Spec == Init /\ [][Next]_vars

-----------------------------------------------------------------------------
\* The handler keeps the promise of WriteReport: "提交结果未知，请查询确认" for
\* whatever SpringBoot may still have approved, and a failure only when it never
\* will.
Report == INSTANCE WriteReport WITH written <- approved # {}, told <- result
ReportSpec == Report!Spec
=============================================================================
