----------------------------- MODULE WriteReport -----------------------------
(***************************************************************************)
(* What a tool that writes promises about its report: a success was        *)
(* written, a definite failure is not written and never will be, and of an *)
(* unknown result nothing is said.                                         *)
(***************************************************************************)
VARIABLES
    written,    \* whether the backend has what was asked for
    told        \* the report: "nothing" so far

Init == written = FALSE /\ told = "nothing"

Write ==
    /\ ~written /\ told \in {"nothing", "unknown"}
    /\ written' = TRUE
    /\ UNCHANGED told

Tell ==
    /\ told = "nothing"
    /\ \/ told' = "success" /\ written
       \/ told' = "failure" /\ ~written
       \/ told' = "unknown"
    /\ UNCHANGED written

Spec == Init /\ [][Write \/ Tell]_<<written, told>>
=============================================================================
