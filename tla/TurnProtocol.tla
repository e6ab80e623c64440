---------------------------- MODULE TurnProtocol ----------------------------
(***************************************************************************)
(* What a client of POST /chat/stream may rely on, whatever the agent does *)
(* inside: the stream is opened, it answers or reports an error at least   *)
(* once, and only then is it done.  A client may leave at any time.        *)
(***************************************************************************)
VARIABLES
    phase,      \* how far the stream has come
    failed      \* whether an error was reported on it

Phases == {"idle", "open", "answered", "done", "refused", "left"}

Init ==
    /\ phase = "idle"
    /\ failed = FALSE

\* No agent: one error and nothing else.
Refuse ==
    /\ phase = "idle"
    /\ phase' = "refused"
    /\ failed' = TRUE

\* The events start and thinking.
Open ==
    /\ phase = "idle"
    /\ phase' = "open"
    /\ UNCHANGED failed

\* A response, an error, or both: an error is never taken back.
Answer ==
    /\ phase \in {"open", "answered"}
    /\ phase' = "answered"
    /\ failed' \in {failed, TRUE}

\* The event done.
Finish ==
    /\ phase = "answered"
    /\ phase' = "done"
    /\ UNCHANGED failed

Leave ==
    /\ phase \in {"idle", "open", "answered"}
    /\ phase' = "left"
    /\ UNCHANGED failed

Next == Refuse \/ Open \/ Answer \/ Finish \/ Leave

Spec == Init /\ [][Next]_<<phase, failed>>
=============================================================================
