---------------------------- MODULE WriteLicence ----------------------------
(***************************************************************************)
(* What the confirmation protocol of a session promises: a successful      *)
(* preview of a request grants a licence to write it; an attempt to write  *)
(* on the strength of the preview uses the licence up, whatever becomes of *)
(* it; a licence may be revoked or replaced at any time.                   *)
(***************************************************************************)
EXTENDS Naturals

\* None is no request.
CONSTANTS Requests, None

VARIABLES
    licence,    \* the request that a confirmation may write, or None
    granted,    \* how many licences each request was granted
    used        \* how many of them were used

vars == <<licence, granted, used>>

Init ==
    /\ licence = None
    /\ granted = [r \in Requests |-> 0]
    /\ used = [r \in Requests |-> 0]

\* A preview succeeded and was recorded; an earlier licence is replaced.
Grant(r) ==
    /\ licence' = r
    /\ granted' = [granted EXCEPT ![r] = @ + 1]
    /\ UNCHANGED used

\* The user confirms: one attempt to write.
Use(r) ==
    /\ licence = r
    /\ licence' = None
    /\ used' = [used EXCEPT ![r] = @ + 1]
    /\ UNCHANGED granted

\* Cancellation, expiry, or another write taking the place of this one.
Revoke ==
    /\ licence # None
    /\ licence' = None
    /\ UNCHANGED <<granted, used>>

Next == Revoke \/ \E r \in Requests : Grant(r) \/ Use(r)

Spec == Init /\ [][Next]_vars

-----------------------------------------------------------------------------
TypeOK ==
    /\ licence \in Requests \cup {None}
    /\ granted \in [Requests -> Nat]
    /\ used \in [Requests -> Nat]

\* No request is written more often than its previews licensed.
UsedWithinGranted == \A r \in Requests : used[r] <= granted[r]

\* The inductive form: an outstanding licence is one not yet used.
LicenceOutstanding ==
    \A r \in Requests :
        used[r] <= granted[r] /\ (licence = r => used[r] < granted[r])
=============================================================================
