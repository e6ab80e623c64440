----------------------------- MODULE BatchSave -----------------------------
(***************************************************************************)
(* batch_save_workhour (tools/batch_save_workhour.py) for one user: a text *)
(* is parsed into records, checked against the hours already booked, shown *)
(* as a preview or posted record by record.  A post may be committed after *)
(* the handler has given it up.  Hours are integers, in quarters of an     *)
(* hour.  The warnings about duplicates and totals change no state.        *)
(***************************************************************************)
EXTENDS Integers, Sequences

CONSTANTS
    Dates,
    Hours,          \* hours a record may state, unchecked
    Cap,            \* BATCH_DAILY_HOUR_BLOCK, also the most one record may book
    Batches,        \* what the language model may parse the text into
    None,           \* no preview yet
    MaxCalls,       \* bound: writing calls of the tool
    MaxOthers,      \* bound: records booked by the web pages meanwhile
    Reparses,       \* TRUE: a second parse of the text may differ
    FetchFails,     \* TRUE: the query for booked hours may fail
    LandsLate,      \* TRUE: a post may be committed after it was given up
    ErrorBodies     \* TRUE: the backend may answer 200 and report an error

Record == [date : Dates, known : BOOLEAN, hours : Hours]

ASSUME BatchesAssumption == Batches \subseteq Seq(Record) /\ None \notin Batches
ASSUME HoursAssumption == Hours \subseteq Int /\ Cap \in Nat \ {0, 1}
ASSUME BoundsAssumption == MaxCalls \in Nat /\ MaxOthers \in Nat
ASSUME FlagsAssumption == {Reparses, FetchFails, LandsLate, ErrorBodies} \subseteq BOOLEAN

VARIABLES
    shown,      \* the records of the last preview
    calls,      \* writing calls so far
    batch,      \* the records of the current or last writing call
    outcome,    \* what became of each of them
    result,     \* what the call reports
    booked,     \* hours the backend has per date
    landed,     \* ghost: the records of this call the backend has committed
    late,       \* posts of earlier calls the backend may still commit
    others      \* records booked by the web pages so far

callVars == <<batch, outcome, result>>
backendVars == <<booked, landed, late, others>>
vars == <<shown, calls, callVars, backendVars>>

Outcomes == {"due", "skipped", "sent", "ok", "failed", "unknown"}
Results == {"none", "saving", "ok", "fail", "unknown"}

-----------------------------------------------------------------------------
(* Checking a batch.                                                       *)

\* _normalize_hours: the nearest half hour, half to even, between half an
\* hour and a day.
Normalized(q) ==
    LET half == q \div 2
        near == IF q % 2 = 0 THEN half ELSE half + (half % 2)
    IN  IF near <= 0 THEN 2 ELSE IF 2 * near > Cap THEN Cap ELSE 2 * near

\* _validate_records computes the total of a date anew with every record of
\* that date, so the last one decides.
LastOf(b, d) == {i \in DOMAIN b : b[i].date = d /\ \A j \in DOMAIN b : b[j].date = d => j <= i}
BlockedMut(b, seen, d) == \E i \in LastOf(b, d) : seen[d] > Cap
Blocked(b, seen, d) == \E i \in LastOf(b, d) : seen[d] + b[i].hours > Cap

\* The records that a writing call goes on to post.
ToSave(b, seen) == {i \in DOMAIN b : b[i].known /\ ~Blocked(b, seen, b[i].date)}

\* What the query finds: an error counts as no hours at all.
Seen == {booked} \cup (IF FetchFails THEN {[d \in Dates |-> 0]} ELSE {})

Init ==
    /\ shown = None
    /\ calls = 0
    /\ batch = <<>>
    /\ outcome = <<>>
    /\ result = "none"
    /\ booked = [d \in Dates |-> 0]
    /\ landed = {}
    /\ late = {}
    /\ others = 0

Idle == result # "saving"

\* dry_run=true: the text is parsed, checked and shown; nothing is written.
Preview ==
    /\ Idle
    /\ shown' \in Batches
    /\ UNCHANGED <<calls, callVars, backendVars>>

\* Posts of this call that may still be committed.
Pending == {i \in DOMAIN batch : outcome[i] \in {"sent", "unknown"} /\ i \notin landed}

\* dry_run=false: the text is parsed and checked again, then saved.  A batch
\* without records is answered like a preview, one with nothing to save fails.
Submit(b, seen) ==
    /\ Idle
    /\ shown # None
    /\ calls < MaxCalls
    /\ ~Reparses => b = shown
    /\ calls' = calls + 1
    /\ batch' = b
    /\ outcome' = [i \in DOMAIN b |-> IF i \in ToSave(b, seen) THEN "due" ELSE "skipped"]
    /\ result' = IF b = <<>> THEN "none" ELSE IF ToSave(b, seen) = {} THEN "fail" ELSE "saving"
    /\ landed' = {}
    /\ late' = late \cup (IF LandsLate THEN {[call |-> calls, record |-> batch[i]] : i \in Pending} ELSE {})
    /\ UNCHANGED <<shown, booked, others>>

-----------------------------------------------------------------------------
(* _save_records: one post after the other.                                *)

\* The next record: none is in flight and none before it is due.
TurnOfMut(i) == outcome[i] = "due" /\ \A j \in DOMAIN batch : outcome[j] # "sent"
TurnOf(i) ==
    /\ outcome[i] = "due"
    /\ \A j \in DOMAIN batch : outcome[j] \notin {"sent", "unknown"}
    /\ \A j \in 1..(i - 1) : outcome[j] # "due"

Post(i) ==
    /\ result = "saving"
    /\ TurnOf(i)
    /\ outcome' = [outcome EXCEPT ![i] = "sent"]
    /\ UNCHANGED <<shown, calls, batch, result, backendVars>>

Answer(i, o) ==
    /\ result = "saving"
    /\ outcome[i] = "sent"
    /\ outcome' = [outcome EXCEPT ![i] = o]
    /\ UNCHANGED <<shown, calls, batch, result, backendVars>>

\* A 2xx answer; its body is not looked at.
Accepted(i) == (i \in landed \/ ErrorBodies) /\ Answer(i, "ok")

\* A 4xx answer: the backend has not written the record.
Rejected(i) == i \notin landed /\ Answer(i, "failed")

\* A 5xx answer, a transport error, a timeout, an unreadable answer.
LostMut == "failed"
Lost == "unknown"
GaveUp(i) == Answer(i, Lost)

\* The loop is over at the end of the batch or after an unknown outcome.
OverMut == \A i \in DOMAIN batch : outcome[i] \notin {"due", "sent"}
Over ==
    \/ \E i \in DOMAIN batch : outcome[i] = "unknown"
    \/ \A i \in DOMAIN batch : outcome[i] \notin {"due", "sent"}

Some(o) == \E i \in DOMAIN batch : outcome[i] = o

VerdictMut == IF Some("ok") THEN "ok" ELSE IF Some("unknown") THEN "unknown" ELSE "fail"
Verdict ==
    IF Some("unknown") THEN "unknown"
    ELSE IF Some("failed") /\ ~Some("ok") THEN "fail" ELSE "ok"

Report ==
    /\ result = "saving"
    /\ Over
    /\ ~Some("sent")
    /\ result' = Verdict
    /\ UNCHANGED <<shown, calls, batch, outcome, backendVars>>

\* The executor's timeout cancels the handler, whose result is then unknown.
Interrupt ==
    /\ result = "saving"
    /\ result' = "unknown"
    /\ UNCHANGED <<shown, calls, batch, outcome, backendVars>>

-----------------------------------------------------------------------------
(* The backend.                                                            *)

Booking(r) == [booked EXCEPT ![r.date] = @ + Normalized(r.hours)]

\* A post is committed while it is in flight, or after it was given up.
Commit(i) ==
    /\ i \in Pending
    /\ ~LandsLate => result = "saving" /\ outcome[i] = "sent"
    /\ booked' = Booking(batch[i])
    /\ landed' = landed \cup {i}
    /\ UNCHANGED <<shown, calls, callVars, late, others>>

\* A post of an earlier call is committed.
CommitLate(p) ==
    /\ p \in late
    /\ booked' = Booking(p.record)
    /\ late' = late \ {p}
    /\ UNCHANGED <<shown, calls, callVars, landed, others>>

\* The user books hours elsewhere.
BookElsewhere(r) ==
    /\ others < MaxOthers
    /\ others' = others + 1
    /\ booked' = Booking(r)
    /\ UNCHANGED <<shown, calls, callVars, landed, late>>

Handler ==
    \/ \E i \in DOMAIN batch : Post(i) \/ Accepted(i) \/ Rejected(i) \/ GaveUp(i)
    \/ Report

Next ==
    \/ Preview
    \/ \E b \in Batches, seen \in Seen : Submit(b, seen)
    \/ Handler
    \/ Interrupt
    \/ \E i \in DOMAIN batch : Commit(i)
    \/ \E p \in late : CommitLate(p)
    \/ \E r \in Record : BookElsewhere(r)

\* Every post is answered or times out, and the loop goes on.
Spec == Init /\ [][Next]_vars /\ WF_vars(Handler)

-----------------------------------------------------------------------------
\* Every variable has its type.
TypeOK ==
    /\ shown \in Batches \cup {None}
    /\ calls \in 0..MaxCalls
    /\ batch \in Batches \cup {<<>>}
    /\ outcome \in [DOMAIN batch -> Outcomes]
    /\ result \in Results
    /\ booked \in [Dates -> Nat]
    /\ landed \subseteq DOMAIN batch
    /\ late \subseteq [call : 0..MaxCalls, record : Record]
    /\ others \in 0..MaxOthers

\* What a call says of a record is true: a record listed as saved is in the
\* backend, one listed as failed or left out is not and will not be.
ReportTrue ==
    \A i \in DOMAIN batch :
        /\ outcome[i] = "ok" => i \in landed
        /\ outcome[i] \in {"due", "skipped", "failed"} => i \notin landed

\* A call that reports failure has written nothing and never will, so trying
\* it again is safe.
FailureWroteNothing == result = "fail" => landed = {} /\ Pending = {}

\* A call that reports success has settled every record, and saved at least
\* one of them.
SuccessSettled ==
    result = "ok" =>
        /\ landed # {}
        /\ Pending = {}
        /\ \A i \in DOMAIN batch : outcome[i] # "due"

\* The verdict of a call on its whole batch is true in both directions: a failure
\* may be tried again, a success is settled.
VerdictTrue == FailureWroteNothing /\ SuccessSettled

\* Nothing more is posted once the outcome of a record is unknown: at most one
\* record of a call is in doubt.
OneInDoubt ==
    \A i, j \in DOMAIN batch :
        outcome[i] \in {"sent", "unknown"} /\ outcome[j] \in {"sent", "unknown"} => i = j

\* The hours of a date stay below the physical limit of a day.
WithinCap == \A d \in Dates : booked[d] <= Cap

\* A date goes beyond the limit only with a record that states no hours, or less:
\* the check adds what it states (batch_save_workhour.py:473), but half an hour is
\* booked for it (:360-361).  Rounding the hours of other records up does not.
LimitKept ==
    [][\A d \in Dates :
         booked'[d] > booked[d] /\ booked'[d] > Cap =>
             \E i \in landed' \ landed : batch[i].date = d /\ batch[i].hours <= 0]_vars

\* A call that starts to save comes to a result.
Reports == result = "saving" ~> result # "saving"
=============================================================================
