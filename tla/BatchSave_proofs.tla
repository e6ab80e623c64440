-------------------------- MODULE BatchSave_proofs --------------------------
(***************************************************************************)
(* What a writing call of the batch tool guarantees, for every batch and   *)
(* any number of calls.                                                    *)
(***************************************************************************)
EXTENDS BatchSave, TLAPS

-----------------------------------------------------------------------------
(* Types.                                                                  *)

\* The records of the current call are records.
LEMMA BatchRecords ==
    ASSUME batch \in Batches \cup {<<>>}
    PROVE  /\ batch \in Seq(Record)
           /\ \A i \in DOMAIN batch : batch[i] \in Record
<1>1. <<>> \in Seq(Record)
  OBVIOUS
<1>2. batch \in Seq(Record)
  BY <1>1, BatchesAssumption
<1> QED
  BY <1>2

\* A record books a positive number of hours, at most a day.
LEMMA NormalizedBounds ==
    ASSUME NEW q \in Int
    PROVE  Normalized(q) \in Nat /\ Normalized(q) <= Cap
BY HoursAssumption DEF Normalized

LEMMA BookingTyped ==
    ASSUME booked \in [Dates -> Nat], NEW r \in Record
    PROVE  Booking(r) \in [Dates -> Nat]
<1>1. Normalized(r.hours) \in Nat
  BY NormalizedBounds, HoursAssumption DEF Record
<1>2. r.date \in Dates
  BY DEF Record
<1>3. booked[r.date] + Normalized(r.hours) \in Nat
  BY <1>1, <1>2
<1> QED
  BY <1>3 DEF Booking

\* Any outcome of the listed ones keeps the outcomes typed.
LEMMA OutcomeTyped ==
    ASSUME outcome \in [DOMAIN batch -> Outcomes], NEW i, NEW o \in Outcomes,
           batch' = batch, outcome' = [outcome EXCEPT ![i] = o]
    PROVE  outcome' \in [DOMAIN batch' -> Outcomes]
OBVIOUS

LEMMA TypeStep == TypeOK /\ [Next]_vars => TypeOK'
<1> SUFFICES ASSUME TypeOK, [Next]_vars PROVE TypeOK'
  OBVIOUS
<1>1. CASE Preview
  BY <1>1 DEF TypeOK, Preview, callVars, backendVars
<1>2. ASSUME NEW b \in Batches, NEW seen \in Seen, Submit(b, seen) PROVE TypeOK'
  <2>1. outcome' \in [DOMAIN batch' -> Outcomes]
    BY <1>2 DEF Submit, Outcomes
  <2>2. calls \in Nat /\ calls' \in 0..MaxCalls /\ calls \in 0..MaxCalls
    BY <1>2, BoundsAssumption DEF Submit, TypeOK
  <2>3. \A i \in Pending : batch[i] \in Record
    BY BatchRecords DEF TypeOK, Pending
  <2>4. late' \subseteq [call : 0..MaxCalls, record : Record]
    BY <1>2, <2>2, <2>3 DEF Submit, TypeOK
  <2>5. result' \in Results
    BY <1>2 DEF Submit, Results
  <2> QED
    BY <1>2, <2>1, <2>2, <2>4, <2>5 DEF Submit, TypeOK
<1>3. ASSUME NEW i \in DOMAIN batch, Post(i) PROVE TypeOK'
  BY <1>3, OutcomeTyped DEF TypeOK, Post, backendVars, Outcomes
<1>4. ASSUME NEW i \in DOMAIN batch, Accepted(i) \/ Rejected(i) \/ GaveUp(i) PROVE TypeOK'
  BY <1>4, OutcomeTyped
     DEF TypeOK, Accepted, Rejected, GaveUp, Lost, Answer, backendVars, Outcomes
<1>5. CASE Report \/ Interrupt
  BY <1>5 DEF TypeOK, Report, Interrupt, Verdict, backendVars, Results
<1>6. ASSUME NEW i \in DOMAIN batch, Commit(i) PROVE TypeOK'
  BY <1>6, BatchRecords, BookingTyped DEF TypeOK, Commit, callVars
<1>7. ASSUME NEW p \in late, CommitLate(p) PROVE TypeOK'
  <2>1. p.record \in Record
    BY DEF TypeOK
  <2> QED
    BY <1>7, <2>1, BookingTyped DEF TypeOK, CommitLate, callVars
<1>8. ASSUME NEW r \in Record, BookElsewhere(r) PROVE TypeOK'
  BY <1>8, BookingTyped, BoundsAssumption DEF TypeOK, BookElsewhere, callVars
<1>9. CASE UNCHANGED vars
  BY <1>9 DEF TypeOK, vars, callVars, backendVars
<1> QED
  BY <1>1, <1>2, <1>3, <1>4, <1>5, <1>6, <1>7, <1>8, <1>9 DEF Next, Handler

\* Every variable of the batch tool keeps its type; in particular no sequence
\* of calls books a negative number of hours.
THEOREM BatchTypeOK == Spec => []TypeOK
<1>1. Init => TypeOK
  <2> SUFFICES ASSUME Init PROVE TypeOK
    OBVIOUS
  <2>1. outcome \in [DOMAIN batch -> Outcomes]
    BY DEF Init
  <2> QED
    BY <2>1, BoundsAssumption DEF Init, TypeOK, Results
<1> QED
  BY <1>1, TypeStep, PTL DEF Spec

-----------------------------------------------------------------------------
(* What a call reports.                                                    *)

InDoubt == {"sent", "unknown"}

\* What is not posted, or was rejected, is not in the backend.
Unwritten == \A i \in DOMAIN batch : outcome[i] \in {"due", "skipped", "failed"} => i \notin landed

\* The outcomes that stand behind each result of a call.
ResultMeans ==
    /\ result = "saving" => \E i \in DOMAIN batch : outcome[i] # "skipped"
    /\ result = "fail" => \A i \in DOMAIN batch : outcome[i] \in {"skipped", "failed"}
    /\ result = "ok" => /\ \A i \in DOMAIN batch : outcome[i] \in {"skipped", "failed", "ok"}
                        /\ Some("ok")

ReportInv == Unwritten /\ OneInDoubt /\ ResultMeans

\* A step that changes no outcome, no result and none of what has landed.
LEMMA ReportFrame ==
    ReportInv /\ UNCHANGED <<batch, outcome, result, landed>> => ReportInv'
BY DEF ReportInv, Unwritten, OneInDoubt, ResultMeans, Some

LEMMA ReportStep == TypeOK /\ ReportInv /\ [Next]_vars => ReportInv'
<1> SUFFICES ASSUME TypeOK, ReportInv, [Next]_vars PROVE ReportInv'
  OBVIOUS
<1> USE DEF TypeOK
<1>1. CASE Preview
  BY <1>1, ReportFrame DEF Preview, callVars, backendVars
<1>2. ASSUME NEW b \in Batches, NEW seen \in Seen, Submit(b, seen) PROVE ReportInv'
  <2>1. landed' = {} /\ batch' = b
    BY <1>2 DEF Submit
  <2>2. \A i \in DOMAIN b : outcome'[i] = IF i \in ToSave(b, seen) THEN "due" ELSE "skipped"
    BY <1>2 DEF Submit
  <2>3. result' = "saving" => \E i \in DOMAIN b : i \in ToSave(b, seen)
    BY <1>2 DEF Submit, ToSave
  <2>4. result' = "fail" => ToSave(b, seen) = {}
    BY <1>2 DEF Submit
  <2>5. result' \in {"none", "fail", "saving"}
    BY <1>2 DEF Submit
  <2>6. ResultMeans'
    BY <2>1, <2>2, <2>3, <2>4, <2>5 DEF ResultMeans
  <2> QED
    BY <2>1, <2>2, <2>6 DEF ReportInv, Unwritten, OneInDoubt
<1>3. ASSUME NEW i \in DOMAIN batch, Post(i) PROVE ReportInv'
  <2>1. /\ outcome' = [outcome EXCEPT ![i] = "sent"] /\ outcome[i] = "due"
        /\ \A j \in DOMAIN batch : outcome[j] \notin InDoubt
        /\ UNCHANGED <<batch, result, landed>> /\ result = "saving"
    BY <1>3 DEF Post, TurnOf, backendVars, InDoubt
  <2>2. outcome'[i] = "sent" /\ \A j \in DOMAIN batch \ {i} : outcome'[j] = outcome[j]
    BY <2>1
  <2>3. OneInDoubt'
    BY <2>1, <2>2 DEF OneInDoubt, InDoubt
  <2>4. Unwritten'
    BY <2>1, <2>2 DEF ReportInv, Unwritten
  <2>5. ResultMeans'
    BY <2>1, <2>2 DEF ReportInv, ResultMeans
  <2> QED
    BY <2>3, <2>4, <2>5 DEF ReportInv
<1>4. ASSUME NEW i \in DOMAIN batch, Accepted(i) \/ Rejected(i) \/ GaveUp(i) PROVE ReportInv'
  <2>1. PICK o \in {"ok", "failed", "unknown"} : Answer(i, o) /\ (o = "failed" => i \notin landed)
    BY <1>4 DEF Accepted, Rejected, GaveUp, Lost
  <2>2. /\ outcome'[i] = o /\ outcome[i] = "sent"
        /\ \A j \in DOMAIN batch \ {i} : outcome'[j] = outcome[j]
        /\ UNCHANGED <<batch, result, landed>> /\ result = "saving"
    BY <2>1 DEF Answer, backendVars
  <2>3. OneInDoubt'
    BY <2>2 DEF ReportInv, OneInDoubt
  <2>4. Unwritten'
    BY <2>1, <2>2 DEF ReportInv, Unwritten
  <2>5. ResultMeans'
    BY <2>2 DEF ReportInv, ResultMeans
  <2> QED
    BY <2>3, <2>4, <2>5 DEF ReportInv
<1>5. CASE Report
  <2>1. UNCHANGED <<batch, outcome, landed>> /\ result = "saving" /\ result' = Verdict
    BY <1>5 DEF Report, backendVars
  <2>2. ASSUME result' # "unknown"
        PROVE  \A i \in DOMAIN batch : outcome[i] \in {"skipped", "failed", "ok"}
    BY <1>5, <2>1, <2>2 DEF Report, Over, Verdict, Some, Outcomes
  <2>3. result' = "fail" => ~Some("ok")
    BY <2>1 DEF Verdict
  <2>4. result' = "ok" => Some("ok")
    <3> SUFFICES ASSUME result' = "ok", ~Some("ok") PROVE FALSE
      OBVIOUS
    <3>1. ~Some("failed")
      BY <2>1 DEF Verdict
    <3> QED
      BY <2>1, <2>2, <3>1 DEF ReportInv, ResultMeans, Some
  <2>5. result' \in {"ok", "fail", "unknown"}
    BY <2>1 DEF Verdict
  <2>6. ResultMeans'
    <3>1. Some("ok")' = Some("ok")
      BY <2>1 DEF Some
    <3> QED
      BY <2>1, <2>2, <2>3, <2>4, <2>5, <3>1 DEF ResultMeans, Some
  <2> QED
    BY <2>1, <2>6 DEF ReportInv, Unwritten, OneInDoubt
<1>6. CASE Interrupt
  BY <1>6 DEF Interrupt, backendVars, ReportInv, Unwritten, OneInDoubt, ResultMeans
<1>7. ASSUME NEW i \in DOMAIN batch, Commit(i) PROVE ReportInv'
  <2>1. /\ landed' = landed \cup {i} /\ outcome[i] \in InDoubt
        /\ UNCHANGED <<batch, outcome, result>>
    BY <1>7 DEF Commit, Pending, callVars, InDoubt
  <2>2. Unwritten'
    BY <2>1 DEF ReportInv, Unwritten, InDoubt
  <2> QED
    BY <2>1, <2>2 DEF ReportInv, OneInDoubt, ResultMeans, Some
<1>8. CASE (\E p \in late : CommitLate(p)) \/ (\E r \in Record : BookElsewhere(r))
  BY <1>8, ReportFrame DEF CommitLate, BookElsewhere, callVars
<1>9. CASE UNCHANGED vars
  BY <1>9, ReportFrame DEF vars, callVars, backendVars
<1> QED
  BY <1>1, <1>2, <1>3, <1>4, <1>5, <1>6, <1>7, <1>8, <1>9 DEF Next, Handler

LEMMA ReportInvariant == Spec => [](TypeOK /\ ReportInv)
<1>1. Init => ReportInv
  BY DEF Init, ReportInv, Unwritten, OneInDoubt, ResultMeans, Some
<1> QED
  BY <1>1, ReportStep, BatchTypeOK, PTL DEF Spec

\* A call that reports failure has written nothing and never will.
THEOREM FailureIsSafe == Spec => []FailureWroteNothing
<1>1. TypeOK /\ ReportInv => FailureWroteNothing
  BY DEF TypeOK, ReportInv, Unwritten, ResultMeans, FailureWroteNothing, Pending
<1> QED
  BY <1>1, ReportInvariant, PTL

\* At most one record of a call is ever in doubt.
THEOREM DoubtIsSingle == Spec => []OneInDoubt
BY ReportInvariant, PTL DEF ReportInv

-----------------------------------------------------------------------------
(* A backend that answers 200 only for what it has written.                *)

Saved == \A i \in DOMAIN batch : outcome[i] = "ok" => i \in landed

LEMMA SavedStep == ~ErrorBodies /\ TypeOK /\ Saved /\ [Next]_vars => Saved'
<1> SUFFICES ASSUME ~ErrorBodies, TypeOK, Saved, [Next]_vars PROVE Saved'
  OBVIOUS
<1> USE DEF TypeOK
<1>1. ASSUME batch' = batch, outcome' = outcome, landed \subseteq landed' PROVE Saved'
  BY <1>1 DEF Saved
<1>2. ASSUME NEW b \in Batches, NEW seen \in Seen, Submit(b, seen) PROVE Saved'
  BY <1>2 DEF Submit, Saved
<1>3. ASSUME NEW i \in DOMAIN batch, Post(i) \/ Rejected(i) \/ GaveUp(i) PROVE Saved'
  BY <1>3 DEF Post, Rejected, GaveUp, Lost, Answer, backendVars, Saved
<1>4. ASSUME NEW i \in DOMAIN batch, Accepted(i) PROVE Saved'
  BY <1>4 DEF Accepted, Answer, backendVars, Saved
<1>5. CASE Preview \/ Report \/ Interrupt \/ UNCHANGED vars
  BY <1>1, <1>5 DEF Preview, Report, Interrupt, vars, callVars, backendVars
<1>6. CASE \/ \E i \in DOMAIN batch : Commit(i)
           \/ \E p \in late : CommitLate(p)
           \/ \E r \in Record : BookElsewhere(r)
  BY <1>1, <1>6 DEF Commit, CommitLate, BookElsewhere, callVars
<1> QED
  BY <1>2, <1>3, <1>4, <1>5, <1>6 DEF Next, Handler

LEMMA SavedInvariant == ASSUME ~ErrorBodies PROVE Spec => []Saved
<1>1. Init => Saved
  BY DEF Init, Saved
<1>2. TypeOK /\ Saved /\ [Next]_vars => Saved'
  BY SavedStep
<1> QED
  BY <1>1, <1>2, BatchTypeOK, PTL DEF Spec

\* What a call says of each record is true, if the backend never answers 200
\* with an error in the body.
THEOREM RecordsReportedTrue == ASSUME ~ErrorBodies PROVE Spec => []ReportTrue
<1>1. ReportInv /\ Saved => ReportTrue
  BY DEF ReportInv, Unwritten, Saved, ReportTrue
<1> QED
  BY <1>1, ReportInvariant, SavedInvariant, PTL

\* A call that reports success has settled every record and saved one of them.
THEOREM SuccessIsSettled == ASSUME ~ErrorBodies PROVE Spec => []SuccessSettled
<1>1. TypeOK /\ ReportInv /\ Saved => SuccessSettled
  BY DEF TypeOK, ReportInv, ResultMeans, Some, Saved, SuccessSettled, Pending
<1> QED
  BY <1>1, ReportInvariant, SavedInvariant, PTL

\* The verdict on a batch is true in both directions.
THEOREM VerdictIsTrue == ASSUME ~ErrorBodies PROVE Spec => []VerdictTrue
<1>1. FailureWroteNothing /\ SuccessSettled => VerdictTrue
  BY DEF VerdictTrue
<1> QED
  BY <1>1, FailureIsSafe, SuccessIsSettled, PTL

-----------------------------------------------------------------------------
(* The limit of a day holds for batches with one record per date, as long  *)
(* as the hours booked are known and nobody else books any, for every      *)
(* record that states some hours.                                          *)

Careful ==
    /\ ~FetchFails /\ ~LandsLate /\ MaxOthers = 0
    /\ \A b \in Batches : \A i, j \in DOMAIN b : b[i].date = b[j].date => i = j
    /\ Cap % 2 = 0

\* Records are booked in half hours, and each that states some hours and is still
\* to be committed fits into its day.
Fits ==
    /\ late = {} /\ others = 0
    /\ \A d \in Dates : booked[d] % 2 = 0
    /\ \A i \in DOMAIN batch :
          /\ outcome[i] \in {"due", "sent"} /\ result = "saving" /\ i \notin landed
          /\ batch[i].hours > 0
          => booked[batch[i].date] + Normalized(batch[i].hours) <= Cap

\* What LimitKept says of a step.
WithinLimit ==
    \A d \in Dates :
        booked'[d] > booked[d] /\ booked'[d] > Cap =>
            \E i \in landed' \ landed : batch[i].date = d /\ batch[i].hours <= 0

LEMMA NormalizedEven ==
    ASSUME Careful, NEW q \in Int
    PROVE  /\ Normalized(q) % 2 = 0
           /\ q > 0 => Normalized(q) <= q + 1
<1> DEFINE near == IF q % 2 = 0 THEN q \div 2 ELSE (q \div 2) + ((q \div 2) % 2)
<1>1. near \in Int /\ q \div 2 \in Int /\ 2 * near <= q + 1
  BY Z3
<1>2. (2 * near) % 2 = 0
  <2> HIDE DEF near
  <2> QED
    BY <1>1
<1>3. Normalized(q) = IF near <= 0 THEN 2 ELSE IF 2 * near > Cap THEN Cap ELSE 2 * near
  BY DEF Normalized
<1> HIDE DEF near
<1>4. Cap \in Nat /\ Cap % 2 = 0
  BY HoursAssumption DEF Careful
<1> QED
  BY <1>1, <1>2, <1>3, <1>4

\* Half hours that fit before they are rounded fit afterwards.
LEMMA RoundingFits ==
    ASSUME Careful, NEW q \in Int, q > 0, NEW n \in Nat, n % 2 = 0, n + q <= Cap
    PROVE  n + Normalized(q) <= Cap
<1>1. Normalized(q) \in Nat /\ Normalized(q) % 2 = 0 /\ Normalized(q) <= q + 1
  BY NormalizedBounds, NormalizedEven
<1>2. Cap \in Nat /\ Cap % 2 = 0
  BY HoursAssumption DEF Careful
<1>3. ASSUME NEW m \in Nat, m % 2 = 0, m <= q + 1 PROVE n + m <= Cap
  BY <1>2, <1>3
<1> QED
  BY <1>1, <1>3

LEMMA LimitStep ==
    Careful /\ TypeOK /\ Fits /\ [Next]_vars => Fits' /\ WithinLimit
<1> SUFFICES ASSUME Careful, TypeOK, Fits, [Next]_vars PROVE Fits' /\ WithinLimit
  OBVIOUS
<1> USE DEF TypeOK
<1>1. ASSUME UNCHANGED <<batch, booked, late, others, landed>>,
             \/ result' # "saving"
             \/ result' = result /\ \A i \in DOMAIN batch :
                    outcome'[i] \in {"due", "sent"} => outcome[i] \in {"due", "sent"}
      PROVE  Fits' /\ WithinLimit
  BY <1>1 DEF Fits, WithinLimit
<1>2. ASSUME NEW b \in Batches, NEW seen \in Seen, Submit(b, seen) PROVE Fits' /\ WithinLimit
  <2>1. seen = booked
    BY DEF Seen, Careful
  <2>2. ASSUME NEW i \in ToSave(b, seen), b[i].hours > 0
        PROVE  booked[b[i].date] + Normalized(b[i].hours) <= Cap
    <3>1. i \in DOMAIN b /\ b[i] \in Record
      BY BatchesAssumption DEF ToSave
    <3>2. i \in LastOf(b, b[i].date)
      <4>1. \A j \in DOMAIN b : b[j].date = b[i].date => j = i
        BY <3>1 DEF Careful
      <4>2. i \in Nat
        BY <3>1, BatchesAssumption
      <4> QED
        BY <3>1, <4>1, <4>2 DEF LastOf
    <3>3. ~(booked[b[i].date] + b[i].hours > Cap)
      BY <2>1, <3>2 DEF ToSave, Blocked
    <3>4. /\ b[i].hours \in Int /\ booked[b[i].date] \in Nat
          /\ booked[b[i].date] % 2 = 0
      BY <3>1, HoursAssumption DEF Record, Fits
    <3>5. booked[b[i].date] + b[i].hours <= Cap
      BY <3>3, <3>4, HoursAssumption
    <3> QED
      BY <2>2, <3>4, <3>5, RoundingFits
  <2>3. late' = {} /\ others' = 0 /\ booked' = booked
    BY <1>2 DEF Submit, Fits, Careful
  <2>4. batch' = b /\ \A i \in DOMAIN b : outcome'[i] \in {"due", "sent"} => i \in ToSave(b, seen)
    BY <1>2 DEF Submit
  <2>5. Fits'
    BY <2>2, <2>3, <2>4 DEF Fits
  <2> QED
    BY <2>3, <2>5 DEF WithinLimit
<1>3. ASSUME NEW i \in DOMAIN batch, Post(i) PROVE Fits' /\ WithinLimit
  <2>1. \A j \in DOMAIN batch : outcome'[j] \in {"due", "sent"} => outcome[j] \in {"due", "sent"}
    BY <1>3 DEF Post, TurnOf
  <2> QED
    BY <1>1, <1>3, <2>1 DEF Post, backendVars
<1>4. ASSUME NEW i \in DOMAIN batch, Accepted(i) \/ Rejected(i) \/ GaveUp(i)
      PROVE  Fits' /\ WithinLimit
  <2>1. PICK o : Answer(i, o)
    BY <1>4 DEF Accepted, Rejected, GaveUp
  <2>2. \A j \in DOMAIN batch : outcome'[j] \in {"due", "sent"} => outcome[j] \in {"due", "sent"}
    BY <2>1 DEF Answer
  <2> QED
    BY <1>1, <2>1, <2>2 DEF Answer, backendVars
<1>5. CASE Preview \/ Interrupt \/ UNCHANGED vars
  BY <1>1, <1>5 DEF Preview, Interrupt, vars, callVars, backendVars
<1>6. CASE Report
  <2>1. result' # "saving"
    BY <1>6 DEF Report, Verdict
  <2> QED
    BY <1>1, <1>6, <2>1 DEF Report, backendVars
<1>7. ASSUME NEW i \in DOMAIN batch, Commit(i) PROVE Fits' /\ WithinLimit
  <2> DEFINE d == batch[i].date
             n == Normalized(batch[i].hours)
  <2>1. /\ outcome[i] = "sent" /\ result = "saving" /\ i \notin landed
        /\ booked' = Booking(batch[i]) /\ landed' = landed \cup {i}
        /\ UNCHANGED <<batch, outcome, result, late, others>>
    BY <1>7 DEF Commit, Pending, callVars, Careful
  <2>2. batch[i].hours > 0 => booked[d] + n <= Cap
    BY <2>1 DEF Fits
  <2>3. batch[i] \in Record
    BY BatchRecords
  <2>4. booked'[d] = booked[d] + n /\ \A e \in Dates \ {d} : booked'[e] = booked[e]
    BY <2>1, <2>3 DEF Booking, Record
  <2>5. WithinLimit
    <3>1. d \in Dates /\ batch[i].hours \in Int /\ i \in landed' \ landed
      BY <2>1, <2>3, HoursAssumption DEF Record
    <3>2. \A e \in Dates \ {d} : ~(booked'[e] > booked[e])
      <4>1. \A e \in Dates : booked[e] \in Nat
        OBVIOUS
      <4> QED
        BY <2>4, <4>1
    <3>3. booked'[d] > Cap => batch[i].hours <= 0
      <4>1. n \in Nat /\ booked[d] \in Nat /\ Cap \in Nat
        BY <3>1, NormalizedBounds, HoursAssumption
      <4> QED
        BY <2>2, <2>4, <3>1, <4>1
    <3> QED
      BY <3>1, <3>2, <3>3 DEF WithinLimit
  <2>6. ASSUME NEW j \in DOMAIN batch, j # i
        PROVE  booked'[batch[j].date] = booked[batch[j].date]
    <3>1. batch[j].date # d
      BY <2>6 DEF Careful
    <3>2. batch[j].date \in Dates
      BY BatchRecords DEF Record
    <3> QED
      BY <2>4, <3>1, <3>2
  <2>7. \A e \in Dates : booked'[e] % 2 = 0
    <3>1. n \in Nat /\ n % 2 = 0 /\ booked[d] \in Nat /\ booked[d] % 2 = 0
      BY <2>3, HoursAssumption, NormalizedBounds, NormalizedEven DEF Record, Fits
    <3>2. (booked[d] + n) % 2 = 0
      <4> HIDE DEF d, n
      <4> QED
        BY <3>1
    <3> QED
      BY <2>4, <3>2 DEF Fits
  <2>8. Fits'
    BY <2>1, <2>6, <2>7 DEF Fits
  <2> QED
    BY <2>5, <2>8
<1>8. ~ \E p \in late : CommitLate(p)
  BY DEF Fits
<1>9. ~ \E r \in Record : BookElsewhere(r)
  BY DEF Fits, BookElsewhere, Careful
<1> QED
  BY <1>2, <1>3, <1>4, <1>5, <1>6, <1>7, <1>8, <1>9 DEF Next, Handler

\* Under these conditions no sequence of calls takes a date beyond the limit of a
\* day, whatever the parser makes of the text and however posts end, except by
\* the half hour of a record that states no hours, or less.
THEOREM LimitHeld == ASSUME Careful PROVE Spec => LimitKept
<1>1. Init => Fits
  BY HoursAssumption DEF Init, Fits
<1>2. TypeOK /\ Fits /\ [Next]_vars => Fits'
  BY LimitStep
<1>3. TypeOK /\ Fits /\ [Next]_vars => [WithinLimit]_vars
  BY LimitStep
<1>4. [WithinLimit]_vars <=> [\A d \in Dates :
         booked'[d] > booked[d] /\ booked'[d] > Cap =>
             \E i \in landed' \ landed : batch[i].date = d /\ batch[i].hours <= 0]_vars
  BY DEF WithinLimit
<1> QED
  BY <1>1, <1>2, <1>3, <1>4, BatchTypeOK, PTL DEF Spec, LimitKept
=============================================================================
