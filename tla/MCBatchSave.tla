----------------------------- MODULE MCBatchSave -----------------------------
(* Instances of BatchSave for TLC.                                            *)
EXTENDS BatchSave

CONSTANTS d1, d2

\* An hour, and a negative number of hours.
StatedHours == {4, -2}

\* Batches of up to two records, with unknown projects and a date twice.
AnyBatches == {<<>>} \cup {<<r>> : r \in Record} \cup (Record \X Record)

\* Batches whose records are for different dates.
OnePerDate == {b \in AnyBatches : \A i, j \in DOMAIN b : b[i].date = b[j].date => i = j}

\* Two records of one date.
SameDate == {<<[date |-> d1, known |-> TRUE, hours |-> h],
               [date |-> d1, known |-> TRUE, hours |-> k]>> : h, k \in Hours}
=============================================================================
