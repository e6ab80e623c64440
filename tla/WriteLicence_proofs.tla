------------------------ MODULE WriteLicence_proofs ------------------------
(* Proofs about the abstract licence: it is never used more than granted.  *)
EXTENDS WriteLicence, TLAPS

\* The licence, and both counters, keep their types: Grant, Use and Revoke of
\* the confirmation protocol only ever count up.
THEOREM LicenceTypeOK == Spec => []TypeOK
<1>1. Init => TypeOK
  BY DEF Init, TypeOK
<1>2. TypeOK /\ [Next]_vars => TypeOK'
  BY DEF TypeOK, Next, vars, Grant, Use, Revoke
<1>3. QED BY <1>1, <1>2, PTL DEF Spec

\* A request is written at most as often as its previews licensed.  The
\* induction needs the outstanding licence to be counted as not yet used.
THEOREM LicenceSafe == ASSUME None \notin Requests PROVE Spec => []UsedWithinGranted
<1>1. Init => LicenceOutstanding
  <2>. SUFFICES ASSUME Init, NEW r \in Requests
                PROVE  used[r] <= granted[r] /\ licence # r
    BY DEF LicenceOutstanding
  <2>1. used[r] = 0 /\ granted[r] = 0
    BY DEF Init
  <2>2. QED BY <2>1 DEF Init
<1>2. TypeOK /\ LicenceOutstanding /\ [Next]_vars => LicenceOutstanding'
  <2>. SUFFICES ASSUME TypeOK, LicenceOutstanding, [Next]_vars
                PROVE  LicenceOutstanding'
    OBVIOUS
  <2>. USE DEF TypeOK, LicenceOutstanding
  <2>1. CASE Revoke
    BY <2>1 DEF Revoke
  <2>2. ASSUME NEW r \in Requests, Grant(r) PROVE LicenceOutstanding'
    BY <2>2 DEF Grant
  <2>3. ASSUME NEW r \in Requests, Use(r) PROVE LicenceOutstanding'
    BY <2>3 DEF Use
  <2>4. CASE UNCHANGED vars
    BY <2>4 DEF vars
  <2>5. QED BY <2>1, <2>2, <2>3, <2>4 DEF Next
<1>3. TypeOK /\ LicenceOutstanding => UsedWithinGranted
  BY DEF TypeOK, LicenceOutstanding, UsedWithinGranted
<1>4. QED BY <1>1, <1>2, <1>3, LicenceTypeOK, PTL DEF Spec
=============================================================================
