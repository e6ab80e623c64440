-------------------------- MODULE Gateway_proofs --------------------------
(***************************************************************************)
(* What holds of every call, for any number of calls, entities and tokens, *)
(* whatever the callers, the service and the backend do.  Four invariants  *)
(* are proved in turn: types, whose token a call carries, how far each     *)
(* call has come, and what the log says of it.                             *)
(***************************************************************************)
EXTENDS Gateway, TLAPS

\* A request declares a server, an entity and a form of dry_run.
LEMMA RequestFields ==
    ASSUME NEW c \in Calls, req \in [Calls -> Offered]
    PROVE  /\ req[c].via \in Vias
           /\ req[c].entity \in Entities
           /\ req[c].dry \in Dries
BY OfferedAssumption

LEMMA SlotTyped ==
    ASSUME NEW c \in Calls, req \in [Calls -> Offered]
    PROVE  Slot(c) \in Vias \X Entities
BY RequestFields DEF Slot

\* What a caller's user is told of an answer.
LEMMA ToldTyped == ASSUME NEW r \in Results PROVE Told(r) \in Replies
BY DEF Told, Status, Results, Replies

\* The endpoint answers no 401, so no call is sent again.
LEMMA NeverResends == ASSUME NEW c PROVE ~Resends(c)
BY DEF Resends, Status

-----------------------------------------------------------------------------
(* Types.                                                                  *)

LEMMA LineTyped ==
    ASSUME NEW c \in Calls, NEW p \in {"blocked", "attempt", "result"}, NEW b \in BOOLEAN
    PROVE  Line(c, p, b) \in Audits
BY DEF Line, Audits, DryRun, IsWrite

LEMMA LoggedTyped ==
    ASSUME audit \subseteq Audits, NEW c \in Calls,
           NEW p \in {"blocked", "attempt", "result"}, NEW b \in BOOLEAN, Logged(c, p, b)
    PROVE  audit' \subseteq Audits
BY LineTyped DEF Logged

\* An answer of the tool that posts nothing leaves everything well typed.
LEMMA ReturnTyped ==
    ASSUME TypeOK, NEW c \in Calls, NEW r \in Results, Return(c, r),
           refused' \subseteq Tokens, UNCHANGED <<callerVars, tokenVars, posts>>,
           landed' \in [Calls -> Nat]
    PROVE  TypeOK'
<1>1. audit' \subseteq Audits
  <2> DEFINE ok == r \in {"ok", "preview"}
  <2>1. Logged(c, "result", ok)
    BY DEF Return
  <2>2. ok \in BOOLEAN
    OBVIOUS
  <2> HIDE DEF ok
  <2> QED
    BY <2>1, <2>2, LoggedTyped DEF TypeOK
<1> QED
  BY <1>1 DEF TypeOK, Return, Answered, callerVars, tokenVars, Stages

LEMMA TypeInit == Init => TypeOK
BY TokensAssumption DEF Init, TypeOK, Places, Stages, Results, Replies

LEMMA TypeStep == TypeOK /\ [Next]_vars => TypeOK'
<1> SUFFICES ASSUME TypeOK, [Next]_vars PROVE TypeOK'
  OBVIOUS
<1>1. CASE UNCHANGED vars
  BY <1>1 DEF TypeOK, vars, callerVars, tokenVars, toolVars
<1>2. ASSUME NEW c \in Calls, Caller(c) PROVE TypeOK'
  <2>0. req[c].entity \in Entities /\ Slot(c) \in Vias \X Entities
    BY RequestFields, SlotTyped DEF TypeOK
  <2>1. CASE Identify(c)
    BY <2>1, <2>0 DEF TypeOK, Identify, tokenVars, toolVars, Places, Cached
  <2>2. CASE Fetched(c)
    <3>1. <<req[c].entity, issued[req[c].entity] + 1>> \in Tokens
      BY <2>2, <2>0, TokensAssumption DEF TypeOK, Fetched, Tokens
    <3> QED
      BY <2>2, <2>0, <3>1, TokensAssumption DEF TypeOK, Fetched, toolVars, Places
  <2>3. CASE FetchFails(c)
    BY <2>3 DEF TypeOK, FetchFails, Tell, tokenVars, toolVars, Places, Replies
  <2>4. CASE Forward(c)
    BY <2>4 DEF TypeOK, Forward, tokenVars, Places, Stages, Results
  <2>5. CASE Receive(c)
    <3>1. Told(result[c]) \in Replies
      BY ToldTyped DEF TypeOK
    <3> QED
      BY <2>5, <3>1, NeverResends DEF TypeOK, Receive, Tell, toolVars, Places
  <2>6. CASE GiveUp(c)
    BY <2>6 DEF TypeOK, GiveUp, Tell, tokenVars, toolVars, Places, Replies
  <2> QED
    BY <1>2, <2>1, <2>2, <2>3, <2>4, <2>5, <2>6 DEF Caller
<1>3. ASSUME NEW c \in Calls, Tool(c) PROVE TypeOK'
  <2>1. CASE Enter(c)
    <3>1. audit' \subseteq Audits
      BY <2>1, LoggedTyped DEF Enter, LoggedFirst, TypeOK
    <3> QED
      BY <2>1, <3>1 DEF TypeOK, Enter, Answered, callerVars, tokenVars, Stages, Results
  <2>2. CASE Refuse(c)
    <3>1. refused' \subseteq Tokens
      BY <2>2 DEF Refuse, TypeOK
    <3> QED
      BY <2>2, <3>1, ReturnTyped DEF Refuse, TypeOK, Results
  <2>3. CASE Raise(c)
    BY <2>3, ReturnTyped DEF Raise, TypeOK, Results
  <2>4. CASE Resolve(c)
    <3>1. CASE IsWrite(c) /\ ~DryRun(c)
      BY <2>4, <3>1 DEF TypeOK, Resolve, callerVars, tokenVars, Stages
    <3>2. CASE ~(IsWrite(c) /\ ~DryRun(c))
      BY <2>4, <3>2, ReturnTyped DEF Resolve, TypeOK, Results
    <3> QED
      BY <3>1, <3>2
  <2>5. CASE Accepted(c)
    BY <2>5, ReturnTyped DEF Accepted, TypeOK, Results
  <2>6. CASE Rejected(c)
    <3>1. refused' \subseteq Tokens
      BY <2>6 DEF Rejected, TypeOK
    <3> QED
      BY <2>6, <3>1, ReturnTyped DEF Rejected, TypeOK, Results
  <2>7. CASE GaveUp(c)
    BY <2>7, ReturnTyped DEF GaveUp, Lost, TypeOK, Results
  <2> QED
    BY <1>3, <2>1, <2>2, <2>3, <2>4, <2>5, <2>6, <2>7 DEF Tool
<1>4. ASSUME NEW c \in Calls, Commit(c) PROVE TypeOK'
  BY <1>4 DEF TypeOK, Commit, callerVars, tokenVars, toolVars
<1>5. ASSUME NEW e \in Entities, Expire(e) PROVE TypeOK'
  BY <1>5 DEF TypeOK, Expire, callerVars, toolVars
<1>6. ASSUME NEW t \in Tokens, Revoke(t) PROVE TypeOK'
  BY <1>6 DEF TypeOK, Revoke, callerVars, toolVars
<1> QED
  BY <1>1, <1>2, <1>3, <1>4, <1>5, <1>6 DEF Next

\* Every variable keeps its type.
THEOREM GatewayTypeOK == Spec => []TypeOK
BY TypeInit, TypeStep, PTL DEF Spec

-----------------------------------------------------------------------------
(* Owners: a token is cached and carried under the entity it was issued to. *)

OwnerInv ==
    /\ \A s \in Vias \X Entities : cache[s] # None => cache[s][1] = s[2]
    /\ \A c \in Calls : token[c] # None => token[c][1] = req[c].entity

LEMMA OwnerInit == Init => OwnerInv
BY DEF Init, OwnerInv

LEMMA OwnerStep == TypeOK /\ OwnerInv /\ [Next]_vars => OwnerInv'
<1> SUFFICES ASSUME TypeOK, OwnerInv, [Next]_vars PROVE OwnerInv'
  OBVIOUS
<1>1. CASE UNCHANGED <<cache, token, req>>
  BY <1>1 DEF OwnerInv
<1>2. ASSUME NEW c \in Calls, Identify(c) PROVE OwnerInv'
  <2>1. Slot(c) \in Vias \X Entities /\ Slot(c)[2] = req[c].entity
    BY SlotTyped DEF TypeOK, Slot
  <2> QED
    BY <1>2, <2>1 DEF OwnerInv, TypeOK, Identify, tokenVars
<1>3. ASSUME NEW c \in Calls, Fetched(c) PROVE OwnerInv'
  <2>1. Slot(c) \in Vias \X Entities /\ Slot(c)[2] = req[c].entity
    BY SlotTyped DEF TypeOK, Slot
  <2> QED
    BY <1>3, <2>1 DEF OwnerInv, TypeOK, Fetched
<1>4. ASSUME NEW e \in Entities, Expire(e) PROVE OwnerInv'
  BY <1>4 DEF OwnerInv, TypeOK, Expire, callerVars
<1>5. CASE \E c \in Calls : FetchFails(c) \/ Forward(c) \/ Receive(c) \/ GiveUp(c)
  BY <1>5, <1>1, NeverResends DEF FetchFails, Forward, Receive, GiveUp, Tell, tokenVars
<1>6. CASE \E c \in Calls : Tool(c) \/ Commit(c)
  BY <1>6, <1>1 DEF Tool, Enter, Refuse, Raise, Resolve, Accepted, Rejected, GaveUp,
                    Commit, callerVars, tokenVars
<1>7. CASE \E t \in Tokens : Revoke(t)
  BY <1>7, <1>1 DEF Revoke, callerVars
<1>8. CASE UNCHANGED vars
  BY <1>8, <1>1 DEF vars, callerVars, tokenVars
<1> QED
  BY <1>2, <1>3, <1>4, <1>5, <1>6, <1>7, <1>8 DEF Next, Caller

-----------------------------------------------------------------------------
(* Progress: how far the caller and the tool have come with a call tells    *)
(* how often it was posted, and what its result says of the backend.        *)

FlowOf(c) ==
    /\ at[c] \in {"identify", "fetching", "forward"} => stage[c] = "none"
    /\ at[c] = "forward" \/ stage[c] # "none" => token[c] # None
    /\ result[c] # "none" <=> stage[c] = "answered"
    /\ stage[c] \in {"none", "sent", "running"} => posts[c] = 0
    /\ stage[c] = "posting" => posts[c] = 1
    /\ stage[c] = "running" => Allowed(c)
    /\ posts[c] <= 1 /\ landed[c] <= posts[c]
    /\ posts[c] > 0 => IsWrite(c) /\ ~DryRun(c) /\ Allowed(c)

\* What a result, and what the user is told of it, says of the backend.
ResultOf(c) ==
    /\ result[c] = "ok" /\ IsWrite(c) => landed[c] > 0
    /\ result[c] = "preview" => posts[c] = 0
    /\ result[c] = "fail" => landed[c] = 0
    /\ reply[c] # "none" => at[c] = "done"
    /\ reply[c] \in {"ok", "preview", "fail"} => reply[c] = result[c]
    /\ reply[c] = "identity" => stage[c] = "none"

FlowInv == \A c \in Calls : FlowOf(c) /\ ResultOf(c)

\* A step of one call leaves the others where they are.
Same(c) == UNCHANGED <<at[c], req, token[c], stage[c], result[c], reply[c], posts[c], landed[c]>>

LEMMA SameFlow ==
    ASSUME NEW c \in Calls, FlowOf(c), ResultOf(c), Same(c)
    PROVE  FlowOf(c)' /\ ResultOf(c)'
BY DEF FlowOf, ResultOf, Same, Allowed, IsWrite, DryRun

LEMMA OthersSame ==
    ASSUME TypeOK, NEW c \in Calls, NEW d \in Calls, c # d,
           Caller(d) \/ Tool(d) \/ Commit(d)
    PROVE  Same(c)
<1>1. CASE Identify(d) \/ Fetched(d) \/ FetchFails(d) \/ Forward(d) \/ GiveUp(d)
  BY <1>1 DEF TypeOK, Same, Identify, Fetched, FetchFails, Forward, GiveUp, Tell, toolVars
<1>2. CASE Receive(d)
  BY <1>2 DEF TypeOK, Same, Receive, Tell, toolVars
<1>3. CASE Enter(d) \/ Refuse(d) \/ Raise(d) \/ Resolve(d)
  BY <1>3 DEF TypeOK, Same, Enter, Refuse, Raise, Resolve, Return, Answered, callerVars
<1>4. CASE Accepted(d) \/ Rejected(d) \/ GaveUp(d)
  BY <1>4 DEF TypeOK, Same, Accepted, Rejected, GaveUp, Return, Answered, callerVars
<1>5. CASE Commit(d)
  BY <1>5 DEF TypeOK, Same, Commit, callerVars, toolVars
<1> QED
  BY <1>1, <1>2, <1>3, <1>4, <1>5 DEF Caller, Tool

LEMMA FlowInit == Init => FlowInv
<1> SUFFICES ASSUME Init, NEW c \in Calls PROVE FlowOf(c) /\ ResultOf(c)
  BY DEF FlowInv
<1>1. /\ at[c] = "identify" /\ stage[c] = "none" /\ token[c] = None
      /\ result[c] = "none" /\ reply[c] = "none" /\ posts[c] = 0 /\ landed[c] = 0
  BY DEF Init
<1> QED
  BY <1>1 DEF FlowOf, ResultOf

LEMMA CallerFlow ==
    ASSUME TypeOK, NEW c \in Calls, FlowOf(c), ResultOf(c), Caller(c)
    PROVE  FlowOf(c)' /\ ResultOf(c)'
<1> USE DEF FlowOf, ResultOf, TypeOK, Allowed, IsWrite, DryRun
<1>1. CASE Identify(c)
  BY <1>1 DEF Identify, Cached, tokenVars, toolVars
<1>2. CASE Fetched(c)
  <2>1. req[c].entity \in Entities
    BY RequestFields
  <2>2. <<req[c].entity, issued[req[c].entity] + 1>> # None
    BY <1>2, <2>1, TokensAssumption DEF Fetched
  <2> QED
    BY <1>2, <2>2 DEF Fetched, toolVars
<1>3. CASE FetchFails(c)
  BY <1>3 DEF FetchFails, Tell, tokenVars, toolVars
<1>4. CASE Forward(c)
  BY <1>4 DEF Forward, tokenVars
<1>5. CASE Receive(c)
  BY <1>5, NeverResends DEF Receive, Tell, Told, Status, Results, toolVars
<1>6. CASE GiveUp(c)
  BY <1>6 DEF GiveUp, Tell, tokenVars, toolVars
<1> QED
  BY <1>1, <1>2, <1>3, <1>4, <1>5, <1>6 DEF Caller

LEMMA ToolFlow ==
    ASSUME TypeOK, NEW c \in Calls, FlowOf(c), ResultOf(c), Tool(c)
    PROVE  FlowOf(c)' /\ ResultOf(c)'
<1> USE DEF FlowOf, ResultOf, TypeOK, Allowed, IsWrite, DryRun, callerVars
<1>1. CASE Enter(c)
  BY <1>1 DEF Enter, Answered
<1>2. CASE Refuse(c) \/ Raise(c)
  BY <1>2 DEF Refuse, Raise, Return, Answered
<1>3. CASE Resolve(c)
  <2>1. CASE IsWrite(c) /\ ~DryRun(c)
    BY <1>3, <2>1 DEF Resolve
  <2>2. CASE IsWrite(c) /\ DryRun(c)
    BY <1>3, <2>2 DEF Resolve, Return, Answered
  <2>3. CASE ~IsWrite(c)
    BY <1>3, <2>3 DEF Resolve, Return, Answered
  <2> QED
    BY <2>1, <2>2, <2>3
<1>4. CASE Accepted(c) \/ Rejected(c) \/ GaveUp(c)
  BY <1>4 DEF Accepted, Rejected, GaveUp, Lost, Return, Answered
<1> QED
  BY <1>1, <1>2, <1>3, <1>4 DEF Tool

LEMMA CommitFlow ==
    ASSUME TypeOK, NEW c \in Calls, FlowOf(c), ResultOf(c), Commit(c)
    PROVE  FlowOf(c)' /\ ResultOf(c)'
BY DEF FlowOf, ResultOf, TypeOK, Allowed, IsWrite, DryRun, Commit, callerVars, toolVars

LEMMA FlowStep == TypeOK /\ FlowInv /\ [Next]_vars => FlowInv'
<1> SUFFICES ASSUME TypeOK, FlowInv, [Next]_vars, NEW c \in Calls
             PROVE  FlowOf(c)' /\ ResultOf(c)'
  BY DEF FlowInv
<1>0. FlowOf(c) /\ ResultOf(c)
  BY DEF FlowInv
<1>1. ASSUME NEW d \in Calls, Caller(d) \/ Tool(d) \/ Commit(d)
      PROVE  FlowOf(c)' /\ ResultOf(c)'
  <2>1. CASE d = c
    BY <1>0, <1>1, <2>1, CallerFlow, ToolFlow, CommitFlow
  <2>2. CASE d # c
    BY <1>0, <1>1, <2>2, OthersSame, SameFlow
  <2> QED
    BY <2>1, <2>2
<1>2. CASE (\E e \in Entities : Expire(e)) \/ (\E t \in Tokens : Revoke(t)) \/ UNCHANGED vars
  <2>1. Same(c)
    BY <1>2 DEF Expire, Revoke, vars, callerVars, toolVars, Same
  <2> QED
    BY <1>0, <2>1, SameFlow
<1> QED
  BY <1>1, <1>2 DEF Next

\* A call that has landed was posted, once.
LEMMA LandedOnce ==
    ASSUME TypeOK, NEW c \in Calls, FlowOf(c)
    PROVE  /\ landed[c] \in 0..1
           /\ landed[c] > 0 => posts[c] > 0
           /\ posts[c] = 0 => landed[c] = 0
<1>1. posts[c] \in Nat /\ landed[c] \in Nat
  BY DEF TypeOK
<1> QED
  BY <1>1 DEF FlowOf

-----------------------------------------------------------------------------
(* The log: a call is announced before the tool runs, and a success that is *)
(* logged of a write that was no preview is in the backend.                 *)

Announced(c) == Line(c, "attempt", FALSE) \in audit

AuditOf(c) ==
    /\ IsWrite(c) /\ stage[c] \in {"running", "posting"} => Announced(c)
    /\ posts[c] > 0 => Announced(c)
    /\ [call |-> c, phase |-> "result", dry |-> FALSE, success |-> TRUE] \in audit
         => landed[c] > 0

AuditInv == \A c \in Calls : AuditOf(c)

LEMMA AuditInit == Init => AuditInv
<1> SUFFICES ASSUME Init, NEW c \in Calls PROVE AuditOf(c)
  BY DEF AuditInv
<1>1. stage[c] = "none" /\ posts[c] = 0 /\ audit = {}
  BY DEF Init
<1> QED
  BY <1>1 DEF AuditOf

\* A step that logs nothing of a call and leaves it where it is.
LEMMA AuditKept ==
    ASSUME NEW c \in Calls, AuditOf(c), Same(c), audit \subseteq audit',
           \A l \in audit' \ audit : l.call # c
    PROVE  AuditOf(c)'
<1>1. ASSUME NEW l, l.call = c, l \in audit' PROVE l \in audit
  BY <1>1
<1>2. Announced(c) => Announced(c)'
  BY DEF Same, Announced, Line, DryRun, IsWrite
<1> QED
  BY <1>1, <1>2 DEF AuditOf, Same, IsWrite

\* What a step may add to the log is of its own call.
LEMMA LogGrows ==
    ASSUME NEW d \in Calls, Caller(d) \/ Tool(d) \/ Commit(d)
    PROVE  audit \subseteq audit' /\ \A l \in audit' \ audit : l.call = d
<1>1. CASE Caller(d) \/ Commit(d)
  BY <1>1 DEF Caller, Identify, Fetched, FetchFails, Forward, Receive, GiveUp, Commit, toolVars
<1>2. CASE Tool(d)
  BY <1>2 DEF Tool, Enter, LoggedFirst, Refuse, Raise, Resolve, Accepted, Rejected, GaveUp,
              Return, Logged, Line
<1> QED
  BY <1>1, <1>2

LEMMA OwnAudit ==
    ASSUME TypeOK, NEW c \in Calls, FlowOf(c), AuditOf(c),
           Caller(c) \/ Tool(c) \/ Commit(c)
    PROVE  AuditOf(c)'
<1> USE DEF AuditOf, Announced, TypeOK, IsWrite, DryRun, Line
<1>0. landed[c] \in Nat /\ posts[c] \in Nat /\ (posts[c] = 0 => landed[c] = 0)
  BY LandedOnce
<1>1. CASE Caller(c)
  BY <1>1 DEF Caller, Identify, Fetched, FetchFails, Forward, Receive, GiveUp, Tell,
              tokenVars, toolVars
<1>2. CASE Commit(c)
  BY <1>0, <1>2 DEF Commit, callerVars, toolVars
<1>3. CASE Enter(c)
  BY <1>3 DEF Enter, LoggedFirst, Logged, Answered, callerVars
<1>4. CASE Refuse(c) \/ Raise(c)
  BY <1>4 DEF Refuse, Raise, Return, Logged, Answered, callerVars
<1>5. CASE Resolve(c)
  <2>1. CASE IsWrite(c) /\ ~DryRun(c)
    BY <1>5, <2>1 DEF Resolve, callerVars
  <2>2. CASE IsWrite(c) /\ DryRun(c)
    BY <1>5, <2>2 DEF Resolve, Return, Logged, Answered, callerVars
  <2>3. CASE ~IsWrite(c)
    BY <1>5, <2>3 DEF Resolve, Return, Logged, Answered, callerVars
  <2> QED
    BY <2>1, <2>2, <2>3
<1>6. CASE Accepted(c)
  BY <1>0, <1>6 DEF Accepted, Return, Logged, Answered, callerVars, FlowOf
<1>7. CASE Rejected(c) \/ GaveUp(c)
  BY <1>7 DEF Rejected, GaveUp, Lost, Return, Logged, Answered, callerVars
<1> QED
  BY <1>1, <1>2, <1>3, <1>4, <1>5, <1>6, <1>7 DEF Tool

LEMMA AuditStep == TypeOK /\ FlowInv /\ AuditInv /\ [Next]_vars => AuditInv'
<1> SUFFICES ASSUME TypeOK, FlowInv, AuditInv, [Next]_vars, NEW c \in Calls
             PROVE  AuditOf(c)'
  BY DEF AuditInv
<1>0. FlowOf(c) /\ AuditOf(c)
  BY DEF FlowInv, AuditInv
<1>1. ASSUME NEW d \in Calls, Caller(d) \/ Tool(d) \/ Commit(d)
      PROVE  AuditOf(c)'
  <2>1. CASE d = c
    BY <1>0, <1>1, <2>1, OwnAudit
  <2>2. CASE d # c
    BY <1>0, <1>1, <2>2, OthersSame, LogGrows, AuditKept
  <2> QED
    BY <2>1, <2>2
<1>2. CASE (\E e \in Entities : Expire(e)) \/ (\E t \in Tokens : Revoke(t)) \/ UNCHANGED vars
  <2>1. Same(c) /\ audit' = audit
    BY <1>2 DEF Expire, Revoke, vars, callerVars, toolVars, Same
  <2> QED
    BY <1>0, <2>1, AuditKept
<1> QED
  BY <1>1, <1>2 DEF Next

-----------------------------------------------------------------------------
\* A call is written at most once.
THEOREM GatewayWritesOnce == Spec => []WrittenOnce
<1>1. ASSUME TypeOK, FlowInv, NEW c \in Calls PROVE landed[c] <= 1
  BY <1>1, LandedOnce DEF FlowInv
<1>2. TypeOK /\ FlowInv => WrittenOnce
  BY <1>1 DEF WrittenOnce
<1> QED
  BY <1>2, TypeInit, TypeStep, FlowInit, FlowStep, PTL DEF Spec

\* Only a listed tool writes, and only when the call says so explicitly.
THEOREM GatewayExplicit == Spec => []OnlyExplicit
<1>1. ASSUME TypeOK, FlowInv, NEW c \in Calls, landed[c] > 0
      PROVE  req[c].tool \in Whitelist /\ req[c].dry = "false"
  BY <1>1, LandedOnce DEF FlowInv, FlowOf, Allowed, IsWrite, DryRun
<1>2. TypeOK /\ FlowInv => OnlyExplicit
  BY <1>1 DEF OnlyExplicit
<1> QED
  BY <1>2, TypeInit, TypeStep, FlowInit, FlowStep, PTL DEF Spec

\* No call is written with the token of another entity.
THEOREM GatewayIdentity == Spec => []OwnIdentity
<1>1. ASSUME TypeOK, OwnerInv, FlowInv, NEW c \in Calls, landed[c] > 0
      PROVE  token[c][1] = req[c].entity
  <2>1. posts[c] > 0
    BY <1>1, LandedOnce DEF FlowInv
  <2>2. stage[c] # "none"
    BY <1>1, <2>1 DEF FlowInv, FlowOf
  <2> QED
    BY <1>1, <2>2 DEF FlowInv, FlowOf, OwnerInv
<1>2. TypeOK /\ OwnerInv /\ FlowInv => OwnIdentity
  BY <1>1 DEF OwnIdentity
<1> QED
  BY <1>2, TypeInit, TypeStep, OwnerInit, OwnerStep, FlowInit, FlowStep, PTL DEF Spec

\* A write is announced in the audit log before it takes effect, and one that
\* the log calls successful did.
THEOREM GatewayAudited == Spec => []AuditTrue
<1>1. ASSUME TypeOK, FlowInv, AuditInv, NEW c \in Calls, landed[c] > 0
      PROVE  [call |-> c, phase |-> "attempt", dry |-> FALSE, success |-> FALSE] \in audit
  <2>1. posts[c] > 0
    BY <1>1, LandedOnce DEF FlowInv
  <2>2. Announced(c) /\ ~DryRun(c)
    BY <1>1, <2>1 DEF FlowInv, FlowOf, AuditInv, AuditOf
  <2>3. DryRun(c) = FALSE
    BY <2>2, Zenon DEF DryRun
  <2> QED
    BY <2>2, <2>3, Zenon DEF Announced, Line
<1>2. TypeOK /\ FlowInv /\ AuditInv => AuditTrue
  BY <1>1 DEF AuditTrue, AuditInv, AuditOf
<1> QED
  BY <1>2, TypeInit, TypeStep, FlowInit, FlowStep, AuditInit, AuditStep, PTL DEF Spec

\* What a caller's user is told of a write is true.
THEOREM GatewayTellsTruth == Spec => []ReplyTrue
<1>1. ASSUME TypeOK, FlowInv, NEW c \in Calls
      PROVE  /\ reply[c] = "ok" /\ IsWrite(c) => landed[c] > 0
             /\ reply[c] \in {"preview", "fail", "identity"}
                  => landed[c] = 0 /\ stage[c] # "posting"
  <2>1. FlowOf(c) /\ ResultOf(c) /\ (posts[c] = 0 => landed[c] = 0)
    BY <1>1, LandedOnce DEF FlowInv
  <2>2. reply[c] \in {"preview", "fail"} => stage[c] = "answered" /\ landed[c] = 0
    BY <2>1 DEF FlowOf, ResultOf
  <2>3. reply[c] = "identity" => stage[c] = "none" /\ landed[c] = 0
    BY <2>1 DEF FlowOf, ResultOf
  <2> QED
    BY <2>1, <2>2, <2>3 DEF ResultOf
<1>2. TypeOK /\ FlowInv => ReplyTrue
  BY <1>1 DEF ReplyTrue
<1> QED
  BY <1>2, TypeInit, TypeStep, FlowInit, FlowStep, PTL DEF Spec

\* What is written is what was asked for, by the one who asked.
THEOREM GatewayAsAsked == Spec => []AsAsked
<1>1. OnlyExplicit /\ OwnIdentity => AsAsked
  BY DEF AsAsked
<1> QED
  BY <1>1, GatewayExplicit, GatewayIdentity, PTL
=============================================================================
