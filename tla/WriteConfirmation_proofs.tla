---------------------- MODULE WriteConfirmation_proofs ----------------------
(***************************************************************************)
(* Proofs about WriteConfirmation, for every number of turns, every set of *)
(* requests and every length of the history: its type invariant, the write *)
(* gates (under any interleaving, store failure and disconnect), and, for  *)
(* turns that follow one another, that no preview licenses two writes,     *)
(* that an armed write is not lost to a turn about something else, and     *)
(* that the session implements WriteLicence.                               *)
(***************************************************************************)
EXTENDS WriteConfirmation, SequenceTheorems, TLAPS

-----------------------------------------------------------------------------
(* What the routing helpers return.                                        *)

LEMMA MessageType ==
  ASSUME NEW m \in Messages
  PROVE  /\ m.kind \in MessageKinds
         /\ m.words \in WordKinds
         /\ m.req \in Requests \cup {None}
         /\ m.kind = "batch" => m.req \in Batches
         /\ m.kind = "single" => m.req \in Singles
  BY DEF Messages, Plain, MessageKinds, WordKinds, Requests

LEMMA SilenceType == Silence \in Messages
  BY DEF Silence, Messages, Plain

LEMMA HistoryType ==
  ASSUME NEW h \in Seq(Exchanges), NEW i \in DOMAIN h
  PROVE  h[i].msg \in Messages
<1>1. h[i] \in Exchanges
  BY ElementOfSeq
<1>2. QED BY <1>1 DEF Exchanges

LEMMA LatestType ==
  ASSUME NEW h \in Seq(Exchanges), NEW m \in Messages
  PROVE  LatestBatch(h) \subseteq Batches /\ LatestSingle(h, m) \subseteq Singles
  BY HistoryType, MessageType DEF LatestBatch, LatestSingle, LatestOf

LEMMA QueryType == \A b \in Bases : QueryProject(b) \in Calls
  BY DEF Calls

LEMMA WriteCallType ==
  ASSUME NEW tool \in WriteTools, NEW r \in Requests, NEW d \in BOOLEAN,
         NEW b \in Bases
  PROVE  Call(tool, r, d, b) \in Calls
  BY DEF Calls, WriteCalls, Call

LEMMA ToolType == \A r \in Requests : ToolOf(r) \in WriteTools
  BY DEF ToolOf, WriteTools

LEMMA ForcedType ==
  ASSUME NEW h \in Seq(Exchanges), NEW p \in PendingWrites \cup {None},
         NEW m \in Messages
  PROVE  ForcedCalls(h, p, m) \subseteq Calls
<1>1. /\ "save_workhour" \in WriteTools
      /\ "batch_save_workhour" \in WriteTools
      /\ "request" \in Bases /\ "history" \in Bases /\ "pending" \in Bases
  BY DEF WriteTools, Bases
<1>2. ConfirmedCalls(h, p, m) \subseteq Calls
  <2>0. CASE p # None /\ p.tool # "approve_workhour"
    <3>1. /\ p.tool \in WriteTools /\ p.req \in Requests /\ (~p.ok) \in BOOLEAN
      BY <2>0 DEF PendingWrites
    <3>2. Call(p.tool, p.req, ~p.ok, "pending") \in Calls
      BY <3>1, <1>1, WriteCallType
    <3>3. ConfirmedCalls(h, p, m) = {Call(p.tool, p.req, ~p.ok, "pending")}
      BY <2>0, Zenon DEF ConfirmedCalls
    <3>4. QED BY <3>2, <3>3, Zenon
  <2>1. CASE ~(p # None /\ p.tool # "approve_workhour")
    <3>1. LastReplyBad(h) \in BOOLEAN
      BY DEF LastReplyBad, Exchanges
    <3>2. QED BY <2>1, <3>1, <1>1, LatestType, WriteCallType DEF ConfirmedCalls, Requests
  <2>3. QED BY <2>1, <2>0
<1>3. UpdatedCalls(h, p, m) \subseteq Calls
  <2>. DEFINE pendingReq == IF p # None THEN {p.req} ELSE LatestSingle(h, m)
              ownReq     == IF m.kind = "single" THEN {m.req} ELSE {}
  <2>1. pendingReq \subseteq Requests
    BY LatestType DEF PendingWrites, Requests
  <2>2. ownReq \subseteq Requests
    BY MessageType DEF Requests
  <2>3. \A r \in Requests : Call("save_workhour", r, TRUE, "request") \in Calls
    BY <1>1, WriteCallType
  <2>4. UpdatedCalls(h, p, m) =
          {Call("save_workhour", r, TRUE, "request") : r \in pendingReq \cup ownReq}
    BY DEF UpdatedCalls
  <2>5. QED BY <2>1, <2>2, <2>3, <2>4, Zenon
<1>4. m.kind = "batch" =>
        Call("batch_save_workhour", m.req, TRUE, "request") \in Calls
  BY <1>1, MessageType, WriteCallType DEF Requests
<1>5. QED BY <1>1, <1>2, <1>3, <1>4, QueryType DEF ForcedCalls

LEMMA MentionedType ==
  ASSUME NEW h \in Seq(Exchanges), NEW m \in Messages
  PROVE  Mentioned(h, m) \subseteq Requests
  BY HistoryType, MessageType DEF Mentioned

LEMMA ModelType ==
  ASSUME NEW h \in Seq(Exchanges), NEW m \in Messages
  PROVE  ModelCalls(h, m) \subseteq Calls
<1>1. "model" \in Bases /\ TRUE \in BOOLEAN /\ FALSE \in BOOLEAN
  BY DEF Bases
<1>2. \A r \in Mentioned(h, m) : /\ Call(ToolOf(r), r, FALSE, "model") \in Calls
                                 /\ Call(ToolOf(r), r, TRUE, "model") \in Calls
  BY <1>1, MentionedType, ToolType, WriteCallType
<1>3. QED BY <1>1, <1>2, QueryType DEF ModelCalls

LEMMA EnforcedType ==
  ASSUME NEW c \in Calls, NEW m
  PROVE  /\ Enforced(c, m) \in Calls
         /\ Enforced(c, m).basis = c.basis
         /\ Enforced(c, m).req = c.req
         /\ Enforced(c, m).tool = c.tool
  BY DEF Enforced, Calls, WriteCalls, QueryProject, Call

LEMMA CallFields ==
  ASSUME NEW c \in Calls, c.tool \in WriteTools
  PROVE  c \in WriteCalls
  BY DEF Calls, WriteCalls, WriteTools, QueryProject, Call

LEMMA TrimmedType ==
  ASSUME NEW h \in Seq(Exchanges), NEW e \in Exchanges, Len(h) <= MaxHistory
  PROVE  /\ Trimmed(Append(h, e)) \in Seq(Exchanges)
         /\ Len(Trimmed(Append(h, e))) <= MaxHistory
  BY HistoryAssumption DEF Trimmed
-----------------------------------------------------------------------------
(* Type correctness.                                                       *)

LEMMA DecideType ==
  ASSUME TypeOK, NEW t \in Turns, NEW r \in Routes, NEW cs \in SUBSET Calls,
         Decide(t, r, cs)
  PROVE  TypeOK'
<1>. USE DEF TypeOK, Decide, ghostVars
<1>1. pc' \in [Turns -> PCs]
  BY DEF PCs
<1>2. out' \in [Turns -> Outcomes]
  BY DEF Outcomes
<1>3. QED BY <1>1, <1>2

LEMMA DispatchType ==
  ASSUME TypeOK, NEW t \in Turns, NEW cs \in SUBSET Calls, Dispatch(t, cs)
  PROVE  TypeOK'
<1>1. {"clarify", "direct", "plan", "planner"} \subseteq Routes
  BY DEF Routes
<1>2. {QueryProject("request")} \in SUBSET Calls
  BY QueryType DEF Bases
<1>3. \E r \in Routes, ds \in SUBSET Calls : Decide(t, r, ds)
  BY <1>1, <1>2 DEF Dispatch
<1>4. QED BY <1>3, DecideType

LEMMA SendType ==
  ASSUME TypeOK, NEW t \in Turns, NEW cs \in SUBSET Calls,
         NEW landed \in SUBSET RealWrites(cs), NEW sure \in BOOLEAN,
         Send(t, cs, landed, sure)
  PROVE  spent' \in [Requests -> Nat] /\ writes' \subseteq Writes
<1>1. spent' \in [Requests -> Nat]
  BY DEF Send, TypeOK
<1>2. ASSUME NEW c \in landed
      PROVE  [turn |-> t, call |-> c, kind |-> msg[t].kind, words |-> msg[t].words,
              cold |-> hist[t] = <<>>, sure |-> sure, ask |-> asked[c.req]] \in Writes
  <2>1. c \in WriteCalls
    BY <1>2, CallFields DEF RealWrites
  <2>2. asked[c.req] \in Nat
    BY <2>1 DEF TypeOK, WriteCalls
  <2>3. msg[t].kind \in MessageKinds /\ msg[t].words \in WordKinds
    BY MessageType DEF TypeOK
  <2>4. QED BY <2>1, <2>2, <2>3 DEF Writes
<1>3. QED BY <1>1, <1>2 DEF Send, TypeOK

LEMMA LeaveType ==
  ASSUME TypeOK, NEW t \in Turns, Leave(t)
  PROVE  /\ pc' \in [Turns -> PCs]
         /\ msg' \in [Turns -> Messages]
         /\ hist' \in [Turns -> Seq(Exchanges)]
         /\ biz' \in [Turns -> PendingWrites \cup {None}]
         /\ route' \in [Turns -> Routes]
         /\ calls' \in [Turns -> SUBSET Calls]
         /\ out' \in [Turns -> Outcomes]
         /\ copy' \in [Turns -> Sessions]
<1>1. pc' \in [Turns -> PCs]
  BY DEF TypeOK, Leave, PCs
<1>2. msg' \in [Turns -> Messages]
  BY SilenceType DEF TypeOK, Leave
<1>3. /\ hist' \in [Turns -> Seq(Exchanges)]
      /\ biz' \in [Turns -> PendingWrites \cup {None}]
      /\ calls' \in [Turns -> SUBSET Calls]
  BY DEF TypeOK, Leave
<1>4. route' \in [Turns -> Routes] /\ out' \in [Turns -> Outcomes]
  BY DEF TypeOK, Leave, Routes, Outcomes
<1>5. NoSession \in Sessions
  BY HistoryAssumption DEF NoSession, Sessions
<1>6. copy' \in [Turns -> Sessions]
  BY <1>5 DEF TypeOK, Leave
<1>7. QED BY <1>1, <1>2, <1>3, <1>4, <1>6

LEMMA LoadedType ==
  ASSUME TypeOK
  PROVE  Loaded \subseteq Sessions
<1>1. NoSession \in Sessions
  BY HistoryAssumption DEF NoSession, Sessions
<1>2. QED BY <1>1 DEF Loaded, TypeOK

LEMMA PendingType ==
  ASSUME TypeOK, NEW t \in Turns, NEW p \in NextPending(t)
  PROVE  p \in PendingWrites \cup {None}
<1>1. CASE RoundWrites(t) # {}
  <2>1. PICK c \in RoundWrites(t) : p = PendingAfter(t, c)
    BY <1>1 DEF NextPending
  <2>2. c \in WriteCalls
    BY CallFields DEF RoundWrites, RoundCalls, TypeOK
  <2>3. c.tool \in WriteTools /\ c.req \in Requests /\ c.dry \in BOOLEAN
    BY <2>2 DEF WriteCalls
  <2>4. QED BY <2>1, <2>3 DEF PendingAfter, PendingWrites
<1>2. CASE RoundWrites(t) = {}
  BY <1>2 DEF NextPending, TypeOK
<1>3. QED BY <1>1, <1>2

LEMMA PreviewType ==
  ASSUME NEW cs \in SUBSET Calls
  PROVE  {c.req : c \in {d \in cs : d.dry}} \subseteq Requests
  BY DEF Calls, WriteCalls, QueryProject, Call

LEMMA PlannerType ==
  ASSUME NEW m \in Messages
  PROVE  PlannerCalls(m) \subseteq Calls
<1>1. m.req # None => m.req \in Requests
  BY MessageType
<1>2. m.req # None =>
        \A d \in BOOLEAN : Call(ToolOf(m.req), m.req, d, "planner") \in Calls
  BY <1>1, ToolType, WriteCallType DEF Bases
<1>3. QED BY <1>2 DEF PlannerCalls

LEMMA PlannedType ==
  ASSUME TypeOK, NEW t \in Turns
  PROVE  PlannedCalls(t) \subseteq SUBSET Calls
<1>1. PlannerCalls(msg[t]) \subseteq Calls
  BY PlannerType DEF TypeOK
<1>2. calls[t] \in SUBSET Calls
  BY DEF TypeOK
<1>3. QED BY <1>1, <1>2, Zenon DEF PlannedCalls

LEMMA InFlightType ==
  ASSUME TypeOK, NEW t \in Turns
  PROVE  InFlight(t) \subseteq SUBSET Calls
<1>1. PlannerCalls(msg[t]) \subseteq Calls
  BY PlannerType DEF TypeOK
<1>2. calls[t] \in SUBSET Calls
  BY DEF TypeOK
<1>3. QED BY <1>1, <1>2, Zenon DEF InFlight

LEMMA StepType ==
  ASSUME TypeOK, NEW t \in Turns, Step(t)
  PROVE  TypeOK'
<1>1. CASE Begin(t)
  <2>1. asked' \in [Requests -> Nat]
    BY <1>1 DEF Begin, TypeOK
  <2>2. pc' \in [Turns -> PCs]
    BY <1>1 DEF Begin, TypeOK, PCs
  <2>3. hist' \in [Turns -> Seq(Exchanges)]
    BY <1>1, LoadedType DEF Begin, TypeOK, Sessions
  <2>4. QED BY <1>1, <2>1, <2>2, <2>3 DEF Begin, TypeOK
<1>2. CASE LoadBusiness(t)
  <2>1. pc' \in [Turns -> PCs]
    BY <1>2 DEF LoadBusiness, TypeOK, PCs
  <2>2. biz' \in [Turns -> PendingWrites \cup {None}]
    BY <1>2, LoadedType DEF LoadBusiness, TypeOK, Sessions
  <2>3. QED BY <1>2, <2>1, <2>2 DEF LoadBusiness, TypeOK, ghostVars
<1>3. CASE RouteForced(t)
  <2>. hist[t] \in Seq(Exchanges) /\ biz[t] \in PendingWrites \cup {None} /\ msg[t] \in Messages
    BY DEF TypeOK
  <2>1. CASE Decide(t, "text", {})
    BY <2>1, DecideType DEF Routes
  <2>2. CASE \E c \in ForcedCalls(hist[t], biz[t], msg[t]) :
                Dispatch(t, {Enforced(c, msg[t])})
    <3>1. PICK c \in ForcedCalls(hist[t], biz[t], msg[t]) :
                Dispatch(t, {Enforced(c, msg[t])})
      BY <2>2
    <3>2. Enforced(c, msg[t]) \in Calls
      BY ForcedType, EnforcedType
    <3>3. QED BY <3>1, <3>2, DispatchType
  <2>3. QED BY <1>3, <2>1, <2>2 DEF RouteForced
<1>4. CASE RouteModel(t)
  <2>. hist[t] \in Seq(Exchanges) /\ msg[t] \in Messages
    BY DEF TypeOK
  <2>1. CASE Decide(t, "text", {})
    BY <2>1, DecideType DEF Routes
  <2>2. ASSUME NEW c \in ModelCalls(hist[t], msg[t]), NEW d \in ModelCalls(hist[t], msg[t]),
               Dispatch(t, {Enforced(c, msg[t]), Enforced(d, msg[t])})
        PROVE  TypeOK'
    <3>1. Enforced(c, msg[t]) \in Calls /\ Enforced(d, msg[t]) \in Calls
      BY ModelType, EnforcedType
    <3>2. QED BY <2>2, <3>1, DispatchType
  <2>3. QED BY <1>4, <2>1, <2>2 DEF RouteModel
<1>5. CASE RouteClassifier(t)
  <2>1. {"text", "planner", "direct", "clarify"} \subseteq Routes
    BY DEF Routes
  <2>2. {QueryProject("classifier")} \in SUBSET Calls
    BY QueryType DEF Bases
  <2>3. \A r \in Singles : {Call("save_workhour", r, FALSE, "classifier")} \in SUBSET Calls
    BY WriteCallType DEF WriteTools, Bases, Requests
  <2>4. \E r \in Routes, ds \in SUBSET Calls : Decide(t, r, ds)
    BY <1>5, <2>1, <2>2, <2>3 DEF RouteClassifier
  <2>5. QED BY <2>4, DecideType
<1>6. CASE ExecuteTool(t)
  <2>1. pc' \in [Turns -> PCs] /\ out' \in [Turns -> Outcomes]
    BY <1>6 DEF ExecuteTool, TypeOK, PCs, Outcomes
  <2>2. calls[t] \in SUBSET Calls
    BY DEF TypeOK
  <2>3. spent' \in [Requests -> Nat] /\ writes' \subseteq Writes
    <3>1. PICK o \in {"ok", "fail", "unknown"} :
            Send(t, calls[t], IF o = "fail" THEN {} ELSE RealWrites(calls[t]), o = "ok")
      BY <1>6 DEF ExecuteTool
    <3>2. (IF o = "fail" THEN {} ELSE RealWrites(calls[t])) \in SUBSET RealWrites(calls[t])
      OBVIOUS
    <3>3. (o = "ok") \in BOOLEAN
      OBVIOUS
    <3>4. QED BY <2>2, <3>1, <3>2, <3>3, SendType
  <2>4. previewed' \subseteq Requests
    BY <1>6, <2>2, PreviewType DEF ExecuteTool, TypeOK
  <2>5. QED BY <1>6, <2>1, <2>3, <2>4 DEF ExecuteTool, TypeOK
<1>7. CASE ExecutePlan(t)
  <2>1. pc' \in [Turns -> PCs] /\ out' \in [Turns -> Outcomes]
    BY <1>7 DEF ExecutePlan, TypeOK, PCs, Outcomes
  <2>2. PlannedCalls(t) \subseteq SUBSET Calls
    BY PlannedType
  <2>3. /\ spent' \in [Requests -> Nat]
        /\ writes' \subseteq Writes
        /\ previewed' \subseteq Requests
    <3>1. CASE UNCHANGED <<spent, writes, previewed>>
      BY <3>1 DEF TypeOK
    <3>2. ASSUME NEW cs \in PlannedCalls(t), NEW done \in SUBSET cs,
                 Send(t, cs, RealWrites(done), FALSE),
                 previewed' = previewed \cup {c.req : c \in {d \in done : d.dry}}
          PROVE  /\ spent' \in [Requests -> Nat]
                 /\ writes' \subseteq Writes
                 /\ previewed' \subseteq Requests
      <4>1. RealWrites(done) \in SUBSET RealWrites(cs)
        BY DEF RealWrites
      <4>2. cs \in SUBSET Calls /\ done \in SUBSET Calls
        BY <2>2
      <4>3. QED BY <3>2, <4>1, <4>2, SendType, PreviewType DEF TypeOK
    <3>3. QED BY <1>7, <3>1, <3>2 DEF ExecutePlan
  <2>4. QED BY <1>7, <2>1, <2>3 DEF ExecutePlan, TypeOK
<1>8. CASE UpdateLoad(t)
  BY <1>8, LoadedType DEF UpdateLoad, TypeOK, PCs, ghostVars
<1>9. CASE UpdateStore(t)
  <2>1. session' \in Sessions
    <3>1. CASE UNCHANGED session
      BY <3>1 DEF TypeOK
    <3>2. ASSUME NEW p \in NextPending(t),
                 session' = [messages |-> copy[t].messages, pending |-> p]
          PROVE  session' \in Sessions
      BY <3>2, PendingType DEF TypeOK, Sessions
    <3>3. QED BY <1>9, <3>1, <3>2 DEF UpdateStore
  <2>2. arms' \in [Requests -> Nat]
    BY <1>9 DEF UpdateStore, TypeOK
  <2>3. CASE Continue(t, "append")
    BY <1>9, <2>1, <2>2, <2>3 DEF UpdateStore, Continue, TypeOK, PCs
  <2>4. CASE Leave(t)
    BY <1>9, <2>1, <2>2, <2>4, LeaveType DEF UpdateStore, TypeOK
  <2>5. QED BY <1>9, <2>3, <2>4 DEF UpdateStore
<1>10. CASE AppendLoad(t)
  BY <1>10, LoadedType DEF AppendLoad, TypeOK, PCs, ghostVars
<1>11. CASE AppendStore(t)
  <2>1. session' \in Sessions
    <3>1. CASE UNCHANGED session
      BY <3>1 DEF TypeOK
    <3>2. ASSUME NEW bad \in BOOLEAN,
                 session' = [messages |-> Trimmed(Append(copy[t].messages,
                                                         [msg |-> msg[t], bad |-> bad])),
                             pending |-> copy[t].pending]
          PROVE  session' \in Sessions
      <4>1. /\ copy[t].messages \in Seq(Exchanges)
            /\ Len(copy[t].messages) <= MaxHistory
            /\ copy[t].pending \in PendingWrites \cup {None}
        BY DEF TypeOK, Sessions
      <4>2. [msg |-> msg[t], bad |-> bad] \in Exchanges
        BY DEF TypeOK, Exchanges
      <4>3. QED BY <3>2, <4>1, <4>2, TrimmedType DEF Sessions
    <3>3. QED BY <1>11, <3>1, <3>2 DEF AppendStore
  <2>2. QED BY <1>11, <2>1, LeaveType DEF AppendStore, TypeOK, ghostVars
<1>12. CASE CutShort(t)
  <2>1. pc' \in [Turns -> PCs] /\ out' \in [Turns -> Outcomes]
    BY <1>12 DEF CutShort, TypeOK, PCs, Outcomes
  <2>2. PICK cs \in InFlight(t) :
               \E l \in SUBSET RealWrites(cs) : Send(t, l, l, FALSE)
    BY <1>12 DEF CutShort
  <2>3. cs \in SUBSET Calls
    BY InFlightType
  <2>. PICK landed \in SUBSET RealWrites(cs) : Send(t, landed, landed, FALSE)
    BY <2>2
  <2>4. landed \in SUBSET Calls /\ landed \in SUBSET RealWrites(landed)
    BY <2>3 DEF RealWrites
  <2>5. spent' \in [Requests -> Nat] /\ writes' \subseteq Writes
    BY <2>4, SendType
  <2>6. QED BY <1>12, <2>1, <2>5 DEF CutShort, TypeOK
<1>13. CASE Abandon(t)
  BY <1>13, LeaveType DEF Abandon, TypeOK, ghostVars
<1>14. QED BY <1>1, <1>2, <1>3, <1>4, <1>5, <1>6, <1>7, <1>8, <1>9, <1>10,
             <1>11, <1>12, <1>13 DEF Step

\* Every variable keeps its type, and the stored history stays within
\* MaxHistory exchanges (add_messages trims it on every append), for every
\* interleaving, store failure and disconnect the constants allow.
THEOREM ConfirmationTypeOK == Spec => []TypeOK
<1>1. Init => TypeOK
  <2>. SUFFICES ASSUME Init PROVE TypeOK
    OBVIOUS
  <2>1. NoSession \in Sessions
    BY HistoryAssumption DEF NoSession, Sessions
  <2>2. QED BY <2>1, SilenceType DEF Init, TypeOK, PCs, Routes, Outcomes
<1>2. TypeOK /\ [Next]_vars => TypeOK'
  <2>. SUFFICES ASSUME TypeOK, [Next]_vars PROVE TypeOK'
    OBVIOUS
  <2>1. CASE Expire
    <3>1. NoSession \in Sessions
      BY HistoryAssumption DEF NoSession, Sessions
    <3>2. QED BY <2>1, <3>1 DEF Expire, TypeOK, turnVars, ghostVars
  <2>2. CASE UNCHANGED vars
    BY <2>2 DEF TypeOK, vars, turnVars, ghostVars
  <2>3. QED BY <2>1, <2>2, StepType DEF Next
<1>3. QED BY <1>1, <1>2, PTL DEF Spec

-----------------------------------------------------------------------------
(* The write gates.  They hold under every interleaving, because a turn's  *)
(* calls are checked against its own message and history when it routes,   *)
(* and neither changes before the calls are sent.                          *)

\* What the checks of routing leave of a call c in a turn.
Gated(h, m, c) ==
    /\ c.tool = "batch_save_workhour" /\ ~c.dry => m.kind = "confirm"
    /\ c.tool = "save_workhour" /\ h = <<>> => m.words = "preview"
    /\ ~Fallback => m.kind # "cancel"

GateInv ==
    /\ \A t \in Turns : pc[t] = "execute" =>
          \A c \in calls[t] : Gated(hist[t], msg[t], c)
    /\ \A w \in writes :
          /\ w.call.tool = "batch_save_workhour" => w.kind = "confirm"
          /\ w.call.tool = "save_workhour" /\ w.cold => w.words = "preview"
          /\ ~Fallback => w.kind # "cancel"

\* The new calls of t pass the gate if t goes on to a tool node.
LEMMA DecideGate ==
  ASSUME TypeOK, GateInv, NEW t \in Turns, NEW r \in Routes, NEW cs \in SUBSET Calls,
         Decide(t, r, cs), \A c \in cs : r # "clarify" => Gated(hist[t], msg[t], c)
  PROVE  GateInv'
<1>1. ASSUME NEW u \in Turns, pc'[u] = "execute"
      PROVE  \A c \in calls'[u] : Gated(hist'[u], msg'[u], c)
  <2>1. hist' = hist /\ msg' = msg
    BY DEF Decide
  <2>2. CASE u = t
    <3>1. r # "clarify" /\ calls'[t] = cs
      BY <1>1, <2>2 DEF Decide, TypeOK
    <3>2. QED BY <2>1, <2>2, <3>1
  <2>3. CASE u # t
    <3>1. pc[u] = "execute" /\ calls'[u] = calls[u]
      BY <1>1, <2>3 DEF Decide, TypeOK
    <3>2. QED BY <2>1, <3>1 DEF GateInv
  <2>4. QED BY <2>2, <2>3
<1>2. writes' = writes
  BY DEF Decide, ghostVars
<1>3. QED BY <1>1, <1>2 DEF GateInv

LEMMA DispatchGate ==
  ASSUME TypeOK, GateInv, NEW t \in Turns, NEW cs \in SUBSET Calls, Dispatch(t, cs),
         ~Cancels(msg[t]),
         \A c \in cs : c.tool = "batch_save_workhour" /\ ~c.dry => IsConfirmation(msg[t]),
         \A c \in cs : c.tool = "save_workhour" => msg[t].kind # "batch"
  PROVE  GateInv'
<1>1. {"clarify", "direct", "plan", "planner"} \subseteq Routes
  BY DEF Routes
<1>2. ASSUME NEW c \in cs, ~NeedsClarification(hist[t], msg[t], c)
      PROVE  Gated(hist[t], msg[t], c)
  BY <1>2 DEF Gated, NeedsClarification, SaveRefused, HasPreviewWord, IsConfirmation, Cancels
<1>3. Gated(hist[t], msg[t], QueryProject("request"))
  BY DEF Gated, QueryProject, Call, Cancels
<1>4. QueryProject("request") \in Calls
  BY QueryType DEF Bases
<1>5. CASE \E c \in cs : Decide(t, "clarify", {c})
  BY <1>1, <1>5, DecideGate
<1>6. CASE Decide(t, "direct", {QueryProject("request")})
  BY <1>1, <1>3, <1>4, <1>6, DecideGate
<1>7. CASE Decide(t, "planner", {})
  BY <1>1, <1>7, DecideGate
<1>8. CASE /\ \A c \in cs : ~NeedsClarification(hist[t], msg[t], c)
           /\ Decide(t, IF Several(cs) THEN "plan" ELSE "direct", cs)
  BY <1>1, <1>2, <1>8, DecideGate
<1>9. QED BY <1>5, <1>6, <1>7, <1>8 DEF Dispatch

\* Handing calls to their tools records only writes that pass the gate.
LEMMA SendGate ==
  ASSUME TypeOK, GateInv, NEW t \in Turns, NEW cs,
         NEW landed \in SUBSET Calls, NEW sure,
         Send(t, cs, landed, sure),
         \A c \in landed : ~c.dry /\ Gated(hist[t], msg[t], c)
  PROVE  \A w \in writes' :
            /\ w.call.tool = "batch_save_workhour" => w.kind = "confirm"
            /\ w.call.tool = "save_workhour" /\ w.cold => w.words = "preview"
            /\ ~Fallback => w.kind # "cancel"
<1>. SUFFICES ASSUME NEW w \in writes'
              PROVE  /\ w.call.tool = "batch_save_workhour" => w.kind = "confirm"
                     /\ w.call.tool = "save_workhour" /\ w.cold => w.words = "preview"
                     /\ ~Fallback => w.kind # "cancel"
  OBVIOUS
<1>1. CASE w \in writes
  BY <1>1 DEF GateInv
<1>2. ASSUME NEW c \in landed,
             w = [turn |-> t, call |-> c, kind |-> msg[t].kind, words |-> msg[t].words,
                  cold |-> hist[t] = <<>>, sure |-> sure, ask |-> asked[c.req]]
      PROVE  /\ w.call.tool = "batch_save_workhour" => w.kind = "confirm"
             /\ w.call.tool = "save_workhour" /\ w.cold => w.words = "preview"
             /\ ~Fallback => w.kind # "cancel"
  <2>1. /\ w.call = c /\ w.kind = msg[t].kind /\ w.words = msg[t].words
        /\ w.cold = (hist[t] = <<>>)
    BY <1>2
  <2>2. ~c.dry /\ Gated(hist[t], msg[t], c)
    OBVIOUS
  <2>3. QED BY <2>1, <2>2 DEF Gated
<1>3. QED BY <1>1, <1>2 DEF Send

LEMMA EnforcedGate ==
  ASSUME NEW c \in Calls, NEW m
  PROVE  Enforced(c, m).tool = "batch_save_workhour" /\ ~Enforced(c, m).dry
           => IsConfirmation(m)
  BY DEF Enforced, Call

LEMMA StepGate ==
  ASSUME ~PlannerWrites, TypeOK, GateInv, NEW t \in Turns, Step(t)
  PROVE  GateInv'
<1>. USE DEF turnVars, ghostVars
<1>. DEFINE h == hist[t]
            m == msg[t]
            Safe == \A w \in writes' :
                      /\ w.call.tool = "batch_save_workhour" => w.kind = "confirm"
                      /\ w.call.tool = "save_workhour" /\ w.cold => w.words = "preview"
                      /\ ~Fallback => w.kind # "cancel"
<1>. h \in Seq(Exchanges) /\ m \in Messages /\ calls[t] \in SUBSET Calls
  BY DEF TypeOK
<1>0. ASSUME Safe,
             \A u \in Turns \ {t} : /\ pc'[u] = pc[u] /\ calls'[u] = calls[u]
                                    /\ hist'[u] = hist[u] /\ msg'[u] = msg[u],
             pc'[t] # "execute"
      PROVE  GateInv'
  BY <1>0 DEF GateInv
<1>1. CASE Begin(t)
  BY <1>0, <1>1 DEF Begin, TypeOK, GateInv
<1>2. CASE LoadBusiness(t)
  BY <1>0, <1>2 DEF LoadBusiness, TypeOK, GateInv
<1>3. CASE RouteForced(t)
  <2>1. CASE Decide(t, "text", {})
    BY <2>1, DecideGate DEF Routes
  <2>2. CASE ~Cancels(m) /\ \E c \in ForcedCalls(h, biz[t], m) : Dispatch(t, {Enforced(c, m)})
    <3>1. PICK c \in ForcedCalls(h, biz[t], m) : Dispatch(t, {Enforced(c, m)})
      BY <2>2
    <3>2. c \in Calls
      BY ForcedType DEF TypeOK
    <3>3. Enforced(c, m) \in Calls /\ Enforced(c, m).tool = c.tool
      BY <3>2, EnforcedType
    <3>4. c.tool = "save_workhour" => m.kind # "batch"
      BY DEF ForcedCalls, Call
    <3>5. QED BY <2>2, <3>1, <3>2, <3>3, <3>4, EnforcedGate, DispatchGate
  <2>3. QED BY <1>3, <2>1, <2>2 DEF RouteForced
<1>4. CASE RouteModel(t)
  <2>1. CASE Decide(t, "text", {})
    BY <2>1, DecideGate DEF Routes
  <2>2. ASSUME NEW c \in ModelCalls(h, m), NEW d \in ModelCalls(h, m),
               Dispatch(t, {Enforced(c, m), Enforced(d, m)})
        PROVE  GateInv'
    <3>1. c \in Calls /\ d \in Calls
      BY ModelType
    <3>2. Enforced(c, m) \in Calls /\ Enforced(d, m) \in Calls
      BY <3>1, EnforcedType
    <3>3. m.kind # "batch" /\ ~Cancels(m)
      BY <1>4 DEF RouteModel, ForcedCalls
    <3>4. QED BY <2>2, <3>1, <3>2, <3>3, EnforcedGate, DispatchGate
  <2>3. QED BY <1>4, <2>1, <2>2 DEF RouteModel
<1>5. CASE RouteClassifier(t)
  <2>1. {"text", "planner", "direct", "clarify"} \subseteq Routes
    BY DEF Routes
  <2>2. CASE Decide(t, "text", {}) \/ Decide(t, "planner", {})
    BY <2>1, <2>2, DecideGate
  <2>3. ASSUME NEW r \in Mentioned(h, m) \cap Singles
        PROVE  LET c == Call("save_workhour", r, FALSE, "classifier")
               IN  (IF VerifiesProject(h, m, c)
                    THEN Decide(t, "direct", {QueryProject("classifier")})
                    ELSE Decide(t, IF NeedsClarification(h, m, c)
                                   THEN "clarify" ELSE "direct", {c})) => GateInv'
    <3>. DEFINE c == Call("save_workhour", r, FALSE, "classifier")
    <3>1. c \in Calls
      BY WriteCallType DEF WriteTools, Bases, Requests
    <3>2. QueryProject("classifier") \in Calls
      BY QueryType DEF Bases
    <3>3. Fallback
      BY <1>5 DEF RouteClassifier
    <3>4. Gated(h, m, QueryProject("classifier"))
      BY <3>3 DEF Gated, QueryProject, Call
    <3>5. h = <<>> => m.kind # "batch"
      BY <2>3, MessageType, RequestsAssumption DEF Mentioned
    <3>6. ~NeedsClarification(h, m, c) => Gated(h, m, c)
      BY <3>3, <3>5 DEF Gated, NeedsClarification, SaveRefused, HasPreviewWord, Call
    <3>. HIDE DEF c
    <3>7. Decide(t, "direct", {QueryProject("classifier")}) => GateInv'
      BY <2>1, <3>2, <3>4, DecideGate
    <3>8. Decide(t, "clarify", {c}) => GateInv'
      BY <2>1, <3>1, DecideGate
    <3>9. ~NeedsClarification(h, m, c) /\ Decide(t, "direct", {c}) => GateInv'
      BY <2>1, <3>1, <3>6, DecideGate
    <3>10. QED BY <3>7, <3>8, <3>9 DEF c
  <2>4. QED BY <1>5, <2>2, <2>3 DEF RouteClassifier
<1>6. CASE ExecuteTool(t)
  <2>1. PICK o \in {"ok", "fail", "unknown"} :
            Send(t, calls[t], IF o = "fail" THEN {} ELSE RealWrites(calls[t]), o = "ok")
    BY <1>6 DEF ExecuteTool
  <2>. DEFINE landed == IF o = "fail" THEN {} ELSE RealWrites(calls[t])
  <2>2. landed \in SUBSET Calls /\ \A c \in landed : ~c.dry /\ c \in calls[t]
    BY DEF RealWrites
  <2>3. \A c \in landed : ~c.dry /\ Gated(h, m, c)
    BY <1>6, <2>2 DEF ExecuteTool, GateInv
  <2>4. Safe
    BY <2>1, <2>2, <2>3, SendGate
  <2>5. QED BY <1>0, <1>6, <2>4 DEF ExecuteTool, TypeOK
<1>7. CASE ExecutePlan(t)
  <2>1. CASE UNCHANGED <<spent, writes, previewed>>
    BY <1>0, <1>7, <2>1 DEF ExecutePlan, TypeOK, GateInv
  <2>2. ASSUME NEW cs \in PlannedCalls(t), NEW done \in SUBSET cs,
               Send(t, cs, RealWrites(done), FALSE)
        PROVE  GateInv'
    <3>1. cs \subseteq calls[t]
      <4>1. PlannerCalls(m) = {}
        BY DEF PlannerCalls
      <4>2. QED BY <4>1 DEF PlannedCalls
    <3>2. RealWrites(done) \in SUBSET Calls /\ \A c \in RealWrites(done) : ~c.dry /\ c \in calls[t]
      BY <3>1 DEF RealWrites
    <3>3. \A c \in RealWrites(done) : ~c.dry /\ Gated(h, m, c)
      BY <1>7, <3>2 DEF ExecutePlan, GateInv
    <3>4. Safe
      BY <2>2, <3>2, <3>3, SendGate
    <3>5. QED BY <1>0, <1>7, <3>4 DEF ExecutePlan, TypeOK
  <2>3. QED BY <1>7, <2>1, <2>2 DEF ExecutePlan
<1>8. CASE UpdateLoad(t)
  BY <1>0, <1>8 DEF UpdateLoad, TypeOK, GateInv
<1>9. CASE UpdateStore(t)
  BY <1>0, <1>9 DEF UpdateStore, Continue, Leave, TypeOK, GateInv
<1>10. CASE AppendLoad(t)
  BY <1>0, <1>10 DEF AppendLoad, TypeOK, GateInv
<1>11. CASE AppendStore(t)
  BY <1>0, <1>11 DEF AppendStore, Leave, TypeOK, GateInv
<1>12. CASE CutShort(t)
  <2>1. PICK cs \in InFlight(t) : \E l \in SUBSET RealWrites(cs) : Send(t, l, l, FALSE)
    BY <1>12 DEF CutShort
  <2>. PICK landed \in SUBSET RealWrites(cs) : Send(t, landed, landed, FALSE)
    BY <2>1
  <2>2. PlannerCalls(m) = {}
    BY DEF PlannerCalls
  <2>3. cs # {} => pc[t] = "execute" /\ cs \subseteq calls[t]
    BY <2>2 DEF InFlight
  <2>4. landed \in SUBSET Calls /\ \A c \in landed : ~c.dry /\ c \in calls[t] /\ pc[t] = "execute"
    BY <2>3 DEF RealWrites
  <2>5. \A c \in landed : ~c.dry /\ Gated(h, m, c)
    BY <2>4 DEF GateInv
  <2>6. Safe
    BY <2>4, <2>5, SendGate
  <2>7. QED BY <1>0, <1>12, <2>6 DEF CutShort, TypeOK
<1>13. CASE Abandon(t)
  BY <1>0, <1>13 DEF Abandon, Leave, TypeOK, GateInv
<1>. HIDE DEF h, m, Safe
<1>14. QED BY <1>1, <1>2, <1>3, <1>4, <1>5, <1>6, <1>7, <1>8, <1>9, <1>10,
             <1>11, <1>12, <1>13 DEF Step

THEOREM GateInvariant ==
  ASSUME ~PlannerWrites
  PROVE  Spec => []GateInv
<1>1. Init => GateInv
  BY DEF Init, GateInv
<1>2. TypeOK /\ GateInv /\ [Next]_vars => GateInv'
  <2>. SUFFICES ASSUME TypeOK, GateInv, [Next]_vars PROVE GateInv'
    OBVIOUS
  <2>1. CASE Expire
    BY <2>1 DEF Expire, GateInv, turnVars, ghostVars
  <2>2. CASE UNCHANGED vars
    BY <2>2 DEF GateInv, vars, turnVars, ghostVars
  <2>3. QED BY <2>1, <2>2, StepGate DEF Next
<1>3. QED BY <1>1, <1>2, ConfirmationTypeOK, PTL DEF Spec

\* Whatever the interleaving, the failures of the store and the disconnects of
\* the clients: while the planner's LLM plans no write tool, a batch is only
\* written by a turn whose message confirms (_enforce_write_confirmation).
THEOREM BatchWriteGate ==
  ASSUME ~PlannerWrites
  PROVE  Spec => []BatchWriteOnlyOnConfirmation
<1>1. GateInv => BatchWriteOnlyOnConfirmation
  BY DEF GateInv, BatchWriteOnlyOnConfirmation
<1>2. QED BY <1>1, GateInvariant, PTL

\* Likewise, a turn without history writes a single record only for a message
\* with a preview word (the hard gate of _tool_call_clarification).
THEOREM ColdSaveGate ==
  ASSUME ~PlannerWrites
  PROVE  Spec => []ColdSaveRefused
<1>1. GateInv => ColdSaveRefused
  BY DEF GateInv, ColdSaveRefused
<1>2. QED BY <1>1, GateInvariant, PTL

\* If moreover function calling does not fail over to the classifier, a turn
\* whose message cancels never writes (the first branch of
\* _forced_tool_calls_for_request).
THEOREM CancelGate ==
  ASSUME ~PlannerWrites, ~Fallback
  PROVE  Spec => []CancelNeverWrites
<1>1. GateInv => CancelNeverWrites
  BY DEF GateInv, CancelNeverWrites
<1>2. QED BY <1>1, GateInvariant, PTL

-----------------------------------------------------------------------------
(* When the turns of a session follow one another and neither the store    *)
(* nor the client drops out, the session implements WriteLicence.          *)

Orderly == ~Overlap /\ ~StoreFails /\ ~Disconnects

\* At most one turn is running.
Sequential == \A t, u \in Turns : Active(t) /\ Active(u) => t = u

\* What a running turn has read of the session is still what is stored.
Fresh(t) ==
    /\ pc[t] \in {"route", "execute", "update", "store"} => biz[t] = session.pending
    /\ pc[t] \in {"store", "storeHistory"} => copy[t] = session

\* Outside a plan a turn has at most one call.
OneCall(t) ==
    pc[t] \in {"execute", "update", "store"} /\ route[t] # "plan" =>
        \A c, d \in calls[t] : c = d

PendingCall(c) == c.basis = "pending" /\ ~c.dry

\* A turn about to write, or having written, on the strength of a preview does
\* so for the armed pending write, outside any plan.
Resting(t) ==
    pc[t] \in {"execute", "update", "store"} =>
        \A c \in calls[t] : PendingCall(c) =>
            /\ route[t] \in {"direct", "clarify"}
            /\ Armed(session.pending)
            /\ session.pending.req = c.req

TurnInv == \A t \in Turns : Fresh(t) /\ OneCall(t) /\ Resting(t)

\* A confirmation may still write r: it is armed and not yet tried.
Licensed(r) ==
    /\ Armed(session.pending)
    /\ session.pending.req = r
    /\ \A t \in Turns : ~Tried(t)

\* The counters, as in LicenceOutstanding of WriteLicence.
Outstanding ==
    \A r \in Requests : spent[r] <= arms[r] /\ (Licensed(r) => spent[r] < arms[r])

OrderlyInv == Sequential /\ TurnInv /\ Outstanding

-----------------------------------------------------------------------------
(* A step of one turn finds every other turn at rest.                      *)

Rest(t) == pc[t] \in {"idle", "done"}

LEMMA MoverAlone ==
  ASSUME ~Overlap, TypeOK, Sequential, NEW t \in Turns, Step(t)
  PROVE  \A u \in Turns \ {t} : Rest(u) /\ Rest(u)' /\ ~Tried(u) /\ ~Tried(u)'
<1>1. \A u \in Turns \ {t} : Rest(u)
  <2>1. CASE Begin(t)
    BY <2>1 DEF Begin, Active, Rest
  <2>2. CASE Active(t)
    BY <2>2 DEF Sequential, Active, Rest
  <2>3. Begin(t) \/ Active(t)
    BY DEF Step, Active, LoadBusiness, RouteForced, RouteModel, RouteClassifier,
           ExecuteTool, ExecutePlan, UpdateLoad, UpdateStore, AppendLoad,
           AppendStore, CutShort, Abandon
  <2>4. QED BY <2>1, <2>2, <2>3
<1>2. \A u \in Turns \ {t} : pc'[u] = pc[u]
  <2>1. CASE RouteForced(t)
    BY <2>1 DEF RouteForced, Dispatch, Decide, TypeOK
  <2>2. CASE RouteModel(t)
    BY <2>2 DEF RouteModel, Dispatch, Decide, TypeOK
  <2>3. CASE RouteClassifier(t)
    BY <2>3 DEF RouteClassifier, Decide, TypeOK
  <2>4. CASE UpdateStore(t)
    BY <2>4 DEF UpdateStore, Continue, Leave, TypeOK
  <2>5. CASE Begin(t) \/ LoadBusiness(t) \/ ExecuteTool(t) \/ ExecutePlan(t) \/ UpdateLoad(t)
    BY <2>5 DEF Begin, LoadBusiness, ExecuteTool, ExecutePlan, UpdateLoad, TypeOK
  <2>6. CASE AppendLoad(t) \/ AppendStore(t) \/ CutShort(t) \/ Abandon(t)
    BY <2>6 DEF AppendLoad, AppendStore, CutShort, Abandon, Leave, TypeOK
  <2>7. QED BY <2>1, <2>2, <2>3, <2>4, <2>5, <2>6 DEF Step
<1>3. QED BY <1>1, <1>2 DEF Rest, Tried

LEMMA OthersRest ==
  ASSUME Orderly, TypeOK, Sequential, NEW t \in Turns, Step(t)
  PROVE  \A u \in Turns \ {t} : Rest(u) /\ Rest(u)' /\ ~Tried(u) /\ ~Tried(u)'
  BY MoverAlone DEF Orderly

\* So the invariant need only be shown of the turn that moved.
LEMMA OneTurn ==
  ASSUME NEW t \in Turns,
         \A u \in Turns \ {t} : Rest(u)',
         Fresh(t)', OneCall(t)', Resting(t)'
  PROVE  Sequential' /\ TurnInv'
<1>1. Sequential'
  BY DEF Sequential, Active, Rest
<1>2. ASSUME NEW u \in Turns \ {t} PROVE Fresh(u)' /\ OneCall(u)' /\ Resting(u)'
  BY DEF Rest, Fresh, OneCall, Resting
<1>3. QED BY <1>1, <1>2 DEF TurnInv

\* A step that leaves the session and the counters alone, and no attempt
\* behind, keeps the licence as it is.
LEMMA LicenceKept ==
  ASSUME Outstanding, UNCHANGED <<session, arms, spent>>,
         \A u \in Turns : Tried(u) => Tried(u)'
  PROVE  Outstanding'
<1>1. ASSUME NEW r \in Requests PROVE Licensed(r)' => Licensed(r)
  BY DEF Licensed
<1>2. QED BY <1>1 DEF Outstanding

-----------------------------------------------------------------------------
(* Routing: the only call that rests on the pending write is the one of a  *)
(* confirmation, alone in its turn.                                        *)

\* What routing guarantees of the calls it decides on.
Sound(cs) ==
    \A c \in cs : PendingCall(c) =>
        /\ Armed(session.pending)
        /\ session.pending.req = c.req
        /\ \A d \in cs : d = c

LEMMA DecideOrder ==
  ASSUME Orderly, TypeOK, OrderlyInv, NEW t \in Turns, Step(t), pc[t] = "route",
         NEW r \in Routes, NEW cs \in SUBSET Calls, Decide(t, r, cs),
         r \notin {"direct", "clarify"} => \A c \in cs : ~PendingCall(c),
         r # "plan" => \A c, d \in cs : c = d,
         Sound(cs)
  PROVE  OrderlyInv'
<1>1. \A u \in Turns \ {t} : Rest(u) /\ Rest(u)' /\ ~Tried(u) /\ ~Tried(u)'
  BY OthersRest DEF OrderlyInv
<1>2. /\ session' = session /\ biz'[t] = biz[t] /\ calls'[t] = cs /\ route'[t] = r
      /\ pc'[t] \in {"execute", "update"}
      /\ pc'[t] = "update" => r \in {"clarify", "text"}
  BY DEF Decide, TypeOK
<1>3. Fresh(t)'
  BY <1>2 DEF Fresh, OrderlyInv, TurnInv
<1>4. OneCall(t)'
  BY <1>2 DEF OneCall
<1>5. Resting(t)'
  BY <1>2 DEF Resting, Sound, PendingCall
<1>6. Sequential' /\ TurnInv'
  BY <1>1, <1>3, <1>4, <1>5, OneTurn
<1>7. \A u \in Turns : Tried(u) => Tried(u)'
  BY <1>1 DEF Tried
<1>8. Outstanding'
  BY <1>7, LicenceKept DEF OrderlyInv, Decide, ghostVars
<1>9. QED BY <1>6, <1>8 DEF OrderlyInv

LEMMA DispatchOrder ==
  ASSUME Orderly, TypeOK, OrderlyInv, NEW t \in Turns, Step(t), pc[t] = "route",
         NEW cs \in SUBSET Calls, Dispatch(t, cs), Sound(cs)
  PROVE  OrderlyInv'
<1>1. {"clarify", "direct", "plan", "planner"} \subseteq Routes
  BY DEF Routes
<1>2. ASSUME NEW c \in cs PROVE Sound({c})
  BY DEF Sound
<1>3. /\ QueryProject("request") \in Calls
      /\ ~PendingCall(QueryProject("request"))
  BY QueryType DEF Bases, PendingCall, QueryProject, Call
<1>4. Sound({}) /\ Sound({QueryProject("request")})
  BY <1>3 DEF Sound
<1>5. CASE \E c \in cs : Decide(t, "clarify", {c})
  BY <1>1, <1>2, <1>5, DecideOrder
<1>6. CASE Decide(t, "direct", {QueryProject("request")})
  BY <1>1, <1>3, <1>4, <1>6, DecideOrder
<1>7. CASE Decide(t, "planner", {})
  BY <1>1, <1>4, <1>7, DecideOrder
<1>8. CASE Several(cs) /\ Decide(t, "plan", cs)
  <2>1. \A c \in cs : ~PendingCall(c)
    BY <1>8 DEF Sound, Several
  <2>2. QED BY <1>1, <1>8, <2>1, DecideOrder
<1>9. CASE ~Several(cs) /\ Decide(t, "direct", cs)
  BY <1>1, <1>9, DecideOrder DEF Several
<1>10. QED BY <1>5, <1>6, <1>7, <1>8, <1>9 DEF Dispatch

LEMMA ForcedSound ==
  ASSUME TypeOK, OrderlyInv, NEW t \in Turns, pc[t] = "route",
         NEW c \in ForcedCalls(hist[t], biz[t], msg[t])
  PROVE  Sound({Enforced(c, msg[t])})
<1>1. c \in Calls
  BY ForcedType DEF TypeOK
<1>2. biz[t] = session.pending
  BY DEF OrderlyInv, TurnInv, Fresh
<1>3. ASSUME PendingCall(Enforced(c, msg[t]))
      PROVE  Armed(session.pending) /\ session.pending.req = Enforced(c, msg[t]).req
  <2>1. Enforced(c, msg[t]) = c /\ c.basis = "pending" /\ ~c.dry
    BY <1>3 DEF PendingCall, Enforced, Call
  <2>2. c \in ConfirmedCalls(hist[t], biz[t], msg[t])
    BY <2>1 DEF ForcedCalls, UpdatedCalls, QueryProject, Call
  <2>3. /\ biz[t] # None
        /\ c = Call(biz[t].tool, biz[t].req, ~biz[t].ok, "pending")
    BY <2>1, <2>2 DEF ConfirmedCalls, Call
  <2>4. c.req = biz[t].req /\ c.dry = ~biz[t].ok
    BY <2>3 DEF Call
  <2>5. biz[t].ok
    BY <2>1, <2>4
  <2>6. QED BY <1>2, <2>1, <2>3, <2>4, <2>5 DEF Armed
<1>4. QED BY <1>3 DEF Sound

LEMMA RouteOrder ==
  ASSUME Orderly, TypeOK, OrderlyInv, NEW t \in Turns, Step(t),
         RouteForced(t) \/ RouteModel(t) \/ RouteClassifier(t)
  PROVE  OrderlyInv'
<1>. hist[t] \in Seq(Exchanges) /\ msg[t] \in Messages /\ biz[t] \in PendingWrites \cup {None}
  BY DEF TypeOK
<1>1. pc[t] = "route"
  BY DEF RouteForced, RouteModel, RouteClassifier
<1>2. {"text", "planner", "direct", "clarify"} \subseteq Routes /\ Sound({})
  BY DEF Routes, Sound
<1>3. CASE Decide(t, "text", {}) \/ Decide(t, "planner", {})
  BY <1>1, <1>2, <1>3, DecideOrder
<1>4. ASSUME NEW c \in ForcedCalls(hist[t], biz[t], msg[t]),
             Dispatch(t, {Enforced(c, msg[t])})
      PROVE  OrderlyInv'
  <2>1. Enforced(c, msg[t]) \in Calls
    BY ForcedType, EnforcedType
  <2>2. QED BY <1>1, <1>4, <2>1, ForcedSound, DispatchOrder
<1>5. ASSUME NEW c \in ModelCalls(hist[t], msg[t]), NEW d \in ModelCalls(hist[t], msg[t]),
             Dispatch(t, {Enforced(c, msg[t]), Enforced(d, msg[t])})
      PROVE  OrderlyInv'
  <2>1. c \in Calls /\ d \in Calls
    BY ModelType
  <2>2. c.basis = "model" /\ d.basis = "model"
    BY DEF ModelCalls, QueryProject, Call
  <2>3. Sound({Enforced(c, msg[t]), Enforced(d, msg[t])})
    BY <2>1, <2>2, EnforcedType DEF Sound, PendingCall
  <2>4. QED BY <1>1, <1>5, <2>1, <2>3, EnforcedType, DispatchOrder
<1>6. ASSUME NEW r \in Singles, NEW q \in {"direct", "clarify"},
             Decide(t, q, {Call("save_workhour", r, FALSE, "classifier")})
      PROVE  OrderlyInv'
  <2>. DEFINE c == Call("save_workhour", r, FALSE, "classifier")
  <2>1. c \in Calls /\ c.basis = "classifier"
    BY WriteCallType DEF WriteTools, Bases, Requests, Call
  <2>. HIDE DEF c
  <2>2. Sound({c})
    BY <2>1 DEF Sound, PendingCall
  <2>3. QED BY <1>1, <1>2, <1>6, <2>1, <2>2, DecideOrder DEF c
<1>7. ASSUME Decide(t, "direct", {QueryProject("classifier")}) PROVE OrderlyInv'
  <2>1. /\ QueryProject("classifier") \in Calls
        /\ Sound({QueryProject("classifier")})
    BY QueryType DEF Bases, Sound, PendingCall, QueryProject, Call
  <2>2. QED BY <1>1, <1>2, <1>7, <2>1, DecideOrder
<1>8. CASE RouteClassifier(t)
  BY <1>3, <1>6, <1>7, <1>8 DEF RouteClassifier
<1>9. QED BY <1>3, <1>4, <1>5, <1>8 DEF RouteForced, RouteModel

-----------------------------------------------------------------------------
(* Execution: an attempt uses the licence that is outstanding.             *)

LEMMA ExecuteOrder ==
  ASSUME Orderly, TypeOK, OrderlyInv, NEW t \in Turns, Step(t),
         ExecuteTool(t) \/ ExecutePlan(t)
  PROVE  /\ OrderlyInv'
         /\ UNCHANGED <<session, arms>>
         /\ \/ spent' = spent /\ \A u \in Turns : ~Tried(u) /\ ~Tried(u)'
            \/ \E r \in Requests :
                  /\ Licensed(r)
                  /\ Tried(t)'
                  /\ spent' = [spent EXCEPT ![r] = @ + 1]
<1>1. \A u \in Turns \ {t} : Rest(u) /\ Rest(u)' /\ ~Tried(u) /\ ~Tried(u)'
  BY OthersRest DEF OrderlyInv
<1>2. /\ pc[t] = "execute" /\ pc'[t] = "update"
      /\ UNCHANGED <<session, biz, calls, route, arms>>
  BY DEF ExecuteTool, ExecutePlan, TypeOK
<1>3. calls[t] \in SUBSET Calls
  BY DEF TypeOK
<1>4. /\ biz[t] = session.pending
      /\ route[t] # "plan" => \A c, d \in calls[t] : c = d
      /\ \A c \in calls[t] : PendingCall(c) =>
            /\ route[t] \in {"direct", "clarify"}
            /\ Armed(session.pending)
            /\ session.pending.req = c.req
  BY <1>2 DEF OrderlyInv, TurnInv, Fresh, OneCall, Resting
<1>5. Fresh(t)' /\ OneCall(t)' /\ Resting(t)'
  BY <1>2, <1>4 DEF Fresh, OneCall, Resting
<1>6. Sequential' /\ TurnInv'
  BY <1>1, <1>5, OneTurn
<1>7. \A u \in Turns : ~Tried(u)
  BY <1>1, <1>2 DEF Tried
<1>8. CASE ExecuteTool(t) /\ \E c \in RealWrites(calls[t]) : c.basis = "pending"
  <2>1. PICK c \in RealWrites(calls[t]) : c.basis = "pending"
    BY <1>8
  <2>2. c \in calls[t] /\ c.tool \in WriteTools /\ PendingCall(c)
    BY <2>1 DEF RealWrites, PendingCall
  <2>3. c.req \in Requests
    BY <1>3, <2>2, CallFields DEF WriteCalls
  <2>4. Armed(session.pending) /\ session.pending.req = c.req
    BY <1>4, <2>2
  <2>5. route[t] = "direct"
    BY <1>8 DEF ExecuteTool
  <2>6. \A d \in RealWrites(calls[t]) : d = c
    BY <1>4, <2>2, <2>5 DEF RealWrites
  <2>7. spent' = [spent EXCEPT ![c.req] = @ + 1]
    <3>1. spent' = [r \in Requests |->
                      IF \E d \in RealWrites(calls[t]) : d.basis = "pending" /\ d.req = r
                      THEN spent[r] + 1 ELSE spent[r]]
      BY <1>8 DEF ExecuteTool, Send
    <3>2. \A r \in Requests :
            (\E d \in RealWrites(calls[t]) : d.basis = "pending" /\ d.req = r) <=> r = c.req
      BY <2>1, <2>6
    <3>3. spent' = [r \in Requests |-> IF r = c.req THEN spent[r] + 1 ELSE spent[r]]
      BY <3>1, <3>2
    <3>4. QED BY <2>3, <3>3 DEF TypeOK
  <2>8. Tried(t)'
    BY <1>2, <2>1, <2>2, <2>5 DEF Tried, RealWrites
  <2>9. Licensed(c.req) /\ \A r \in Requests : ~Licensed(r)'
    BY <1>7, <2>4, <2>8 DEF Licensed
  <2>10. Outstanding'
    BY <1>2, <2>3, <2>7, <2>9 DEF OrderlyInv, Outstanding, TypeOK
  <2>11. QED BY <1>2, <1>6, <2>3, <2>7, <2>8, <2>9, <2>10 DEF OrderlyInv
<1>9. CASE ~(ExecuteTool(t) /\ \E c \in RealWrites(calls[t]) : c.basis = "pending")
  <2>1. spent' = spent
    <3>1. CASE UNCHANGED spent
      BY <3>1
    <3>2. ASSUME NEW cs, \A c \in RealWrites(cs) : c.basis # "pending",
                 spent' = [r \in Requests |->
                      IF \E c \in RealWrites(cs) : c.basis = "pending" /\ c.req = r
                      THEN spent[r] + 1 ELSE spent[r]]
          PROVE  spent' = spent
      <4>1. spent' = [r \in Requests |-> spent[r]]
        BY <3>2
      <4>2. QED BY <4>1 DEF TypeOK
    <3>3. CASE ExecuteTool(t)
      BY <1>9, <3>2, <3>3 DEF ExecuteTool, Send
    <3>4. ASSUME ExecutePlan(t), NEW cs \in PlannedCalls(t)
          PROVE  \A c \in RealWrites(cs) : c.basis # "pending"
      <4>1. CASE route[t] = "plan"
        BY <1>4, <3>4, <4>1 DEF PlannedCalls, RealWrites, PendingCall
      <4>2. CASE route[t] # "plan"
        <5>1. \A c \in PlannerCalls(msg[t]) : c.basis = "planner"
          BY DEF PlannerCalls, Call
        <5>2. cs \subseteq PlannerCalls(msg[t])
          BY <3>4, <4>2 DEF PlannedCalls
        <5>3. QED BY <5>1, <5>2 DEF RealWrites
      <4>3. QED BY <4>1, <4>2
    <3>5. CASE ExecutePlan(t)
      BY <3>1, <3>2, <3>4, <3>5 DEF ExecutePlan, Send
    <3>6. QED BY <3>3, <3>5
  <2>2. ~Tried(t)'
    <3>1. CASE ExecuteTool(t)
      BY <1>2, <1>9, <3>1 DEF Tried
    <3>2. CASE ExecutePlan(t)
      BY <1>2, <3>2 DEF ExecutePlan, Tried
    <3>3. QED BY <3>1, <3>2
  <2>3. Outstanding'
    BY <1>2, <1>7, <2>1, LicenceKept DEF OrderlyInv
  <2>4. QED BY <1>1, <1>2, <1>6, <1>7, <2>1, <2>2, <2>3 DEF OrderlyInv
<1>10. QED BY <1>8, <1>9

-----------------------------------------------------------------------------
(* The end of a turn: the licence is granted anew, left alone or revoked.  *)

LEMMA StoreOrder ==
  ASSUME Orderly, TypeOK, OrderlyInv, NEW t \in Turns, Step(t), UpdateStore(t)
  PROVE  /\ OrderlyInv'
         /\ spent' = spent
         /\ \A u \in Turns : ~Tried(u)'
         /\ \/ arms' = arms /\ \A r \in Requests : Licensed(r)' => Licensed(r)
            \/ \E r \in Requests :
                  /\ Armed(session'.pending) /\ session'.pending.req = r
                  /\ arms' = [arms EXCEPT ![r] = @ + 1]
<1>1. \A u \in Turns \ {t} : Rest(u) /\ Rest(u)' /\ ~Tried(u) /\ ~Tried(u)'
  BY OthersRest DEF OrderlyInv
<1>2. /\ pc[t] = "store" /\ pc'[t] \in {"append", "done"} /\ spent' = spent
      /\ arms' = [r \in Requests |-> IF Arms(t, r) THEN arms[r] + 1 ELSE arms[r]]
  BY DEF UpdateStore, Continue, Leave, TypeOK, Orderly
<1>3. PICK p \in NextPending(t) :
         session' = [messages |-> copy[t].messages, pending |-> p]
  BY DEF UpdateStore, Orderly
<1>4. session'.pending = p
  BY <1>3
<1>5. Fresh(t)' /\ OneCall(t)' /\ Resting(t)' /\ ~Tried(t)'
  BY <1>2 DEF Fresh, OneCall, Resting, Tried
<1>6. /\ Sequential' /\ TurnInv'
      /\ \A u \in Turns : ~Tried(u)'
  BY <1>1, <1>5, OneTurn
<1>7. /\ biz[t] = session.pending
      /\ route[t] # "plan" => \A c, d \in calls[t] : c = d
  BY <1>2 DEF OrderlyInv, TurnInv, Fresh, OneCall
<1>8. RoundWrites(t) \subseteq WriteCalls /\ RoundWrites(t) \subseteq RoundCalls(t)
  BY CallFields DEF RoundWrites, RoundCalls, TypeOK
<1>9. \A r \in Requests : Licensed(r)' <=> Armed(p) /\ p.req = r
  BY <1>4, <1>6 DEF Licensed
<1>10. CASE RoundWrites(t) # {}
  <2>1. PICK c \in RoundWrites(t) : p = PendingAfter(t, c)
    BY <1>3, <1>10 DEF NextPending
  <2>2. \A d \in RoundWrites(t) : d = c
    BY <1>7, <1>8 DEF RoundCalls
  <2>3. c.req \in Requests
    BY <1>8 DEF WriteCalls
  <2>4. Armed(p) => ResultSuccess(out[t]) /\ c.dry /\ p.req = c.req
    BY <2>1 DEF Armed, PendingAfter
  <2>5. \A r \in Requests : Arms(t, r) <=> ResultSuccess(out[t]) /\ c.dry /\ c.req = r
    BY <2>2 DEF Arms
  <2>6. CASE ResultSuccess(out[t]) /\ c.dry
    <3>1. p = [tool |-> c.tool, req |-> c.req, ok |-> TRUE]
      BY <2>1, <2>6 DEF PendingAfter
    <3>2. p \in PendingWrites
      BY <1>8, <3>1 DEF WriteCalls, PendingWrites
    <3>3. Armed(p) /\ p.req = c.req
      BY <3>1, <3>2, NoneAssumption DEF Armed
    <3>4. arms' = [arms EXCEPT ![c.req] = @ + 1]
      <4>1. arms' = [r \in Requests |-> IF r = c.req THEN arms[r] + 1 ELSE arms[r]]
        BY <1>2, <2>5, <2>6
      <4>2. QED BY <2>3, <4>1 DEF TypeOK
    <3>5. Outstanding'
      BY <1>2, <1>9, <2>3, <3>3, <3>4 DEF OrderlyInv, Outstanding, TypeOK
    <3>6. QED BY <1>2, <1>4, <1>6, <2>3, <3>3, <3>4, <3>5 DEF OrderlyInv
  <2>7. CASE ~(ResultSuccess(out[t]) /\ c.dry)
    <3>1. arms' = arms
      <4>1. arms' = [r \in Requests |-> arms[r]]
        BY <1>2, <2>5, <2>7
      <4>2. QED BY <4>1 DEF TypeOK
    <3>2. \A r \in Requests : ~Licensed(r)'
      BY <1>9, <2>4, <2>7
    <3>3. Outstanding'
      BY <1>2, <3>1, <3>2 DEF OrderlyInv, Outstanding
    <3>4. QED BY <1>2, <1>6, <3>1, <3>2, <3>3 DEF OrderlyInv
  <2>8. QED BY <2>6, <2>7
<1>11. CASE RoundWrites(t) = {}
  <2>1. Armed(p) => p = session.pending
    BY <1>3, <1>7, <1>11 DEF NextPending, Armed
  <2>2. ~Tried(t)
    BY <1>11 DEF Tried, RealWrites, RoundWrites, RoundCalls
  <2>3. \A r \in Requests : Licensed(r)' => Licensed(r)
    BY <1>1, <1>9, <2>1, <2>2 DEF Licensed
  <2>4. arms' = arms
    <3>1. arms' = [r \in Requests |-> arms[r]]
      BY <1>2, <1>11 DEF Arms
    <3>2. QED BY <3>1 DEF TypeOK
  <2>5. Outstanding'
    BY <1>2, <2>3, <2>4 DEF OrderlyInv, Outstanding
  <2>6. QED BY <1>2, <1>6, <2>3, <2>4, <2>5 DEF OrderlyInv
<1>12. QED BY <1>10, <1>11

\* Every other step leaves the pending write, and the counters, as they are.
LEMMA QuietOrder ==
  ASSUME Orderly, TypeOK, OrderlyInv, NEW t \in Turns, Step(t),
         Begin(t) \/ LoadBusiness(t) \/ UpdateLoad(t) \/ AppendLoad(t) \/ AppendStore(t)
  PROVE  /\ OrderlyInv'
         /\ UNCHANGED <<arms, spent>>
         /\ session'.pending = session.pending
         /\ \A u \in Turns : Tried(u)' <=> Tried(u)
<1>1. \A u \in Turns \ {t} : Rest(u) /\ Rest(u)' /\ ~Tried(u) /\ ~Tried(u)'
  BY OthersRest DEF OrderlyInv
<1>2. Loaded = {session}
  BY DEF Loaded, Orderly
<1>3. UNCHANGED <<arms, spent>>
  BY DEF Begin, LoadBusiness, UpdateLoad, AppendLoad, AppendStore, ghostVars
<1>4. session'.pending = session.pending
  <2>1. CASE AppendStore(t)
    <3>1. copy[t] = session
      BY <2>1 DEF AppendStore, OrderlyInv, TurnInv, Fresh
    <3>2. session'.pending = copy[t].pending
      BY <2>1 DEF AppendStore, Orderly
    <3>3. QED BY <3>1, <3>2
  <2>2. CASE ~AppendStore(t)
    BY <2>2 DEF Begin, LoadBusiness, UpdateLoad, AppendLoad
  <2>3. QED BY <2>1, <2>2
<1>5. Fresh(t)' /\ OneCall(t)' /\ Resting(t)' /\ (Tried(t)' <=> Tried(t))
  <2>1. CASE Begin(t)
    <3>1. pc[t] = "idle" /\ pc'[t] = "business"
      BY <2>1 DEF Begin, TypeOK
    <3>2. QED BY <3>1 DEF Fresh, OneCall, Resting, Tried
  <2>2. CASE LoadBusiness(t)
    <3>1. /\ pc[t] = "business" /\ pc'[t] = "route"
          /\ biz'[t] = session.pending /\ session' = session
      BY <1>2, <2>2 DEF LoadBusiness, TypeOK
    <3>2. QED BY <3>1 DEF Fresh, OneCall, Resting, Tried
  <2>3. CASE UpdateLoad(t)
    <3>1. /\ pc[t] = "update" /\ pc'[t] = "store"
          /\ copy'[t] = session /\ session' = session
          /\ biz' = biz /\ calls' = calls /\ route' = route
      BY <1>2, <2>3 DEF UpdateLoad, TypeOK
    <3>2. QED BY <3>1 DEF Fresh, OneCall, Resting, Tried, RealWrites, OrderlyInv, TurnInv
  <2>4. CASE AppendLoad(t)
    <3>1. /\ pc[t] = "append" /\ pc'[t] = "storeHistory"
          /\ copy'[t] = session /\ session' = session
      BY <1>2, <2>4 DEF AppendLoad, TypeOK
    <3>2. QED BY <3>1 DEF Fresh, OneCall, Resting, Tried
  <2>5. CASE AppendStore(t)
    <3>1. pc[t] = "storeHistory" /\ pc'[t] = "done"
      BY <2>5 DEF AppendStore, Leave, TypeOK
    <3>2. QED BY <3>1 DEF Fresh, OneCall, Resting, Tried
  <2>6. QED BY <2>1, <2>2, <2>3, <2>4, <2>5
<1>6. Sequential' /\ TurnInv'
  BY <1>1, <1>5, OneTurn
<1>7. \A u \in Turns : Tried(u)' <=> Tried(u)
  BY <1>1, <1>5
<1>8. Outstanding'
  BY <1>3, <1>4, <1>7 DEF OrderlyInv, Outstanding, Licensed
<1>9. QED BY <1>3, <1>4, <1>6, <1>7, <1>8 DEF OrderlyInv

LEMMA RouteQuiet ==
  ASSUME TypeOK, NEW t \in Turns, RouteForced(t) \/ RouteModel(t) \/ RouteClassifier(t)
  PROVE  UNCHANGED <<session, arms, spent>> /\ ~Tried(t) /\ ~Tried(t)'
<1>1. pc[t] = "route"
  BY DEF RouteForced, RouteModel, RouteClassifier
<1>2. \E r, cs : Decide(t, r, cs)
  BY DEF RouteForced, RouteModel, RouteClassifier, Dispatch
<1>3. PICK r, cs : Decide(t, r, cs)
  BY <1>2
<1>4. /\ UNCHANGED <<session, arms, spent>>
      /\ route'[t] = r
      /\ pc'[t] = "execute" \/ (pc'[t] = "update" /\ r \in {"clarify", "text"})
  BY <1>3 DEF Decide, ghostVars, TypeOK
<1>5. QED BY <1>1, <1>4 DEF Tried

-----------------------------------------------------------------------------
(* The theorems.                                                           *)

LEMMA OrderlyStep ==
  ASSUME Orderly, TypeOK, OrderlyInv, NEW t \in Turns, Step(t)
  PROVE  OrderlyInv'
<1>1. ~CutShort(t) /\ ~Abandon(t)
  BY DEF CutShort, Abandon, Orderly
<1>2. QED BY <1>1, RouteOrder, ExecuteOrder, StoreOrder, QuietOrder DEF Step

THEOREM OrderlyInvariant ==
  ASSUME Orderly
  PROVE  Spec => []OrderlyInv
<1>1. Init => OrderlyInv
  <2>. SUFFICES ASSUME Init PROVE OrderlyInv
    OBVIOUS
  <2>1. Sequential /\ TurnInv
    BY DEF Init, Sequential, Active, TurnInv, Fresh, OneCall, Resting
  <2>2. \A r \in Requests : ~Licensed(r) /\ spent[r] = 0 /\ arms[r] = 0
    BY DEF Init, Licensed, Armed, NoSession
  <2>3. QED BY <2>1, <2>2 DEF OrderlyInv, Outstanding
<1>2. TypeOK /\ OrderlyInv /\ [Next]_vars => OrderlyInv'
  <2>. SUFFICES ASSUME TypeOK, OrderlyInv, [Next]_vars PROVE OrderlyInv'
    OBVIOUS
  <2>1. CASE Expire
    <3>1. \A t \in Turns : Rest(t) /\ Rest(t)'
      BY <2>1 DEF Expire, Active, Rest, turnVars, TypeOK, PCs
    <3>2. Sequential' /\ TurnInv'
      BY <3>1 DEF Rest, Sequential, Active, TurnInv, Fresh, OneCall, Resting
    <3>3. UNCHANGED <<arms, spent>> /\ \A r \in Requests : ~Licensed(r)'
      BY <2>1 DEF Expire, ghostVars, Licensed, Armed, NoSession
    <3>4. QED BY <3>2, <3>3 DEF OrderlyInv, Outstanding
  <2>2. CASE UNCHANGED vars
    BY <2>2 DEF vars, turnVars, ghostVars, OrderlyInv, Sequential, Active, TurnInv,
                Fresh, OneCall, Resting, Outstanding, Licensed, Tried, RealWrites
  <2>3. QED BY <2>1, <2>2, OrderlyStep DEF Next
<1>3. QED BY <1>1, <1>2, ConfirmationTypeOK, PTL DEF Spec

\* When turns follow one another and neither the store nor the client drops
\* out, a confirmation consumes the pending write it rests on, whatever becomes
\* of the attempt (the pending_write bookkeeping of stream_agent_response).
THEOREM NoSecondWrite ==
  ASSUME Orderly
  PROVE  Spec => []SpentWithinArmed
<1>1. OrderlyInv => SpentWithinArmed
  BY DEF OrderlyInv, Outstanding, SpentWithinArmed
<1>2. QED BY <1>1, OrderlyInvariant, PTL

LEMMA LicenceValue ==
  ASSUME TypeOK, TypeOK'
  PROVE  /\ \A r \in Requests : Licensed(r) => Licence = r
         /\ \A r \in Requests : Licensed(r)' => Licence' = r
         /\ Licence = None \/ \E r \in Requests : Licence = r /\ Licensed(r)
         /\ Licence' = None \/ \E r \in Requests : Licence' = r /\ Licensed(r)'
  BY DEF TypeOK, Sessions, PendingWrites, Armed, Licensed, Licence

\* Under the same assumptions every step of the session is a step of
\* WriteLicence or leaves the licence and its counters unchanged.
THEOREM ConfirmationRefinesLicence ==
  ASSUME Orderly
  PROVE  Spec => LicenceSpec
<1>1. Init => L!Init
  BY DEF Init, L!Init, Licence, Armed, NoSession
<1>2. TypeOK /\ TypeOK' /\ OrderlyInv /\ [Next]_vars => [L!Next]_(L!vars)
  <2>. SUFFICES ASSUME TypeOK, TypeOK', OrderlyInv, [Next]_vars
                PROVE  [L!Next]_(L!vars)
    OBVIOUS
  <2>1. ASSUME UNCHANGED <<arms, spent>>, \A r \in Requests : Licensed(r)' => Licensed(r)
        PROVE  [L!Next]_(L!vars)
    <3>1. Licence' = Licence \/ (Licence # None /\ Licence' = None)
      BY <2>1, LicenceValue
    <3>2. QED BY <2>1, <3>1 DEF L!Next, L!Revoke, L!vars
  <2>2. CASE Expire
    BY <2>1, <2>2 DEF Expire, ghostVars, Licensed, Armed, NoSession
  <2>3. ASSUME NEW t \in Turns, Step(t) PROVE [L!Next]_(L!vars)
    <3>. \A u \in Turns \ {t} : ~Tried(u) /\ ~Tried(u)'
      BY <2>3, OthersRest DEF OrderlyInv
    <3>1. CASE RouteForced(t) \/ RouteModel(t) \/ RouteClassifier(t)
      BY <2>1, <3>1, RouteQuiet DEF Licensed
    <3>2. CASE Begin(t) \/ LoadBusiness(t) \/ UpdateLoad(t) \/ AppendLoad(t) \/ AppendStore(t)
      BY <2>1, <2>3, <3>2, QuietOrder DEF Licensed
    <3>3. CASE ExecuteTool(t) \/ ExecutePlan(t)
      <4>1. CASE spent' = spent /\ \A u \in Turns : ~Tried(u) /\ ~Tried(u)'
        BY <2>1, <2>3, <3>3, <4>1, ExecuteOrder DEF Licensed
      <4>2. ASSUME NEW r \in Requests, Licensed(r), Tried(t)',
                   spent' = [spent EXCEPT ![r] = @ + 1]
            PROVE  [L!Next]_(L!vars)
        <5>1. Licence = r /\ Licence' = None
          BY <4>2, LicenceValue DEF Licence
        <5>2. UNCHANGED arms
          BY <2>3, <3>3, ExecuteOrder
        <5>3. L!Use(r)
          BY <4>2, <5>1, <5>2 DEF L!Use
        <5>4. QED BY <5>3 DEF L!Next
      <4>3. QED BY <2>3, <3>3, <4>1, <4>2, ExecuteOrder
    <3>4. CASE UpdateStore(t)
      <4>1. CASE arms' = arms /\ \A r \in Requests : Licensed(r)' => Licensed(r)
        BY <2>1, <2>3, <3>4, <4>1, StoreOrder
      <4>2. ASSUME NEW r \in Requests, Armed(session'.pending), session'.pending.req = r,
                   arms' = [arms EXCEPT ![r] = @ + 1]
            PROVE  [L!Next]_(L!vars)
        <5>1. Licensed(r)' /\ spent' = spent
          BY <2>3, <3>4, <4>2, StoreOrder DEF Licensed
        <5>2. Licence' = r
          BY <5>1, LicenceValue
        <5>3. L!Grant(r)
          BY <4>2, <5>1, <5>2 DEF L!Grant
        <5>4. QED BY <5>3 DEF L!Next
      <4>3. QED BY <2>3, <3>4, <4>1, <4>2, StoreOrder
    <3>5. ~CutShort(t) /\ ~Abandon(t)
      BY DEF CutShort, Abandon, Orderly
    <3>6. QED BY <2>3, <3>1, <3>2, <3>3, <3>4, <3>5 DEF Step
  <2>4. CASE UNCHANGED vars
    BY <2>1, <2>4 DEF vars, turnVars, ghostVars, Licensed, Tried, RealWrites
  <2>5. QED BY <2>2, <2>3, <2>4 DEF Next
<1>3. QED BY <1>1, <1>2, ConfirmationTypeOK, OrderlyInvariant, PTL
          DEF Spec, LicenceSpec, L!Spec

-----------------------------------------------------------------------------
(* The armed write is kept.  A client may leave: nothing is lost by that.  *)

\* One turn at a time, and what it has read of the session is still stored.
KeptInv == Sequential /\ \A t \in Turns : Fresh(t)

\* What may replace an armed write, in a turn that stores the business state.
MayReplace(t) ==
    /\ pc[t] = "store"
    /\ \/ msg[t].kind = "cancel"
       \/ \E c \in RoundCalls(t) : c.tool \in WriteTools

LEMMA KeptStep ==
  ASSUME ~Overlap, ~StoreFails, TypeOK, KeptInv, NEW t \in Turns, Step(t)
  PROVE  /\ KeptInv'
         /\ session'.pending = session.pending \/ MayReplace(t)
<1>1. \A u \in Turns \ {t} : Rest(u) /\ Rest(u)'
  BY MoverAlone DEF KeptInv
<1>2. Loaded = {session}
  BY DEF Loaded
<1>3. ASSUME Fresh(t)' PROVE KeptInv'
  <2>1. Sequential'
    BY <1>1 DEF Sequential, Active, Rest
  <2>2. ASSUME NEW u \in Turns \ {t} PROVE Fresh(u)'
    BY <1>1 DEF Rest, Fresh
  <2>3. QED BY <1>3, <2>1, <2>2 DEF KeptInv
<1>4. Fresh(t)
  BY DEF KeptInv
<1>5. CASE Begin(t) \/ LoadBusiness(t)
  <2>1. /\ session' = session
        /\ pc'[t] \in {"business", "route"}
        /\ pc'[t] = "route" => biz'[t] = session.pending
    BY <1>2, <1>5 DEF Begin, LoadBusiness, TypeOK
  <2>2. QED BY <1>3, <2>1 DEF Fresh
<1>6. CASE RouteForced(t) \/ RouteModel(t) \/ RouteClassifier(t)
  <2>1. PICK r, cs : Decide(t, r, cs)
    BY <1>6 DEF RouteForced, RouteModel, RouteClassifier, Dispatch
  <2>2. pc[t] = "route" /\ pc'[t] \in {"execute", "update"} /\ UNCHANGED <<session, biz>>
    BY <1>6, <2>1 DEF RouteForced, RouteModel, RouteClassifier, Decide, TypeOK
  <2>3. QED BY <1>3, <1>4, <2>2 DEF Fresh
<1>7. CASE ExecuteTool(t) \/ ExecutePlan(t)
  <2>1. pc[t] = "execute" /\ pc'[t] = "update" /\ UNCHANGED <<session, biz>>
    BY <1>7 DEF ExecuteTool, ExecutePlan, TypeOK
  <2>2. QED BY <1>3, <1>4, <2>1 DEF Fresh
<1>8. CASE UpdateLoad(t) \/ AppendLoad(t)
  <2>1. /\ UNCHANGED <<session, biz>> /\ copy'[t] = session
        /\ \/ pc[t] = "update" /\ pc'[t] = "store"
           \/ pc[t] = "append" /\ pc'[t] = "storeHistory"
    BY <1>2, <1>8 DEF UpdateLoad, AppendLoad, TypeOK
  <2>2. QED BY <1>3, <1>4, <2>1 DEF Fresh
<1>9. CASE UpdateStore(t)
  <2>1. pc[t] = "store" /\ pc'[t] \in {"append", "done"}
    BY <1>9 DEF UpdateStore, Continue, Leave, TypeOK
  <2>2. PICK p \in NextPending(t) : session'.pending = p
    BY <1>9 DEF UpdateStore
  <2>3. biz[t] = session.pending
    BY <1>4, <2>1 DEF Fresh
  <2>4. p = session.pending \/ MayReplace(t)
    <3>1. CASE RoundWrites(t) # {}
      BY <2>1, <3>1 DEF MayReplace, RoundWrites
    <3>2. CASE RoundWrites(t) = {}
      BY <2>1, <2>2, <2>3, <3>2 DEF MayReplace, NextPending, Cancels
    <3>3. QED BY <3>1, <3>2
  <2>5. QED BY <1>3, <2>1, <2>2, <2>4 DEF Fresh
<1>10. CASE AppendStore(t)
  <2>1. pc[t] = "storeHistory" /\ pc'[t] = "done" /\ session'.pending = copy[t].pending
    BY <1>10 DEF AppendStore, Leave, TypeOK
  <2>2. QED BY <1>3, <1>4, <2>1 DEF Fresh
<1>11. CASE CutShort(t)
  <2>1. pc[t] \in {"route", "execute", "update"} /\ pc'[t] = "update" /\ UNCHANGED <<session, biz>>
    BY <1>11 DEF CutShort, TypeOK
  <2>2. QED BY <1>3, <1>4, <2>1 DEF Fresh
<1>12. CASE Abandon(t)
  <2>1. pc'[t] = "done" /\ session' = session
    BY <1>12 DEF Abandon, Leave, TypeOK
  <2>2. QED BY <1>3, <2>1 DEF Fresh
<1>13. QED
  BY <1>5, <1>6, <1>7, <1>8, <1>9, <1>10, <1>11, <1>12 DEF Step

\* When turns follow one another and the store answers, an armed write outlives
\* every turn about something else, also one whose client leaves: only expiry,
\* a cancellation or a turn that names a write tool touches it.
THEOREM ArmedWriteIsKept ==
  ASSUME ~Overlap, ~StoreFails
  PROVE  Spec => ArmedWriteKept
<1>1. Init => KeptInv
  BY DEF Init, KeptInv, Sequential, Active, Fresh
<1>2. TypeOK /\ KeptInv /\ [Next]_vars => KeptInv'
  <2> SUFFICES ASSUME TypeOK, KeptInv, [Next]_vars PROVE KeptInv'
    OBVIOUS
  <2>1. CASE Expire
    <3>1. \A t \in Turns : pc[t] \in {"idle", "done"} /\ pc'[t] = pc[t]
      BY <2>1 DEF Expire, Active, turnVars
    <3>2. QED BY <3>1 DEF KeptInv, Sequential, Active, Fresh
  <2>2. CASE UNCHANGED vars
    BY <2>2 DEF vars, turnVars, KeptInv, Sequential, Active, Fresh
  <2>3. QED BY <2>1, <2>2, KeptStep DEF Next
<1>3. TypeOK /\ KeptInv /\ [Next]_vars =>
        [Armed(session.pending) /\ session'.pending # session.pending =>
           \/ session' = NoSession /\ \A t \in Turns : ~Active(t)
           \/ \E t \in Turns :
                /\ pc[t] = "store"
                /\ \/ msg[t].kind = "cancel"
                   \/ \E c \in RoundCalls(t) : c.tool \in WriteTools]_session
  <2> SUFFICES ASSUME TypeOK, KeptInv, [Next]_vars, session'.pending # session.pending
               PROVE  \/ session' = NoSession /\ \A t \in Turns : ~Active(t)
                      \/ \E t \in Turns : MayReplace(t)
    BY DEF MayReplace
  <2>1. CASE Expire
    BY <2>1 DEF Expire
  <2>2. ASSUME NEW t \in Turns, Step(t) PROVE MayReplace(t)
    BY <2>2, KeptStep
  <2>3. CASE UNCHANGED vars
    BY <2>3 DEF vars
  <2>4. QED BY <2>1, <2>2, <2>3 DEF Next
<1>4. QED BY <1>1, <1>2, <1>3, ConfirmationTypeOK, PTL DEF Spec, ArmedWriteKept
=============================================================================
