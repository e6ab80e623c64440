------------------------- MODULE WriteConfirmation -------------------------
(***************************************************************************)
(* One chat session of the agent and the turns that run on it: how a work- *)
(* hour write is previewed, remembered between turns, confirmed and sent.  *)
(*                                                                         *)
(* A turn is one call of stream_agent_response (langgraph_agent.py).  It   *)
(* reads the conversation history and the business state of the session    *)
(* from Redis (two reads), routes the message, runs the tools, and writes  *)
(* both back (each write a load followed by a save).  The LLM is external: *)
(* it may propose any calls about a request the user has mentioned.        *)
(***************************************************************************)
EXTENDS Naturals, Sequences

CONSTANTS
    Turns,          \* the requests that arrive on the session
    Batches,        \* texts with several workhour records
    Foreign,        \* the batches that name another member, user unprivileged
    Singles,        \* complete single records (project, date, duration)
    Slugs,          \* the singles whose project looks like a slug
    Approvals,      \* lists of well-formed workhour ids
    None,           \* absence of a request, of a pending write, of a call
    Kinds,          \* the kinds of messages that arrive
    MaxHistory,     \* exchanges the session keeps (5: 10 messages)
    Overlap,        \* TRUE: turns of the session may run concurrently
    StoreFails,     \* TRUE: a Redis command may fail
    Disconnects,    \* TRUE: the client may drop the stream
    Fallback,       \* TRUE: function calling may fail over to the classifier
    PlannerWrites   \* TRUE: the planner's LLM may plan write tools

Requests == Batches \cup Singles \cup Approvals

ASSUME RequestsAssumption ==
    /\ Foreign \subseteq Batches
    /\ Slugs \subseteq Singles
    /\ Batches \cap Singles = {}
    /\ Batches \cap Approvals = {}
    /\ Singles \cap Approvals = {}
    /\ None \notin Requests
ASSUME HistoryAssumption == MaxHistory \in Nat \ {0}
ASSUME FlagsAssumption ==
    /\ Overlap \in BOOLEAN
    /\ StoreFails \in BOOLEAN
    /\ Disconnects \in BOOLEAN
    /\ Fallback \in BOOLEAN
    /\ PlannerWrites \in BOOLEAN

-----------------------------------------------------------------------------
(***************************************************************************)
(* Messages, up to what the regular expressions of the agent tell apart.   *)
(*   "batch"    rows of records, with a batch or a preview word            *)
(*   "vague"    a batch word without rows                                  *)
(*   "single"   one record with a save word; words says whether a preview  *)
(*              word, a pending-update word or neither also matches        *)
(*   "confirm", "cancel", "reply" (a bare project id), "update" (a preview *)
(*   or correction word without a record), "approve", "other"              *)
(***************************************************************************)
MessageKinds == {"batch", "vague", "single", "confirm", "cancel", "reply",
                 "update", "approve", "other"}
WordKinds == {"plain", "update", "preview"}

Plain(kind, r) == [kind |-> kind, req |-> r, words |-> "plain"]

Messages ==
    {Plain("batch", r) : r \in Batches}
      \cup {Plain("vague", r) : r \in Batches}
      \cup {Plain("approve", r) : r \in Approvals}
      \cup [kind : {"single"}, req : Singles, words : WordKinds]
      \cup [kind : {"update"}, req : {None}, words : {"update", "preview"}]
      \cup {Plain(k, None) : k \in {"confirm", "cancel", "reply", "other"}}

\* One user message and the reply it got; bad: the reply has a failure word.
Exchanges == [msg : Messages, bad : BOOLEAN]

WriteTools == {"save_workhour", "batch_save_workhour", "approve_workhour"}
Bases == {"pending", "history", "request", "model", "classifier", "planner"}

Call(tool, r, dry, basis) ==
    [tool |-> tool, req |-> r, dry |-> dry, basis |-> basis]

\* The lookup of a project, the one read tool the write routes use.
QueryProject(basis) == Call("query_project", None, FALSE, basis)

\* basis records which branch of the code proposed the call.
WriteCalls == [tool : WriteTools, req : Requests, dry : BOOLEAN, basis : Bases]
Calls == WriteCalls \cup {QueryProject(b) : b \in Bases}

\* business_state["pending_write"]; ok is preview_succeeded.
PendingWrites == [tool : WriteTools, req : Requests, ok : BOOLEAN]

ASSUME NoneAssumption == None \notin PendingWrites

Sessions ==
    {s \in [messages : Seq(Exchanges), pending : PendingWrites \cup {None}] :
        Len(s.messages) <= MaxHistory}
NoSession == [messages |-> <<>>, pending |-> None]

-----------------------------------------------------------------------------
VARIABLES
    session,    \* the Redis value session:{id}; an absent key is NoSession
    pc,         \* where each turn is
    msg,        \* its user message
    hist,       \* the history it read
    biz,        \* the pending write it read
    route,      \* what the routing node decided
    calls,      \* the tool calls of the turn
    out,        \* how the turn went
    copy,       \* the session value a read-modify-write of the turn loaded
    asked,      \* ghost: how many messages asked for r
    arms,       \* ghost: how often a successful preview of r was recorded
    spent,      \* ghost: how often r was written on the strength of it
    previewed,  \* ghost: requests a preview of which really ran
    writes      \* ghost: the real writes that reached the backend

turnVars == <<pc, msg, hist, biz, route, calls, out, copy>>
ghostVars == <<asked, arms, spent, previewed, writes>>
vars == <<session, turnVars, ghostVars>>

PCs == {"idle", "business", "route", "execute", "update", "store",
        "append", "storeHistory", "done"}
Routes == {"none", "direct", "plan", "planner", "clarify", "text"}
Outcomes == {"none", "ok", "fail", "unknown", "cut"}
Writes == [turn : Turns, call : WriteCalls, kind : MessageKinds,
           words : WordKinds, cold : BOOLEAN, sure : BOOLEAN, ask : Nat]

Active(t) == pc[t] \notin {"idle", "done"}
Silence == Plain("other", None)

-----------------------------------------------------------------------------
(* What the helpers read out of the message, the history and the pending   *)
(* write.  Each of the two Latest operators is a set of at most one        *)
(* request.                                                                *)

LatestOf(h, kind) ==
    LET hits == {i \in DOMAIN h : h[i].msg.kind = kind}
    IN  {h[i].msg.req : i \in {k \in hits : \A j \in hits : j <= k}}

\* _latest_prior_batch_text: the newest earlier message with rows in it.
LatestBatch(h) == LatestOf(h, "batch")

\* _pending_single_save_arguments: a single record found in the user's words.
LatestSingle(h, m) == IF m.kind = "single" THEN {m.req} ELSE LatestOf(h, "single")

LastReplyBad(h) == h # <<>> /\ h[Len(h)].bad

\* The cancel, confirmation, save-action, preview and pending-update expressions.
CancelsMut(m) == FALSE
Cancels(m) == m.kind = "cancel"
IsConfirmation(m) == m.kind = "confirm"
HasSaveWord(m) == m.kind \in {"single", "batch", "vague", "confirm", "cancel"}
HasPreviewWord(m) == m.kind = "batch" \/ m.words = "preview"
HasUpdateWord(m) == m.words # "plain"

\* What the LLM can name a tool call for: requests the user has mentioned.
Mentioned(h, m) ==
    ({m.req} \cup {h[i].msg.req : i \in DOMAIN h}) \ {None}

ToolOf(r) == IF r \in Batches THEN "batch_save_workhour"
             ELSE IF r \in Singles THEN "save_workhour"
             ELSE "approve_workhour"

-----------------------------------------------------------------------------
(* Routing: _forced_tool_calls_for_request, _enforce_write_confirmation and *)
(* _tool_call_clarification.                                               *)

\* A confirmation: the pending write first, then the text of the history.
ConfirmedCalls(h, p, m) ==
    IF p # None /\ p.tool # "approve_workhour"
    THEN {Call(p.tool, p.req, ~p.ok, "pending")}
    ELSE IF LatestBatch(h) # {}
    THEN {Call("batch_save_workhour", r, FALSE, "history") : r \in LatestBatch(h)}
    ELSE {Call("save_workhour", r, LastReplyBad(h), "history") :
             r \in LatestSingle(h, m)}

\* A correction: always a preview.  Explicit fields of the message replace
\* those of the pending write; the others keep its values.
UpdatedCalls(h, p, m) ==
    LET pendingReq == IF p # None THEN {p.req} ELSE LatestSingle(h, m)
        ownReq     == IF m.kind = "single" THEN {m.req} ELSE {}
    IN  {Call("save_workhour", r, TRUE, "request") : r \in pendingReq \cup ownReq}

\* The calls the message forces; {} when the model's answer is kept.
ForcedCalls(h, p, m) ==
    IF m.kind = "batch" THEN {Call("batch_save_workhour", m.req, TRUE, "request")}
    ELSE IF IsConfirmation(m) THEN ConfirmedCalls(h, p, m)
    ELSE IF h = <<>> THEN {}
    ELSE IF m.kind = "reply" /\ (p # None \/ LatestSingle(h, m) # {})
    THEN {QueryProject("request")}
    ELSE IF HasUpdateWord(m) THEN UpdatedCalls(h, p, m)
    ELSE {}

\* What the model may propose: any call, a preview only where the tool has one.
ModelCalls(h, m) ==
    LET Named(d) == {Call(ToolOf(r), r, d, "model") : r \in Mentioned(h, m)}
    IN  Named(FALSE) \cup {c \in Named(TRUE) : c.req \notin Approvals}
          \cup {QueryProject("model")}

\* _enforce_write_confirmation: a batch is a preview unless the user confirms.
EnforcedMut(c, m) == c
Enforced(c, m) ==
    IF c.tool = "batch_save_workhour" /\ ~IsConfirmation(m)
    THEN Call(c.tool, c.req, TRUE, c.basis) ELSE c

\* Without an earlier user message a save is refused unless a preview is asked.
SaveRefusedMut(h, m, c) ==
    \/ ~ \/ HasSaveWord(m)
         \/ h # <<>> /\ (m.kind = "reply" \/ HasUpdateWord(m))
    \/ c.req \notin Singles
SaveRefused(h, m, c) ==
    \/ ~ \/ HasSaveWord(m)
         \/ h # <<>> /\ (m.kind = "reply" \/ HasUpdateWord(m))
    \/ c.req \notin Singles
    \/ h = <<>> /\ ~HasPreviewWord(m)

BatchRefused(m, c) ==
    \/ ~(IsConfirmation(m) \/ HasPreviewWord(m))
    \/ ~c.dry /\ c.req \in Foreign

ApprovalRefused(m, c) ==
    ~(m.kind = "approve" \/ IsConfirmation(m)) \/ c.req \notin Approvals

NeedsClarification(h, m, c) ==
    \/ c.tool = "save_workhour" /\ SaveRefused(h, m, c)
    \/ c.tool = "batch_save_workhour" /\ BatchRefused(m, c)
    \/ c.tool = "approve_workhour" /\ ApprovalRefused(m, c)

\* _should_verify_project_before_save
VerifiesProject(h, m, c) ==
    /\ c.tool = "save_workhour"
    /\ c.req \in Slugs \/ (h # <<>> /\ m.kind = "reply")

-----------------------------------------------------------------------------
Init ==
    /\ session = NoSession
    /\ pc = [t \in Turns |-> "idle"]
    /\ msg = [t \in Turns |-> Silence]
    /\ hist = [t \in Turns |-> <<>>]
    /\ biz = [t \in Turns |-> None]
    /\ route = [t \in Turns |-> "none"]
    /\ calls = [t \in Turns |-> {}]
    /\ out = [t \in Turns |-> "none"]
    /\ copy = [t \in Turns |-> NoSession]
    /\ asked = [r \in Requests |-> 0]
    /\ arms = [r \in Requests |-> 0]
    /\ spent = [r \in Requests |-> 0]
    /\ previewed = {}
    /\ writes = {}

\* What a Redis read returns; an error reads as an absent session.
Loaded == {session} \cup (IF StoreFails THEN {NoSession} ELSE {})

\* A message arrives; build_messages_with_history reads the history.
Begin(t) ==
    /\ pc[t] = "idle"
    /\ Overlap \/ \A u \in Turns : ~Active(u)
    /\ \E m \in {n \in Messages : n.kind \in Kinds} :
         /\ msg' = [msg EXCEPT ![t] = m]
         /\ asked' = [r \in Requests |-> IF r = m.req THEN asked[r] + 1 ELSE asked[r]]
    /\ \E s \in Loaded : hist' = [hist EXCEPT ![t] = s.messages]
    /\ pc' = [pc EXCEPT ![t] = "business"]
    /\ UNCHANGED <<session, biz, route, calls, out, copy, arms, spent, previewed, writes>>

\* get_business_state reads the pending write in a second round trip.
LoadBusiness(t) ==
    /\ pc[t] = "business"
    /\ \E s \in Loaded : biz' = [biz EXCEPT ![t] = s.pending]
    /\ pc' = [pc EXCEPT ![t] = "route"]
    /\ UNCHANGED <<session, msg, hist, route, calls, out, copy, ghostVars>>

\* The routing node's answer: direct, plan and planner go on to a tool node;
\* clarify and text answer at once.
Decide(t, r, cs) ==
    /\ route' = [route EXCEPT ![t] = r]
    /\ calls' = [calls EXCEPT ![t] = cs]
    /\ IF r \in {"clarify", "text"}
       THEN /\ pc' = [pc EXCEPT ![t] = "update"]
            /\ out' = [out EXCEPT ![t] = "ok"]
       ELSE /\ pc' = [pc EXCEPT ![t] = "execute"]
            /\ UNCHANGED out
    /\ UNCHANGED <<session, msg, hist, biz, copy, ghostVars>>

Several(cs) == \E c, d \in cs : c # d

\* The tail of node_llm_with_tools: every call is checked before any runs.
Dispatch(t, cs) ==
    LET h == hist[t]
        m == msg[t]
        Clarified(c) == NeedsClarification(h, m, c)
        Verified(c)  == ~Clarified(c) /\ VerifiesProject(h, m, c)
    IN  \/ \E c \in cs : Clarified(c) /\ Decide(t, "clarify", {c})
        \/ /\ \E c \in cs : Verified(c)
           /\ IF m.kind = "reply" THEN Decide(t, "direct", {QueryProject("request")})
              ELSE Decide(t, "planner", {})
        \/ /\ \A c \in cs : ~Clarified(c) /\ ~Verified(c)
           /\ Decide(t, IF Several(cs) THEN "plan" ELSE "direct", cs)

\* Function calling on a message with a deterministic route; the model's own
\* answer is discarded.  A cancellation ends the turn without a tool.
RouteForced(t) ==
    /\ pc[t] = "route"
    /\ IF Cancels(msg[t]) THEN Decide(t, "text", {})
       ELSE \E c \in ForcedCalls(hist[t], biz[t], msg[t]) :
               Dispatch(t, {Enforced(c, msg[t])})

\* Function calling on any other message: the model answers with text or with
\* one or two calls (two stand for any longer list).  A pair that the write
\* gate makes identical is left out: the executor refuses duplicate writes.
RouteModel(t) ==
    /\ pc[t] = "route"
    /\ ~Cancels(msg[t])
    /\ ForcedCalls(hist[t], biz[t], msg[t]) = {}
    /\ \/ Decide(t, "text", {})
       \/ \E c, d \in ModelCalls(hist[t], msg[t]) :
             /\ Enforced(c, msg[t]) = Enforced(d, msg[t]) => c = d
             /\ Dispatch(t, {Enforced(c, msg[t]), Enforced(d, msg[t])})

\* node_classify_intent: neither the forced routes nor the write gate apply;
\* the parameters it extracts for a save never include dry_run.
RouteClassifier(t) ==
    /\ Fallback
    /\ pc[t] = "route"
    /\ \/ Decide(t, "text", {})
       \/ Decide(t, "planner", {})
       \/ \E r \in Mentioned(hist[t], msg[t]) \cap Singles :
             LET c == Call("save_workhour", r, FALSE, "classifier")
             IN  IF VerifiesProject(hist[t], msg[t], c)
                 THEN Decide(t, "direct", {QueryProject("classifier")})
                 ELSE Decide(t, IF NeedsClarification(hist[t], msg[t], c)
                                THEN "clarify" ELSE "direct", {c})

-----------------------------------------------------------------------------
(* Execution: node_execute_tool and node_plan_and_execute.                 *)

RealWrites(cs) == {c \in cs : c.tool \in WriteTools /\ ~c.dry}

\* The calls of cs are handed to their tools; those of landed may have
\* changed the backend, for certain when sure.
Send(t, cs, landed, sure) ==
    /\ spent' = [r \in Requests |->
                   IF \E c \in RealWrites(cs) : c.basis = "pending" /\ c.req = r
                   THEN spent[r] + 1 ELSE spent[r]]
    /\ writes' = writes \cup
          {[turn |-> t, call |-> c, kind |-> msg[t].kind, words |-> msg[t].words,
            cold |-> hist[t] = <<>>, sure |-> sure, ask |-> asked[c.req]] : c \in landed}

\* One tool: a definite failure changed nothing, an unknown result may have.
ExecuteTool(t) ==
    /\ pc[t] = "execute"
    /\ route[t] = "direct"
    /\ \E o \in {"ok", "fail", "unknown"} :
          /\ o = "unknown" => RealWrites(calls[t]) # {}
          /\ out' = [out EXCEPT ![t] = o]
          /\ Send(t, calls[t], IF o = "fail" THEN {} ELSE RealWrites(calls[t]), o = "ok")
          /\ previewed' = previewed \cup
                {c.req : c \in {d \in calls[t] : d.dry /\ o = "ok"}}
    /\ pc' = [pc EXCEPT ![t] = "update"]
    /\ UNCHANGED <<session, msg, hist, biz, route, calls, copy, asked, arms>>

\* What the planner's LLM may plan: it sees this message only, and its tasks
\* do not pass the write gate.
PlannerCalls(m) ==
    IF PlannerWrites /\ m.req # None
    THEN {Call(ToolOf(m.req), m.req, d, "planner") : d \in BOOLEAN} ELSE {}

\* The calls of a plan: those of the model, or those of a fresh planner run.
PlannedCalls(t) ==
    IF route[t] = "plan" THEN {calls[t]} ELSE SUBSET PlannerCalls(msg[t])

\* A plan reports success to the turn whatever became of its tasks; only a
\* planner that raises is an error.
ExecutePlan(t) ==
    /\ pc[t] = "execute"
    /\ route[t] \in {"plan", "planner"}
    /\ \/ \E cs \in PlannedCalls(t) : \E done \in SUBSET cs :
             /\ out' = [out EXCEPT ![t] = "ok"]
             /\ Send(t, cs, RealWrites(done), FALSE)
             /\ previewed' = previewed \cup {c.req : c \in {d \in done : d.dry}}
       \/ /\ route[t] = "planner"
          /\ out' = [out EXCEPT ![t] = "fail"]
          /\ UNCHANGED <<spent, writes, previewed>>
    /\ pc' = [pc EXCEPT ![t] = "update"]
    /\ UNCHANGED <<session, msg, hist, biz, route, calls, copy, asked, arms>>

-----------------------------------------------------------------------------
(* The finally block of stream_agent_response.                             *)

\* round_tool_name and round_tool_params: the one call the routing node named.
RoundCalls(t) == IF route[t] \in {"direct", "clarify"} THEN calls[t] ELSE {}

ResultSuccess(o) == o \notin {"fail", "unknown"}

\* The pending write after a write tool was named: a preview, a clarification
\* or a failure leaves one; only a preview that ran leaves it confirmable.
PendingAfterKeep(t, c) ==
    IF c.dry \/ route[t] = "clarify" \/ ~ResultSuccess(out[t])
    THEN [tool |-> c.tool, req |-> c.req, ok |-> ResultSuccess(out[t]) /\ c.dry]
    ELSE biz[t]
PendingAfterRetry(t, c) ==
    IF c.dry \/ route[t] = "clarify" \/ ~ResultSuccess(out[t])
    THEN [tool |-> c.tool, req |-> c.req, ok |-> c.dry \/ ~ResultSuccess(out[t])]
    ELSE None
PendingAfter(t, c) ==
    IF c.dry \/ route[t] = "clarify" \/ ~ResultSuccess(out[t])
    THEN [tool |-> c.tool, req |-> c.req, ok |-> ResultSuccess(out[t]) /\ c.dry]
    ELSE None

RoundWritesAny(t) == RoundCalls(t)
RoundWrites(t) == {c \in RoundCalls(t) : c.tool \in WriteTools}

\* The pending write the turn leaves, from the one it read at its start.
NextPending(t) ==
    IF RoundWrites(t) # {} THEN {PendingAfter(t, c) : c \in RoundWrites(t)}
    ELSE {IF Cancels(msg[t]) THEN None ELSE biz[t]}

Armed(p) == p # None /\ p.ok

\* update_business_state: load the session, then write it back.
UpdateLoad(t) ==
    /\ pc[t] = "update"
    /\ \E s \in Loaded : copy' = [copy EXCEPT ![t] = s]
    /\ pc' = [pc EXCEPT ![t] = "store"]
    /\ UNCHANGED <<session, msg, hist, biz, route, calls, out, ghostVars>>

\* The turn is over and its local state gone.
Leave(t) ==
    /\ pc' = [pc EXCEPT ![t] = "done"]
    /\ msg' = [msg EXCEPT ![t] = Silence]
    /\ hist' = [hist EXCEPT ![t] = <<>>]
    /\ biz' = [biz EXCEPT ![t] = None]
    /\ route' = [route EXCEPT ![t] = "none"]
    /\ calls' = [calls EXCEPT ![t] = {}]
    /\ out' = [out EXCEPT ![t] = "none"]
    /\ copy' = [copy EXCEPT ![t] = NoSession]

\* A turn appends to the history when it did not fail and has a reply.
Appends(t) == out[t] = "ok"

Continue(t, next) ==
    /\ pc' = [pc EXCEPT ![t] = next]
    /\ UNCHANGED <<msg, hist, biz, route, calls, out, copy>>

\* The turn itself records a successful preview of r.
Arms(t, r) ==
    ResultSuccess(out[t]) /\ \E c \in RoundWrites(t) : c.dry /\ c.req = r

\* A save that fails is only logged.
UpdateStore(t) ==
    /\ pc[t] = "store"
    /\ \/ /\ \E p \in NextPending(t) :
                session' = [messages |-> copy[t].messages, pending |-> p]
          /\ arms' = [r \in Requests |-> IF Arms(t, r) THEN arms[r] + 1 ELSE arms[r]]
       \/ StoreFails /\ UNCHANGED <<session, arms>>
    /\ IF Appends(t) THEN Continue(t, "append") ELSE Leave(t)
    /\ UNCHANGED <<asked, spent, previewed, writes>>

\* add_messages: load, append the exchange, keep the newest, write back.
AppendLoad(t) ==
    /\ pc[t] = "append"
    /\ \E s \in Loaded : copy' = [copy EXCEPT ![t] = s]
    /\ pc' = [pc EXCEPT ![t] = "storeHistory"]
    /\ UNCHANGED <<session, msg, hist, biz, route, calls, out, ghostVars>>

Trimmed(h) == IF Len(h) > MaxHistory THEN SubSeq(h, Len(h) - MaxHistory + 1, Len(h)) ELSE h

AppendStore(t) ==
    /\ pc[t] = "storeHistory"
    /\ \E bad \in BOOLEAN :
         LET grown == Append(copy[t].messages, [msg |-> msg[t], bad |-> bad])
         IN  \/ session' = [messages |-> Trimmed(grown), pending |-> copy[t].pending]
             \/ StoreFails /\ UNCHANGED session
    /\ Leave(t)
    /\ UNCHANGED ghostVars

-----------------------------------------------------------------------------
(* The client and the clock.                                               *)

\* The calls that may be running in the turn.
InFlight(t) ==
    IF pc[t] # "execute" THEN {{}}
    ELSE IF route[t] = "planner" THEN SUBSET PlannerCalls(msg[t])
    ELSE {calls[t]}

\* The client drops the stream while the graph runs: the generator is closed,
\* no result and no reply is recorded, and the tools in flight may have written.
CutShort(t) ==
    /\ Disconnects
    /\ \/ pc[t] \in {"route", "execute"}
       \/ pc[t] = "update" /\ route[t] \in {"clarify", "text"}
    /\ \E cs \in InFlight(t) : \E landed \in SUBSET RealWrites(cs) :
         Send(t, landed, landed, FALSE)
    /\ out' = [out EXCEPT ![t] = "cut"]
    /\ pc' = [pc EXCEPT ![t] = "update"]
    /\ UNCHANGED <<session, msg, hist, biz, route, calls, copy, asked, arms, previewed>>

\* The cancellation also interrupts the awaits of the finally block; the end
\* of the process does the same to a turn.
Abandon(t) ==
    /\ Disconnects
    /\ pc[t] \in {"business", "route", "update", "store", "append", "storeHistory"}
    /\ Leave(t)
    /\ UNCHANGED <<session, ghostVars>>

\* The key expires (TTL), or clear_session deletes it, between turns.
Expire ==
    /\ session # NoSession
    /\ \A t \in Turns : ~Active(t)
    /\ session' = NoSession
    /\ UNCHANGED <<turnVars, ghostVars>>

Step(t) ==
    \/ Begin(t) \/ LoadBusiness(t)
    \/ RouteForced(t) \/ RouteModel(t) \/ RouteClassifier(t)
    \/ ExecuteTool(t) \/ ExecutePlan(t)
    \/ UpdateLoad(t) \/ UpdateStore(t) \/ AppendLoad(t) \/ AppendStore(t)
    \/ CutShort(t) \/ Abandon(t)

Next == Expire \/ \E t \in Turns : Step(t)

Spec == Init /\ [][Next]_vars

-----------------------------------------------------------------------------
\* Every variable has its type; the stored history never exceeds its bound.
TypeOK ==
    /\ session \in Sessions
    /\ pc \in [Turns -> PCs]
    /\ msg \in [Turns -> Messages]
    /\ hist \in [Turns -> Seq(Exchanges)]
    /\ biz \in [Turns -> PendingWrites \cup {None}]
    /\ route \in [Turns -> Routes]
    /\ calls \in [Turns -> SUBSET Calls]
    /\ out \in [Turns -> Outcomes]
    /\ copy \in [Turns -> Sessions]
    /\ asked \in [Requests -> Nat]
    /\ arms \in [Requests -> Nat]
    /\ spent \in [Requests -> Nat]
    /\ previewed \subseteq Requests
    /\ writes \subseteq Writes

\* Every recorded preview of a request licenses at most one attempt to write
\* it: a confirmation consumes the pending write whatever the attempt's
\* outcome (success, failure or unknown), and only a new preview renews it.
SpentWithinArmed == \A r \in Requests : spent[r] <= arms[r]

\* The gate on batch writes: only a turn whose message is an explicit
\* confirmation writes a batch; a dry_run=false of the model is not enough.
BatchWriteOnlyOnConfirmation ==
    \A w \in writes : w.call.tool = "batch_save_workhour" => w.kind = "confirm"

\* A turn that cancels never writes, whatever is pending or was mentioned.
CancelNeverWrites == \A w \in writes : w.kind # "cancel"

\* With no earlier message to rest on, a turn writes a single record only if
\* it asked for a preview of it: a confirmation or a bare save is refused even
\* when a pending write survived the loss of the history.
ColdSaveRefused ==
    \A w \in writes : w.call.tool = "save_workhour" /\ w.cold => w.words = "preview"

\* A confirmed pending write is the call that was previewed: a preview of the
\* same request ran before.
PendingWriteWasPreviewed ==
    \A w \in writes : w.call.basis = "pending" => w.call.req \in previewed

\* Confirming again does not write again: a batch that was written when its
\* preview was confirmed is not written once more from the text of the history
\* (langgraph_agent.py:453), unless a message has asked for it again.
ConfirmedOnce ==
    \A v, w \in writes :
        /\ v.call.tool = "batch_save_workhour" /\ w.call.tool = "batch_save_workhour"
        /\ v.call.req = w.call.req /\ v.ask = w.ask
        /\ v.sure /\ w.sure
        => ~(v.call.basis = "pending" /\ w.call.basis = "history")

\* Between its preview and its confirmation an armed write is not lost or
\* changed by a turn about something else: only the key's expiry, a
\* cancellation or a turn that names a write tool touches it.
ArmedWriteKept ==
    [][Armed(session.pending) /\ session'.pending # session.pending =>
         \/ session' = NoSession /\ \A t \in Turns : ~Active(t)
         \/ \E t \in Turns :
              /\ pc[t] = "store"
              /\ \/ msg[t].kind = "cancel"
                 \/ \E c \in RoundCalls(t) : c.tool \in WriteTools]_session

-----------------------------------------------------------------------------
(* The session implements the licence: the licence is the armed pending    *)
(* write, unless the turn that has just tried it has yet to record so.     *)

Tried(t) ==
    /\ pc[t] \in {"update", "store"}
    /\ route[t] = "direct"
    /\ \E c \in RealWrites(calls[t]) : c.basis = "pending"

Licence ==
    IF Armed(session.pending) /\ ~\E t \in Turns : Tried(t)
    THEN session.pending.req ELSE None

L == INSTANCE WriteLicence WITH licence <- Licence, granted <- arms, used <- spent

\* The confirmation protocol keeps the promise of WriteLicence.
LicenceSpec == L!Spec
=============================================================================
