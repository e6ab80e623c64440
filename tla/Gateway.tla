------------------------------ MODULE Gateway ------------------------------
(***************************************************************************)
(* A workhour tool called from outside the chat: by the HTTP gateway, by a *)
(* stdio MCP server, or by an internal script.  The first two exchange an  *)
(* entity id for a token, which they cache (_gateway_core.py and           *)
(* _service_account.py).  The call goes to the internal endpoint of the AI *)
(* service (internal_tools.py), which runs the tool (save_workhour.py)     *)
(* whether or not the caller is still waiting; the tool posts to the       *)
(* backend, which may commit what it is sent before, or without, an        *)
(* answer.  Tools of the registry are always found.                        *)
(***************************************************************************)
EXTENDS Naturals

CONSTANTS
    Calls,          \* the calls that are made
    Entities,       \* the ids that callers declare
    Offered,        \* the requests they may make
    WriteTools,     \* the tools registered with is_write
    Whitelist,      \* INTERNAL_WRITE_TOOLS
    None,           \* no token cached
    MaxTokens       \* bound: tokens issued to one entity

Vias == {"gateway", "stdio", "script"}
Dries == {"absent", "true", "false"}

ASSUME WhitelistAssumption == Whitelist \subseteq WriteTools
ASSUME OfferedAssumption ==
    \A r \in Offered : r.via \in Vias /\ r.entity \in Entities /\ r.dry \in Dries
ASSUME TokensAssumption ==
    MaxTokens \in Nat /\ None \notin Entities \X (1..MaxTokens)

Tokens == Entities \X (1..MaxTokens)

VARIABLES
    at,         \* where the caller's side of each call is
    req,        \* its request
    token,      \* the token it was sent with
    resent,     \* whether the gateway has sent it again
    cache,      \* the token cached per server and entity
    issued,     \* how many tokens each entity was issued
    revoked,    \* the tokens the backend no longer accepts
    stage,      \* where the endpoint and the tool are with the call
    result,     \* what the endpoint answers
    reply,      \* what the caller's user is told
    posts,      \* how often the tool posted the record
    landed,     \* ghost: how often the backend committed it
    audit,      \* the lines of the audit log
    refused     \* ghost: the tokens a call was refused for

callerVars == <<at, req, token, resent, reply>>
tokenVars == <<cache, issued, revoked>>
toolVars == <<stage, result, posts, audit, refused>>
vars == <<callerVars, tokenVars, toolVars, landed>>

Places == {"identify", "fetching", "forward", "waiting", "done"}
Stages == {"none", "sent", "running", "posting", "answered"}
Results == {"none", "preview", "ok", "fail", "unknown", "blocked", "raised"}
Replies == {"none", "preview", "ok", "fail", "unknown", "error", "identity"}
Audits == [call : Calls, phase : {"blocked", "attempt", "result"},
           dry : BOOLEAN, success : BOOLEAN]

Init ==
    /\ at = [c \in Calls |-> "identify"]
    /\ req \in [Calls -> Offered]
    /\ token = [c \in Calls |-> None]
    /\ resent = [c \in Calls |-> FALSE]
    /\ cache = [s \in Vias \X Entities |-> None]
    /\ issued = [e \in Entities |-> 0]
    /\ revoked = {}
    /\ stage = [c \in Calls |-> "none"]
    /\ result = [c \in Calls |-> "none"]
    /\ reply = [c \in Calls |-> "none"]
    /\ posts = [c \in Calls |-> 0]
    /\ landed = [c \in Calls |-> 0]
    /\ audit = {}
    /\ refused = {}

-----------------------------------------------------------------------------
(* The caller: identity and forwarding.                                    *)

\* Where the token of a call is cached: _TOKEN_CACHE, or the globals of the
\* stdio server of the entity.
SlotMut(c) == <<req[c].via, CHOOSE e \in Entities : TRUE>>
Slot(c) == <<req[c].via, req[c].entity>>

Cached(c) == req[c].via # "script" /\ cache[Slot(c)] # None

\* resolve_identity and ensure_auth; a script brings a token of its own.
Identify(c) ==
    /\ at[c] = "identify"
    /\ IF Cached(c)
       THEN /\ token' = [token EXCEPT ![c] = cache[Slot(c)]]
            /\ at' = [at EXCEPT ![c] = "forward"]
       ELSE /\ at' = [at EXCEPT ![c] = "fetching"]
            /\ UNCHANGED token
    /\ UNCHANGED <<req, resent, reply, tokenVars, toolVars, landed>>

\* fetch_service_account_token answers with a new token, which is cached.
Fetched(c) ==
    LET e == req[c].entity
        t == <<e, issued[e] + 1>>
    IN  /\ at[c] = "fetching"
        /\ issued[e] < MaxTokens
        /\ issued' = [issued EXCEPT ![e] = @ + 1]
        /\ token' = [token EXCEPT ![c] = t]
        /\ cache' = IF req[c].via = "script" THEN cache ELSE [cache EXCEPT ![Slot(c)] = t]
        /\ at' = [at EXCEPT ![c] = "forward"]
        /\ UNCHANGED <<req, resent, reply, revoked, toolVars, landed>>

Tell(c, r) ==
    /\ at' = [at EXCEPT ![c] = "done"]
    /\ reply' = [reply EXCEPT ![c] = r]
    /\ UNCHANGED <<req, token, resent>>

FetchFails(c) ==
    /\ at[c] = "fetching"
    /\ Tell(c, "identity")
    /\ UNCHANGED <<tokenVars, toolVars, landed>>

Forward(c) ==
    /\ at[c] = "forward"
    /\ at' = [at EXCEPT ![c] = "waiting"]
    /\ stage' = [stage EXCEPT ![c] = "sent"]
    /\ result' = [result EXCEPT ![c] = "none"]
    /\ UNCHANGED <<req, token, resent, reply, tokenVars, posts, landed, audit, refused>>

\* The HTTP status of an answer: whatever the tool says is a 200, a refusal of
\* the backend to accept the token included.
Status(r) == IF r = "blocked" THEN 403 ELSE IF r = "raised" THEN 500 ELSE 200

\* The gateway fetches a new token and sends the call again, once, after a 401;
\* the endpoint as it is answers none.
Again(c) == req[c].via = "gateway" /\ ~resent[c]
ResendsMut(c) == Again(c) /\ (result[c] = "unknown" \/ Status(result[c]) = 401)
Resends(c) == Again(c) /\ Status(result[c]) = 401

\* What the user is told of an answer: an error status becomes an exception.
Told(r) == IF Status(r) = 200 THEN r ELSE "error"

Receive(c) ==
    /\ at[c] = "waiting"
    /\ stage[c] = "answered"
    /\ IF Resends(c)
       THEN /\ at' = [at EXCEPT ![c] = "identify"]
            /\ resent' = [resent EXCEPT ![c] = TRUE]
            /\ cache' = [cache EXCEPT ![Slot(c)] = None]
            /\ UNCHANGED <<req, token, reply>>
       ELSE Tell(c, Told(result[c])) /\ UNCHANGED cache
    /\ UNCHANGED <<issued, revoked, toolVars, landed>>

\* The caller's own timeout, or a transport error; the call may go on.
GiveUpNever(c) == FALSE
GiveUp(c) ==
    /\ at[c] = "waiting"
    /\ Tell(c, "error")
    /\ UNCHANGED <<tokenVars, toolVars, landed>>

-----------------------------------------------------------------------------
(* The endpoint and the tool.                                              *)

IsWrite(c) == req[c].tool \in WriteTools
AllowedMut(c) == TRUE
Allowed(c) == IsWrite(c) => req[c].tool \in Whitelist

\* A write is a preview unless dry_run is explicitly false.
DryRunMut(c) == IsWrite(c) /\ req[c].dry = "true"
DryRun(c) == IsWrite(c) /\ req[c].dry # "false"

Line(c, phase, ok) == [call |-> c, phase |-> phase, dry |-> DryRun(c), success |-> ok]
Logged(c, phase, ok) == audit' = IF IsWrite(c) THEN audit \cup {Line(c, phase, ok)} ELSE audit

\* The lines written when the call is allowed, before the tool runs.
LoggedFirstMut(c) == UNCHANGED audit
LoggedFirst(c) == Logged(c, "attempt", FALSE)

Answered(c, r) ==
    /\ stage' = [stage EXCEPT ![c] = "answered"]
    /\ result' = [result EXCEPT ![c] = r]

Enter(c) ==
    /\ stage[c] = "sent"
    /\ IF Allowed(c)
       THEN stage' = [stage EXCEPT ![c] = "running"] /\ LoggedFirst(c) /\ UNCHANGED result
       ELSE Answered(c, "blocked") /\ Logged(c, "blocked", FALSE)
    /\ UNCHANGED <<callerVars, tokenVars, posts, landed, refused>>

\* The tool returns; success is what it says of itself.
Return(c, r) == Answered(c, r) /\ Logged(c, "result", r \in {"ok", "preview"})

\* Parameters that do not pass, or a project that cannot be resolved.
Refuse(c) ==
    /\ stage[c] = "running"
    /\ Return(c, "fail")
    /\ refused' \in {refused, refused \cup ({token[c]} \cap revoked)}
    /\ UNCHANGED <<callerVars, tokenVars, posts, landed>>

\* An exception before the post, such as a duration that is no number.
Raise(c) ==
    /\ stage[c] = "running"
    /\ Return(c, "raised")
    /\ UNCHANGED <<callerVars, tokenVars, posts, landed, refused>>

\* The record is complete: a preview ends here, a read has its answer.
Resolve(c) ==
    /\ stage[c] = "running"
    /\ IF IsWrite(c) /\ ~DryRun(c)
       THEN /\ stage' = [stage EXCEPT ![c] = "posting"]
            /\ posts' = [posts EXCEPT ![c] = @ + 1]
            /\ UNCHANGED <<result, audit>>
       ELSE /\ Return(c, IF IsWrite(c) THEN "preview" ELSE "ok")
            /\ UNCHANGED posts
    /\ UNCHANGED <<callerVars, tokenVars, landed, refused>>

\* A 2xx answer without success=false in its body.
Accepted(c) ==
    /\ stage[c] = "posting"
    /\ landed[c] = posts[c]
    /\ Return(c, "ok")
    /\ UNCHANGED <<callerVars, tokenVars, posts, landed, refused>>

\* A 4xx answer, or success=false: nothing is written.  A token that is no
\* longer accepted is refused here, with a 401.
Rejected(c) ==
    /\ stage[c] = "posting"
    /\ landed[c] < posts[c]
    /\ Return(c, "fail")
    /\ refused' = refused \cup ({token[c]} \cap revoked)
    /\ UNCHANGED <<callerVars, tokenVars, posts, landed>>

\* A 5xx answer, a transport error, a timeout, an unreadable answer.
LostMut == "fail"
Lost == "unknown"
GaveUp(c) ==
    /\ stage[c] = "posting"
    /\ Return(c, Lost)
    /\ UNCHANGED <<callerVars, tokenVars, posts, landed, refused>>

-----------------------------------------------------------------------------
(* The backend and the clock.                                              *)

\* A post is committed while the tool waits for it, or after it was given up.
Commit(c) ==
    /\ stage[c] = "posting" \/ result[c] = "unknown"
    /\ landed[c] < posts[c]
    /\ token[c] \notin revoked
    /\ landed' = [landed EXCEPT ![c] = @ + 1]
    /\ UNCHANGED <<callerVars, tokenVars, toolVars>>

\* An entry of the gateway's cache passes its TTL; the stdio cache has none.
Expire(e) ==
    /\ cache[<<"gateway", e>>] # None
    /\ cache' = [cache EXCEPT ![<<"gateway", e>>] = None]
    /\ UNCHANGED <<callerVars, issued, revoked, toolVars, landed>>

\* A token runs out.
Revoke(t) ==
    /\ t[2] <= issued[t[1]]
    /\ t \notin revoked
    /\ revoked' = revoked \cup {t}
    /\ UNCHANGED <<callerVars, cache, issued, toolVars, landed>>

Caller(c) == Identify(c) \/ Fetched(c) \/ FetchFails(c) \/ Forward(c) \/ Receive(c) \/ GiveUp(c)
Tool(c) == Enter(c) \/ Refuse(c) \/ Raise(c) \/ Resolve(c)
             \/ Accepted(c) \/ Rejected(c) \/ GaveUp(c)

Next ==
    \/ \E c \in Calls : Caller(c) \/ Tool(c) \/ Commit(c)
    \/ \E e \in Entities : Expire(e)
    \/ \E t \in Tokens : Revoke(t)

\* A caller goes on: each of its requests ends in an answer or a timeout.
\* Nothing is assumed of the service or of the backend.
Spec == Init /\ [][Next]_vars /\ \A c \in Calls : WF_vars(Caller(c))

-----------------------------------------------------------------------------
\* Every variable has its type.
TypeOK ==
    /\ at \in [Calls -> Places]
    /\ req \in [Calls -> Offered]
    /\ token \in [Calls -> Tokens \cup {None}]
    /\ resent \in [Calls -> BOOLEAN]
    /\ cache \in [Vias \X Entities -> Tokens \cup {None}]
    /\ issued \in [Entities -> 0..MaxTokens]
    /\ revoked \subseteq Tokens
    /\ stage \in [Calls -> Stages]
    /\ result \in [Calls -> Results]
    /\ reply \in [Calls -> Replies]
    /\ posts \in [Calls -> Nat]
    /\ landed \in [Calls -> Nat]
    /\ audit \subseteq Audits
    /\ refused \subseteq Tokens

\* A call is written at most once, although the gateway may send it again and
\* the backend may commit what the tool has given up: only an answer that says
\* that the tool did not run is followed by a second post.
WrittenOnce == \A c \in Calls : landed[c] <= 1

\* The backend is only changed by a call of a listed tool that says so: the
\* endpoint turns every other write into a preview or refuses it.
OnlyExplicit ==
    \A c \in Calls : landed[c] > 0 => req[c].tool \in Whitelist /\ req[c].dry = "false"

\* A call is written in the name of the entity that made it: no interleaving of
\* cache, expiry and fetch hands it the token of another.
OwnIdentity == \A c \in Calls : landed[c] > 0 => token[c][1] = req[c].entity

\* What is written is what was asked for, by the one who asked.
AsAsked == OnlyExplicit /\ OwnIdentity

\* A write has been announced in the audit log before it takes effect, and one
\* that the log calls successful did.
AuditTrue ==
    \A c \in Calls :
        /\ landed[c] > 0 => [call |-> c, phase |-> "attempt", dry |-> FALSE, success |-> FALSE] \in audit
        /\ [call |-> c, phase |-> "result", dry |-> FALSE, success |-> TRUE] \in audit => landed[c] > 0

\* What the tool's user is told is true: success means that the record is in
\* the backend, a preview or a failure that it is not and will not be.  A
\* result that was lost on the way to the backend is reported as unknown.
ReplyTrue ==
    \A c \in Calls :
        /\ reply[c] = "ok" /\ IsWrite(c) => landed[c] > 0
        /\ reply[c] \in {"preview", "fail", "identity"} => landed[c] = 0 /\ stage[c] # "posting"

\* The gateway does not go on using a token that a call was refused for: it is
\* replaced by a new one.
RefusedTokenReplaced ==
    [][\A c \in Calls :
         req[c].via = "gateway" /\ at[c] = "forward" /\ at'[c] = "waiting" =>
            token[c] \notin refused]_vars

\* Every caller is told something.
EveryoneTold == \A c \in Calls : <>(at[c] = "done")
=============================================================================
