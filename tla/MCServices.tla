----------------------------- MODULE MCServices -----------------------------
(***************************************************************************)
(* The services the agent leans on, for TLC: the vector collection at      *)
(* startup, the memories of a user, the resolvers, the streamed answer and *)
(* the client of the language model.  They share no state, so one of them  *)
(* runs at a time, "part", while the others stay as they began: this loses *)
(* none of the behaviours of each.                                         *)
(***************************************************************************)
EXTENDS Services, TLC

CONSTANTS v1, v2, r1, r2, r3, m1, m2, u1, u2, n1, n2, p1, p2, e1

VARIABLE part

memory == <<hash, index, remembering, mine, todo, read, gone, before, alone>>
resolvers == <<found, booked, known, suggested, asks, resolving, answer, ever, changes>>
stream == <<streaming, buffer, inside, emitted, fed, shown, items>>
llm == <<limit, calling, queue, holding, attempts, open, got, from>>
services == <<part, vars, memory, resolvers, stream, llm>>

\* Values of the constants that are functions or records.
ImportanceOf == (m1 :> 1) @@ (m2 :> 2)
WithoutLast == (n1 :> n2) @@ (n2 :> None)
HitsOf == (<<"project", n1>> :> {}) @@ (<<"project", n2>> :> {p2})
            @@ (<<"member", n1>> :> {e1}) @@ (<<"member", n2>> :> {})
ScoreOf == (n1 :> ((p1 :> 1) @@ (p2 :> 0))) @@ (n2 :> ((p1 :> 0) @@ (p2 :> 0)))
BookingSet == {[user |-> u1, project |-> p1, type |-> "ops", hours |-> 4]}

Parts == {"startup", "memory", "resolvers", "stream", "llm"}

ServicesInit ==
    /\ part \in Parts
    /\ Init
    /\ Memory!Init /\ (part # "memory" => alone /\ index = {})
    /\ Resolving!Init /\ (part # "resolvers" => booked = {} /\ \A k \in Resolving!NameKeys : found[k] = None)
    /\ Stream!Init
    /\ Llm!Init /\ (part # "llm" => limit = 0)

\* A step of one part; the others stay.
Startup(A) == part = "startup" /\ A /\ UNCHANGED <<part, memory, resolvers, stream, llm>>
Remembers(A) == part = "memory" /\ A /\ UNCHANGED <<part, vars, resolvers, stream, llm>>
Resolves(A) == part = "resolvers" /\ A /\ UNCHANGED <<part, vars, memory, stream, llm>>
Shows(A) == part = "stream" /\ A /\ UNCHANGED <<part, vars, memory, resolvers, llm>>
CallsLlm(A) == part = "llm" /\ A /\ UNCHANGED <<part, vars, memory, resolvers, stream>>

ServicesNext ==
    \/ Startup(Next)
    \/ Remembers(Memory!Next)
    \/ Resolves(Resolving!Next)
    \/ Shows(Stream!Next)
    \/ CallsLlm(Llm!Next)

\* The fairness of RagStartup and of LlmClient.
ServicesSpec ==
    /\ ServicesInit /\ [][ServicesNext]_services
    /\ \A w \in Workers : /\ WF_services(Startup(Runs(w)))
                         /\ WF_services(Startup(Acquire(w)))
                         /\ WF_services(Startup(Respawn(w)))
    /\ \A c \in LlmCalls : WF_services(CallsLlm(Llm!Serve(c)))

-----------------------------------------------------------------------------
\* Each worker settles (RagStartup), where the workers run at all.
WorkersSettle == part = "startup" => Settles

\* No call waits for a token for ever (LlmClient).
EveryCallEnds == Llm!EveryCallEnds
=============================================================================
