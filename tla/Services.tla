------------------------------ MODULE Services ------------------------------
(***************************************************************************)
(* The services the agent leans on, side by side: the vector collection at *)
(* startup (RagStartup, whose variables keep their names), the memories of *)
(* a user, the resolvers, the streamed answer and the client of the        *)
(* language model.  They share no state.  Each keeps its own               *)
(* specification; here are what they assume of their constants and what    *)
(* each of them promises.                                                  *)
(***************************************************************************)
EXTENDS RagStartup

CONSTANTS
    MemoryRequests, Memories, Importance, MaxMemories, RecallTop,
    Questions, Users, Names, Projects, Members, Shorter, Hits, Score,
    Bookings, Types, DefaultType, DefaultHours, SuggestTop, MaxUpdates,
    LlmCalls, Streams, Limit, MaxAttempts, MaxChunks,
    MaxText, MaxPiece

VARIABLES
    hash, index, remembering, mine, todo, read, gone, before, alone,
    found, booked, known, suggested, asks, resolving, answer, ever, changes,
    limit, calling, queue, holding, attempts, open, got, from,
    streaming, buffer, inside, emitted, fed, shown, items

Memory == INSTANCE UserMemory WITH
    Requests <- MemoryRequests, TopK <- RecallTop, at <- remembering, got <- read

Resolving == INSTANCE Resolvers WITH
    Requests <- Questions, TopK <- SuggestTop, MaxChanges <- MaxUpdates, at <- resolving

Llm == INSTANCE LlmClient WITH Calls <- LlmCalls, at <- calling

Stream == INSTANCE AnswerStream WITH at <- streaming

\* MAX_MEMORIES_PER_USER is a limit, and what is stored is finite.
ASSUME MemoryAssumption ==
    /\ IsFiniteSet(MemoryRequests)
    /\ IsFiniteSet(Memories)
    /\ MaxMemories \in Nat

\* A search of a kind finds ids of that kind; a booking names a project and a
\* type; the resolver suggests at least one project.
ASSUME ResolverAssumption ==
    /\ Shorter \in [Names -> Names \cup {None}]
    /\ \A n \in Names : Hits[<<"project", n>>] \subseteq Projects /\ Hits[<<"member", n>>] \subseteq Members
    /\ \A b \in Bookings : b.project \in Projects
    /\ IsFiniteSet(Bookings)
    /\ SuggestTop \in Nat \ {0}

\* At least one attempt is made (DEFAULT_MAX_ATTEMPTS).
ASSUME LlmAssumption ==
    /\ IsFiniteSet(LlmCalls)
    /\ Limit \in Nat
    /\ MaxAttempts \in Nat \ {0}

ASSUME TextAssumption == MaxText \in Nat /\ MaxPiece \in Nat

-----------------------------------------------------------------------------
(* Properties.                                                             *)

\* What was evicted or cleared stays forgotten, and requests that follow one
\* another keep the index at its limit (user_memory.py).
MemoriesRight == Memory!StaysForgotten /\ Memory!CapHeld

\* An id was found for the name it is told for, and a suggestion comes from the
\* user's own bookings, whatever the caches hold (the resolvers).
ResolvedRight == Resolving!NamesMatch /\ Resolving!OwnSuggestions

\* How the answer is cut into pieces does not matter, and where the tags are
\* plain the stream leaves out what the query leaves out (reasoning_filter.py).
ShownRight == Stream!CutsDoNotMatter /\ Stream!AgreesWithQuery

\* No token of the semaphore is lost, and an answer comes from one response
\* (llm_client.py).
CallsRight == Llm!TokensReturned /\ Llm!OneResponse
=============================================================================
