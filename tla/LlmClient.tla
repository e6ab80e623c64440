----------------------------- MODULE LlmClient -----------------------------
(***************************************************************************)
(* The calls to the language model (llm_client.py): a semaphore of the     *)
(* process, whose waiters are served in turn, around the retries of        *)
(* retry_util.py.  A call that streams holds its token only while it opens *)
(* the connection.  Callers may be cancelled, and so may the consumer of a *)
(* stream.  The content of an answer is left out, but for how many         *)
(* responses of the model a consumer got pieces of.                        *)
(***************************************************************************)
EXTENDS Naturals, Sequences, FiniteSets, SequencesExt

CONSTANTS
    Calls,
    Streams,        \* the calls that stream; the others wait for the whole answer
    Limit,          \* LLM_MAX_CONCURRENCY, where it is set to a limit
    MaxAttempts,    \* DEFAULT_MAX_ATTEMPTS
    MaxChunks       \* bound: pieces of one answer

VARIABLES
    limit,      \* Limit, or 0: none
    at,         \* where each call is
    queue,      \* the calls that wait for a token
    holding,    \* the calls that hold one
    attempts,   \* how often each call was sent
    open,       \* ghost: how many sessions a call has opened and not closed
    got,        \* pieces of the answer its consumer received
    from        \* ghost: the attempts these pieces came from

vars == <<limit, at, queue, holding, attempts, open, got, from>>

Over == {"answered", "failed", "cancelled"}
Places == {"idle", "queued", "sending", "backoff", "reading"} \cup Over

Init ==
    /\ limit \in {0, Limit}
    /\ at = [c \in Calls |-> "idle"]
    /\ queue = <<>>
    /\ holding = {}
    /\ attempts = [c \in Calls |-> 0]
    /\ open = [c \in Calls |-> 0]
    /\ got = [c \in Calls |-> 0]
    /\ from = [c \in Calls |-> {}]

Goto(c, place) == at' = [at EXCEPT ![c] = place]

\* A new session for the next attempt.
Send(c) ==
    /\ attempts' = [attempts EXCEPT ![c] = @ + 1]
    /\ open' = [open EXCEPT ![c] = @ + 1]
    /\ Goto(c, "sending")

\* The end of a call or of its attempt, with the session closed or forgotten.
Close(c, closed) == open' = [open EXCEPT ![c] = IF closed THEN @ - 1 ELSE @]
EndMut(c, place) == Goto(c, place) /\ UNCHANGED holding
End(c, place) ==
    /\ Goto(c, place)
    /\ holding' = holding \ {c}

-----------------------------------------------------------------------------
\* Without a key nothing is sent.
NoKey(c) ==
    /\ at[c] = "idle"
    /\ Goto(c, "failed")
    /\ UNCHANGED <<limit, queue, holding, attempts, open, got, from>>

\* _limited_retry: without a limit the call is sent at once.
Enter(c) ==
    /\ at[c] = "idle"
    /\ IF limit = 0
         THEN Send(c) /\ UNCHANGED queue
         ELSE /\ queue' = Append(queue, c)
              /\ Goto(c, "queued")
              /\ UNCHANGED <<attempts, open>>
    /\ UNCHANGED <<limit, holding, got, from>>

Acquire(c) ==
    /\ at[c] = "queued" /\ Head(queue) = c
    /\ Cardinality(holding) < limit
    /\ queue' = Tail(queue)
    /\ holding' = holding \cup {c}
    /\ Send(c)
    /\ UNCHANGED <<limit, got, from>>

\* A status of 200: a stream gives its token back and reads on.
Succeed(c) ==
    /\ at[c] = "sending"
    /\ IF c \in Streams
         THEN End(c, "reading") /\ UNCHANGED <<open, got, from>>
         ELSE /\ End(c, "answered")
              /\ Close(c, TRUE)
              /\ got' = [got EXCEPT ![c] = 1]
              /\ from' = [from EXCEPT ![c] = @ \cup {attempts[c]}]
    /\ UNCHANGED <<limit, queue, attempts>>

\* A network error, a timeout or a 5xx: again, up to the last attempt.  The
\* session of a stream that runs into the timeout while it opens is not closed.
Transient(c) ==
    /\ at[c] = "sending"
    /\ \E closed \in {TRUE, c \notin Streams} : Close(c, closed)
    /\ IF attempts[c] < MaxAttempts
         THEN Goto(c, "backoff") /\ UNCHANGED holding
         ELSE End(c, "failed")
    /\ UNCHANGED <<limit, queue, attempts, got, from>>

\* A 4xx, an answer that cannot be read, or an error text that breaks off.
Permanent(c) ==
    /\ at[c] = "sending"
    /\ \E closed \in {TRUE, c \notin Streams} : Close(c, closed)
    /\ End(c, "failed")
    /\ UNCHANGED <<limit, queue, attempts, got, from>>

Resend(c) ==
    /\ at[c] = "backoff"
    /\ Send(c)
    /\ UNCHANGED <<limit, queue, holding, got, from>>

\* A line of the stream that is not a piece of the answer is skipped.
Chunk(c) ==
    /\ at[c] = "reading"
    /\ got[c] < MaxChunks
    /\ got' = [got EXCEPT ![c] = @ + 1]
    /\ from' = [from EXCEPT ![c] = @ \cup {attempts[c]}]
    /\ UNCHANGED <<limit, at, queue, holding, attempts, open>>

\* Mutant: an error in the stream is tried again.
EndStreamMut(c) ==
    /\ at[c] = "reading"
    /\ \E place \in {"answered", "backoff"} : Goto(c, place)
    /\ Close(c, TRUE)
    /\ UNCHANGED <<limit, queue, holding, attempts, got, from>>

\* The end of the stream, or an error in it, which is not tried again.
EndStream(c) ==
    /\ at[c] = "reading"
    /\ \E place \in {"answered", "failed"} : Goto(c, place)
    /\ Close(c, TRUE)
    /\ UNCHANGED <<limit, queue, holding, attempts, got, from>>

WithoutMut(c) == queue
Without(c) == SelectSeq(queue, LAMBDA d : d # c)

\* The caller is cancelled: where it waits for a token, an answer or the next
\* attempt, or between two pieces of the stream.
Cancel(c) ==
    /\ at[c] \in Places \ ({"idle"} \cup Over)
    /\ End(c, "cancelled")
    /\ queue' = Without(c)
    /\ IF at[c] \in {"queued", "backoff"} THEN UNCHANGED open
       ELSE Close(c, at[c] = "reading" \/ c \notin Streams)
    /\ UNCHANGED <<limit, attempts, got, from>>

Serve(c) ==
    Acquire(c) \/ Succeed(c) \/ Transient(c) \/ Permanent(c) \/ Resend(c) \/ EndStream(c)

Next == \E c \in Calls : NoKey(c) \/ Enter(c) \/ Serve(c) \/ Chunk(c) \/ Cancel(c)

\* Each request ends, in an answer or in aiohttp's timeout, each pause too, and
\* a consumer reads its stream to the end.
Fairness == \A c \in Calls : WF_vars(Serve(c))

Spec == Init /\ [][Next]_vars /\ Fairness

-----------------------------------------------------------------------------
(* Properties.                                                             *)

\* A token is held by the calls that are being sent or pause between two
\* attempts, at most Limit of them, and by no call that is over: none is lost
\* by a failure or a cancellation (_limited_retry).
TokensReturned ==
    limit > 0 =>
        /\ holding = {c \in Calls : at[c] \in {"sending", "backoff"}}
        /\ Cardinality(holding) <= limit

\* What a consumer gets of an answer comes from one response, the last that was
\* asked for: a stream that has begun is never begun again (stream_generate).
OneResponse == \A c \in Calls : from[c] \subseteq {attempts[c]} /\ attempts[c] <= MaxAttempts

\* Each call that was made is over in the end: it does not wait for a token for
\* ever, however many are cancelled or fail while it waits.
EveryCallEnds == \A c \in Calls : at[c] = "queued" ~> at[c] \in Over

\* llm_client.py:43: the number of calls in flight at the same time is limited.
InFlightLimited ==
    limit > 0 => Cardinality({c \in Calls : at[c] \in {"sending", "reading"}}) <= limit
=============================================================================
