---------------------------- MODULE ContextWindow ----------------------------
(***************************************************************************)
(* What the model is shown when it chooses a tool (node_llm_with_tools):   *)
(* the system prompt, the earlier messages of the session, the question,   *)
(* and of each round of the knowledge-base loop the call and its result,   *)
(* cut down to what the context holds.  Messages are long or short.        *)
(***************************************************************************)
EXTENDS Naturals, Sequences, SequencesExt

CONSTANTS
    MaxTurns,       \* bound: earlier messages of the session
    MaxRounds,      \* AGENT_MAX_ITERATIONS
    Budget          \* how many long messages the estimate of tokens allows

VARIABLES
    at,
    messages,       \* conversation_history, and the rounds
    rounds,         \* agent_history, by its length
    window          \* the messages of the last call of the model

vars == <<at, messages, rounds, window>>

Message(role, n, long) == [role |-> role, n |-> n, long |-> long]
System == Message("system", 0, FALSE)
Question == Message("question", 0, FALSE)

Newest(s, k) == SubSeq(s, IF Len(s) > k THEN Len(s) - k + 1 ELSE 1, Len(s))

\* By their number: the system prompt and the last eight.
\* (In the mutant, the last seven.)
ByNumberMut(ms) == IF Len(ms) > 9 THEN <<ms[1]>> \o Newest(ms, 7) ELSE ms
ByNumber(ms) == IF Len(ms) > 9 THEN <<ms[1]>> \o Newest(ms, 8) ELSE ms

\* By their length: the system prompt, put first once more, and the last four.
TooLong(ms) == Len(SelectSeq(ms, LAMBDA m : m.long)) > Budget
ByLength(ms) == IF TooLong(ms) THEN <<ms[1]>> \o Newest(ms, 4) ELSE ms

Window(ms) == ByLength(ByNumber(ms))

\* build_messages_with_history
Init ==
    /\ at = "choosing"
    /\ \E k \in 0..MaxTurns : \E long \in [1..k -> BOOLEAN] :
         messages = <<System>> \o [i \in 1..k |-> Message("turn", i, long[i])] \o <<Question>>
    /\ rounds = 0
    /\ window = <<>>

\* The model is asked again until it answers or the rounds are used up.
Choose ==
    /\ at = "choosing"
    /\ window' = Window(messages)
    /\ at' \in {"calling", "answered"}
    /\ UNCHANGED <<messages, rounds>>

\* _append_agent_history: a result is cut off at 8000 characters.
Observe ==
    /\ at = "calling"
    /\ rounds' = rounds + 1
    /\ \E long \in BOOLEAN :
         messages' = messages \o <<Message("call", rounds', FALSE), Message("result", rounds', long)>>
    /\ at' = IF rounds' = MaxRounds THEN "answered" ELSE "choosing"
    /\ UNCHANGED window

Next == Choose \/ Observe

Spec == Init /\ [][Next]_vars

-----------------------------------------------------------------------------
\* However a context is cut, no result is shown without the call it answers,
\* which the interface of the model refuses, no call without its result, and
\* the newest message is shown last.
PairsWhole ==
    /\ \A i \in DOMAIN window :
         /\ window[i].role = "result" => i > 1 /\ window[i - 1] = Message("call", window[i].n, FALSE)
         /\ window[i].role = "call" => i < Len(window) /\ window[i + 1].role = "result"
    /\ at = "calling" => Last(window) = Last(messages)

\* langgraph_agent.py:1222 and 1232: the current message is kept when the
\* context is cut ("+ 当前消息").
QuestionShown == window # <<>> => \E i \in DOMAIN window : window[i] = Question
=============================================================================
