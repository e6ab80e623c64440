------------------------------- MODULE ChatReply -------------------------------
(***************************************************************************)
(* POST /chat (chat_non_stream): the handler reads the events of one turn, *)
(* which keep the order of TurnProtocol, and makes one answer and one line *)
(* of the log of them.  The n-th text of the stream is the number n.       *)
(***************************************************************************)
EXTENDS Naturals, Sequences

CONSTANT MaxEvents      \* bound: events between the start and done

VARIABLES
    phase, failed,      \* the stream (TurnProtocol)
    sent,               \* ghost: what was read of the stream
    reply,              \* final_response, as the texts it is made of
    status,
    intent,             \* what the events say so far
    answer,             \* the response of the handler
    log                 \* the lines logged

stream == <<phase, failed>>
vars == <<stream, sent, reply, status, intent, answer, log>>

Default == 0            \* 请求处理完成
NoAnswer == [success |-> FALSE, text |-> <<>>]

Turn == INSTANCE TurnProtocol

Init ==
    /\ Turn!Init
    /\ sent = <<>> /\ reply = <<>>
    /\ status = "success"
    /\ intent = "general_chat"
    /\ answer = NoAnswer /\ log = <<>>

\* An event with the n-th text of the stream; an empty text is none.
Event(type, text) == [type |-> type, text |-> text]
Read(e) == sent' = Append(sent, e)
Number == Len(sent) + 1

\* _accumulate_response_text
AccumulatedMut(text) == <<text>>
Accumulated(text) == IF text = Default THEN reply ELSE Append(reply, text)

Start ==
    /\ Turn!Open
    /\ UNCHANGED <<sent, reply, status, intent, answer, log>>

\* The first of these two kinds of events says what the turn is about.
Detects(type, what) ==
    /\ phase \in {"open", "answered"} /\ Len(sent) < MaxEvents
    /\ Read(Event(type, Default))
    /\ intent' = IF intent = "general_chat" THEN what ELSE intent
    /\ UNCHANGED <<stream, reply, status, answer, log>>
ToolCall == Detects("tool_call", "tool_execution")
Searching == Detects("thinking", "knowledge_qa")

\* A response with a message, a chunk or an old result, or with nothing in it.
Response ==
    /\ Turn!Answer /\ failed' = failed /\ Len(sent) < MaxEvents
    /\ \E text \in {Number, Default} :
         /\ Read(Event("response", text))
         /\ reply' = Accumulated(text)
    /\ UNCHANGED <<status, intent, answer, log>>

\* An error takes the place of what was said before it.
Error ==
    /\ Turn!Answer \/ Turn!Refuse
    /\ failed' /\ Len(sent) < MaxEvents
    /\ Read(Event("error", Number))
    /\ reply' = <<Number>>
    /\ status' = "error"
    /\ UNCHANGED <<intent, answer, log>>

Answers(success, text) ==
    /\ answer = NoAnswer /\ log = <<>>
    /\ answer' = [success |-> success, text |-> text]
    /\ log' = Append(log, [status |-> IF success THEN "success" ELSE "error", intent |-> intent])

\* The stream is done, or refused.
Finish ==
    /\ Turn!Finish \/ (phase = "refused" /\ UNCHANGED stream)
    /\ Answers(status # "error", IF reply = <<>> THEN <<Default>> ELSE reply)
    /\ UNCHANGED <<sent, reply, status, intent>>

\* An exception out of the stream: an answer without a message.
Raise ==
    /\ phase \in {"idle", "open", "answered"} /\ Turn!Leave
    /\ Answers(FALSE, <<>>)
    /\ status' = "error"
    /\ UNCHANGED <<sent, reply, intent>>

Next == Start \/ ToolCall \/ Searching \/ Response \/ Error \/ Finish \/ Raise

Spec == Init /\ [][Next]_vars

-----------------------------------------------------------------------------
\* Who waits for one answer is told what the stream told from its last error
\* on, every text once and in order, and is told of a success exactly if no
\* error was sent ("必须累积而非覆盖", chat.py:97-99).
Errors == {i \in DOMAIN sent : sent[i].type = "error"}
Since == {i \in DOMAIN sent : sent[i].text # Default /\ \A j \in Errors : j <= i}
ReplyWhole ==
    phase \in {"done", "refused"} /\ log # <<>> =>
        /\ answer.success <=> Errors = {}
        /\ IF Since = {} THEN answer.text = <<Default>>
           ELSE /\ Since = {answer.text[i] : i \in DOMAIN answer.text}
                /\ \A i, j \in DOMAIN answer.text : i < j => answer.text[i] < answer.text[j]
=============================================================================
