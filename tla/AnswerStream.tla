---------------------------- MODULE AnswerStream ----------------------------
(***************************************************************************)
(* One streamed answer from the knowledge base: stream_query of            *)
(* langchain_rag.py with the filter of reasoning_filter.py that keeps the  *)
(* model's reasoning out of it.  A character stands for itself or for a    *)
(* part of a tag: "t" for think and "/" for </think, so that the tags are  *)
(* <t> and />.  " " is white space; letters are taken in lower case.       *)
(***************************************************************************)
EXTENDS Naturals, Sequences, SequencesExt

CONSTANTS
    MaxText,    \* bound: characters of one answer
    MaxPiece    \* bound: characters of one piece of it

Chars == {"<", "t", "/", ">", " "}
Texts == Seq(Chars)
OPEN == <<"<", "t", ">">>
CLOSE == <<"/", ">">>
FALLBACK == <<"!">>      \* REASONING_FILTER_FALLBACK

VARIABLES
    at,         \* where the query is
    buffer,     \* the filter: what is held back
    inside,     \* the filter: whether reasoning is being read
    emitted,    \* whether anything visible was sent
    fed,        \* ghost: the text of the model so far
    shown,      \* ghost: what was sent of it
    items       \* the items yielded, but for their text

vars == <<at, buffer, inside, emitted, fed, shown, items>>

Init ==
    /\ at = "called"
    /\ buffer = <<>>
    /\ inside = FALSE
    /\ emitted = FALSE
    /\ fed = <<>>
    /\ shown = <<>>
    /\ items = {}

-----------------------------------------------------------------------------
(* ReasoningTraceStreamFilter                                              *)

Drop(s, n) == SubSeq(s, n + 1, Len(s))
Take(s, n) == SubSeq(s, 1, n)

\* Where the token starts for the first time, 0 if it does not.
Find(s, token) ==
    LET places == {i \in 1..Len(s) : i + Len(token) - 1 <= Len(s)
                                       /\ SubSeq(s, i, i + Len(token) - 1) = token}
    IN IF places = {} THEN 0 ELSE CHOOSE i \in places : \A j \in places : i <= j

PendingMut(s, token) == 0

\* _suffix_prefix_length: the longest end of s that may become the token.
Pending(s, token) ==
    LET lengths == {n \in 0..(Len(token) - 1) : n <= Len(s) /\ Drop(s, Len(s) - n) = Take(token, n)}
    IN CHOOSE n \in lengths : \A k \in lengths : k <= n

\* feed: the buffer and the mode that are left, and what becomes visible.
Feed[s \in Texts] ==
    [in \in BOOLEAN |->
       LET token == IF in THEN CLOSE ELSE OPEN
           i == Find(s, token)
           n == Pending(s, token)
           rest == Feed[Drop(s, i + Len(token) - 1)][~in]
       IN IF i > 0
          THEN [rest EXCEPT !.visible = (IF in THEN <<>> ELSE Take(s, i - 1)) \o @]
          ELSE [buffer |-> Drop(s, Len(s) - n), inside |-> in,
                visible |-> IF in THEN <<>> ELSE Take(s, Len(s) - n)]]

\* finish
LeftMut == buffer
Left == IF inside THEN <<>> ELSE buffer

-----------------------------------------------------------------------------
(* stream_query                                                            *)

Yield(item) == items' = items \cup {item}

Uninitialised ==
    /\ at = "called"
    /\ Yield("error")
    /\ at' = "ended"
    /\ UNCHANGED <<buffer, inside, emitted, fed, shown>>

Retrieve ==
    /\ at = "called"
    /\ Yield("retrieval")
    /\ at' = "retrieved"
    /\ UNCHANGED <<buffer, inside, emitted, fed, shown>>

\* Nothing was found; reranking may have left nothing, or failed and been skipped.
NothingFound ==
    /\ at = "retrieved"
    /\ items' = items \cup {"chunk", "done"}
    /\ at' = "ended"
    /\ UNCHANGED <<buffer, inside, emitted, fed, shown>>

Generate ==
    /\ at = "retrieved"
    /\ at' = "generating"
    /\ UNCHANGED <<buffer, inside, emitted, fed, shown, items>>

\* The model sends a piece of its answer.
Receive ==
    /\ at = "generating"
    /\ \E n \in 1..MaxPiece : \E chunk \in [1..n -> Chars] :
         LET f == Feed[buffer \o chunk][inside] IN
         /\ Len(fed) + n <= MaxText
         /\ fed' = fed \o chunk
         /\ buffer' = f.buffer
         /\ inside' = f.inside
         /\ shown' = shown \o f.visible
         /\ emitted' = (emitted \/ f.visible # <<>>)
         /\ items' = IF f.visible # <<>> THEN items \cup {"chunk"} ELSE items
    /\ UNCHANGED at

\* The end of the answer: what was held back, or that there was nothing to show.
Finish ==
    /\ at = "generating"
    /\ shown' = IF emitted \/ Left # <<>> THEN shown \o Left ELSE FALLBACK
    /\ buffer' = <<>>
    /\ items' = items \cup {"chunk", "done"}
    /\ emitted' = TRUE
    /\ at' = "ended"
    /\ UNCHANGED <<inside, fed>>

\* Retrieval or generation fails.
Fails ==
    /\ at \in {"retrieved", "generating"}
    /\ Yield("error")
    /\ at' = "ended"
    /\ UNCHANGED <<buffer, inside, emitted, fed, shown>>

Next == Uninitialised \/ Retrieve \/ NothingFound \/ Generate \/ Receive \/ Finish \/ Fails

Spec == Init /\ [][Next]_vars

-----------------------------------------------------------------------------
(* strip_reasoning_trace: what the query that does not stream does with    *)
(* the whole text, by patterns that allow more than the tags themselves.   *)

\* _THINK_OPEN_RE at i: the word, its end, anything but ">", and ">".
OpensAt(s, i) ==
    /\ s[i] = "<" /\ s[i + 1] = "t" /\ s[i + 2] # "t"
    /\ \E k \in (i + 2)..Len(s) : s[k] = ">"

\* </think\s*> from i to k.
Closes(s, i, k) ==
    /\ i < k
    /\ s[i] = "/" /\ s[k] = ">"
    /\ \A m \in (i + 1)..(k - 1) : s[m] = " "

Tags(s) == {i \in 1..(Len(s) - 2) : OpensAt(s, i)}
First(places) == CHOOSE i \in places : \A j \in places : i <= j
TagEnd(s, i) == First({k \in (i + 2)..Len(s) : s[k] = ">"})

\* Where the block that opens at i ends, if it does.
BlockEnds(s, i) ==
    {k \in TagEnd(s, i)..Len(s) : \E j \in (TagEnd(s, i) + 1)..Len(s) : Closes(s, j, k)}

\* The text without its closed blocks.
WithoutBlocks[s \in Texts] ==
    IF Tags(s) = {} \/ BlockEnds(s, First(Tags(s))) = {} THEN s
    ELSE LET i == First(Tags(s)) IN
         Take(s, i - 1) \o WithoutBlocks[Drop(s, First(BlockEnds(s, i)))]

\* str.strip
Strip(s) ==
    LET seen == {i \in 1..Len(s) : s[i] # " "} IN
    IF seen = {} THEN <<>> ELSE SubSeq(s, First(seen), CHOOSE i \in seen : \A j \in seen : j <= i)

\* Mutant: what a tag that is not closed begins is kept.
StripTraceMut(s) == Strip(WithoutBlocks[s])

StripTrace(s) ==
    LET cleaned == WithoutBlocks[s]
        open == IF Tags(cleaned) = {} THEN cleaned ELSE Take(cleaned, First(Tags(cleaned)) - 1)
    IN IF \A i \in 1..(Len(s) - 1) : ~(s[i] = "<" /\ s[i + 1] = "t") THEN s ELSE Strip(open)

\* query: the answer to a text of the model.
QueryAnswer(s) == IF StripTrace(s) = <<>> THEN FALLBACK ELSE StripTrace(s)

-----------------------------------------------------------------------------
(* Properties.                                                             *)

\* The model's answer was shown to its end, or the fallback in its place.
Answered == at = "ended" /\ "done" \in items /\ emitted

\* What the filter makes of a text in one piece.
Whole(s) == LET f == Feed[s][FALSE] IN f.visible \o (IF f.inside THEN <<>> ELSE f.buffer)

\* However the answer is cut into pieces, a tag across two of them included,
\* what is shown at any moment begins what the filter makes of the text so far
\* in one piece, and is that in the end (ReasoningTraceStreamFilter.feed).
CutsDoNotMatter ==
    /\ ~Answered => IsPrefix(shown, Whole(fed))
    /\ Answered => shown = IF Whole(fed) = <<>> THEN FALLBACK ELSE Whole(fed)

\* Every tag that the patterns of the query find is one that the filter of the
\* stream knows: without attributes, and without space before the ">".
Plain(s) ==
    /\ \A i \in Tags(s) : s[i + 2] = ">"
    /\ \A i, k \in 1..Len(s) : Closes(s, i, k) => k = i + 1

\* Taking a block out puts two halves of a tag together.
HalvesMeet(s) == Tags(Whole(s)) # {}

\* In a text whose tags are plain the stream has left out what the query that
\* does not stream leaves out, unless taking a block out there puts two halves
\* of a tag together; their answers differ in white space at the ends, which
\* alone is an answer of the stream only (strip_reasoning_trace).
AgreesWithQuery ==
    Answered /\ Plain(fed) /\ ~HalvesMeet(fed) =>
        \/ Strip(shown) = Strip(QueryAnswer(fed))
        \/ Strip(shown) = <<>> /\ QueryAnswer(fed) = FALLBACK
=============================================================================
