----------------------------- MODULE AgentTurn -----------------------------
(***************************************************************************)
(* One turn of the agent (langgraph_agent.py): the graph's nodes in the    *)
(* order its edges give, the events stream_agent_response sends for each,  *)
(* and what its finally block stores.  What a write needs before it may be *)
(* chosen is WriteConfirmation's subject, and how a plan runs is           *)
(* PlanExecution's: here a call is chosen freely and a plan runs in one    *)
(* step.  The chart event, the metrics and the trace are left out, and so  *)
(* is rag_strategy, which no node ever sets to "agent".                    *)
(***************************************************************************)
EXTENDS Naturals, Sequences, FiniteSets

CONSTANTS
    KbCalls,        \* calls of the knowledge-base tools: a tool and its arguments
    Business,       \* calls of the other tools, with their arguments as written
    Writes,         \* those of the write tools
    None,
    MaxIterations,  \* AGENT_MAX_ITERATIONS
    MaxChunks,      \* bound: chunks of a streamed answer
    MaxTasks        \* bound: tasks of one plan

ASSUME BoundsAssumption ==
    /\ MaxIterations \in Nat \ {0}
    /\ MaxChunks \in Nat
    /\ MaxTasks \in Nat

Calls == KbCalls \cup Business

ASSUME CallsAssumption ==
    /\ IsFiniteSet(Calls)
    /\ None \notin Calls
    /\ KbCalls \cap Business = {}
    /\ Writes \subseteq Business

\* Of the plan's sources only multi_tool_calls is told apart: "guarded" stands for
\* date_expansion and project_verification_guard, plans of several business calls.
Sources == {"multi_tool_calls", "guarded"}

\* A plan's tasks in their order; equal calls may stand in it.  The placeholders
\* a planner writes into its calls are PlanExecution's subject.
TaskLists == UNION {[1..n -> Calls] : n \in 1..MaxTasks}
Plans == [source : Sources, tasks : TaskLists]

GraphNodes == {"llm_with_tools", "execute_tool", "execute_rag", "execute_llm",
               "clarify_node", "plan_and_execute", "summarize"}
Finally == {"save_state", "save_messages", "save_memory", "write_log"}
Nodes == GraphNodes \cup Finally \cup {"called", "done", "ended"}

Texts == {"tool", "chunk", "rag", "llm", "clarify", "summary"}
Events == [type : {"start", "thinking", "tool_call", "response", "error", "done"},
           text : Texts \cup {"none"}]

VARIABLES
    node,       \* the node of the graph, or the part of the finally block, to run next
    ready,      \* whether initialize_agent has built the graph
    call,       \* AgentState: tool_name with tool_params
    plan,       \* AgentState: task_plan
    ran,        \* AgentState: whether plan_results is there to summarise
    history,    \* AgentState: agent_history; agent_iterations is its length
    chunks,     \* how many chunks of the answer were streamed
    executions, \* ghost: how often the executor ran each call
    events,     \* the events sent
    connected,  \* whether the client still reads them
    status,     \* log_status
    intent,     \* log_intent
    collected,  \* _collected_assistant_response, by where it came from
    round,      \* round_tool_name, round_tool_result and round_task_plan
    outcome,    \* stored: last_outcome of the business state
    lastPlan,   \* stored: last_plan of the business state
    saved,      \* stored: the assistant message added to the session
    logged      \* how many lines the conversation log got

graphVars == <<call, plan, ran, history, chunks, executions>>
streamVars == <<status, intent, collected, round>>
storeVars == <<outcome, lastPlan, saved, logged>>
vars == <<node, ready, graphVars, events, connected, streamVars, storeVars>>

Event(type, text) == [type |-> type, text |-> text]
Send(type, text) == events' = Append(events, Event(type, text))
Sent(type) == \E i \in DOMAIN events : events[i].type = type

Init ==
    /\ node = "called"
    /\ ready \in BOOLEAN
    /\ call = None
    /\ plan = None
    /\ ran = FALSE
    /\ history = <<>>
    /\ chunks = 0
    /\ executions = [c \in Calls |-> 0]
    /\ events = <<>>
    /\ connected = TRUE
    /\ status = "success"
    /\ intent = None
    /\ collected = None
    /\ round = [tool |-> None, result |-> "none", plan |-> None]
    /\ outcome = "none"
    /\ lastPlan = None
    /\ saved = None
    /\ logged = 0

-----------------------------------------------------------------------------
(* Before the graph runs.                                                  *)

Uninitialised ==
    /\ node = "called"
    /\ ~ready
    /\ Send("error", "none")
    /\ node' = "ended"
    /\ UNCHANGED <<ready, graphVars, connected, streamVars, storeVars>>

Start ==
    /\ node = "called"
    /\ ready
    /\ events' = <<Event("start", "none"), Event("thinking", "none")>>
    /\ node' = "llm_with_tools"
    /\ UNCHANGED <<ready, graphVars, connected, streamVars, storeVars>>

-----------------------------------------------------------------------------
(* llm_with_tools: what the model, the forced calls or, when the model     *)
(* cannot be reached, the intent router chose.                             *)

ChooseTool ==
    /\ node = "llm_with_tools"
    /\ \E c \in Calls :
         /\ call' = c
         /\ round' = [round EXCEPT !.tool = c]
    /\ intent' = "tool_execution"
    /\ Send("tool_call", "none")
    /\ node' = "execute_tool"
    /\ UNCHANGED <<ready, plan, ran, history, chunks, executions, connected,
                   status, collected, storeVars>>

ChooseKnowledge ==
    /\ node = "llm_with_tools"
    /\ call' = None
    /\ intent' = "knowledge_qa"
    /\ Send("thinking", "none")
    /\ node' = "execute_rag"
    /\ UNCHANGED <<ready, plan, ran, history, chunks, executions, connected,
                   status, collected, round, storeVars>>

\* A clarification, with the call it is about if there is one.
ChooseClarify ==
    /\ node = "llm_with_tools"
    /\ \E c \in Calls \cup {None} :
         /\ call' = c
         /\ round' = IF c = None THEN round ELSE [round EXCEPT !.tool = c]
    /\ intent' = "clarify"
    /\ Send("thinking", "none")
    /\ node' = "clarify_node"
    /\ UNCHANGED <<ready, plan, ran, history, chunks, executions, connected,
                   status, collected, storeVars>>

\* A plan of several calls, or only the router's word that one is needed.
ChoosePlan ==
    /\ node = "llm_with_tools"
    /\ call' = None
    /\ \E p \in Plans \cup {None} :
         /\ p # None /\ p.source = "guarded" =>
              Len(p.tasks) >= 2 /\ \A i \in DOMAIN p.tasks : p.tasks[i] \in Business
         /\ plan' = IF p = None THEN plan ELSE p
         /\ round' = [round EXCEPT !.plan = p]
    /\ intent' = "complex_request"
    /\ Send("thinking", "none")
    /\ node' = "plan_and_execute"
    /\ UNCHANGED <<ready, ran, history, chunks, executions, connected,
                   status, collected, storeVars>>

ChooseChat ==
    /\ node = "llm_with_tools"
    /\ call' = None
    /\ intent' = "general_chat"
    /\ Send("thinking", "none")
    /\ node' = "execute_llm"
    /\ UNCHANGED <<ready, plan, ran, history, chunks, executions, connected,
                   status, collected, round, storeVars>>

-----------------------------------------------------------------------------
(* execute_tool and the edge that leaves it.                               *)

\* Mutant: only the round before is looked at.
SeenMut(c) == history # <<>> /\ history[Len(history)].call = c
Seen(c) == \E i \in DOMAIN history : history[i].call = c

LastThree(h) == {i \in DOMAIN h : i + 3 > Len(h)}

Repeats(h) ==
    \E i, j \in LastThree(h) : i < j /\ h[i].call = h[j].call

ThreeFailuresMut(h) ==
    Len(h) > 3 /\ \A i \in LastThree(h) : h[i].result # "ok"

ThreeFailures(h) ==
    Len(h) >= 3 /\ \A i \in LastThree(h) : h[i].result # "ok"

\* Mutant: the loop is open to every tool.
ShouldContinueAny(c, h) ==
    IF Len(h) >= MaxIterations THEN "summarize" ELSE "llm_with_tools"

\* Where the turn goes after a call whose history is now h.
ShouldContinue(c, h) ==
    IF c \notin KbCalls THEN "save_state"
    ELSE IF Len(h) >= MaxIterations THEN "summarize"
    ELSE IF Repeats(h) \/ ThreeFailures(h) THEN "save_state"
    ELSE "llm_with_tools"

\* The call ended as result says; told and stored as the stream's handler does.
Observe(result) ==
    LET h == Append(history, [call |-> call, result |-> result]) IN
    /\ history' = h
    /\ node' = ShouldContinue(call, h)
    /\ round' = [round EXCEPT !.result = IF result = "ok" THEN "ok" ELSE "failed"]
    /\ IF result = "ok"
         THEN /\ Send("response", "tool")
              /\ collected' = "tool"
              /\ UNCHANGED status
         ELSE /\ Send("error", "none")
              /\ status' = "error"
              /\ UNCHANGED collected
    /\ UNCHANGED <<ready, call, plan, ran, chunks, connected, intent, storeVars>>

\* The same tool was already called with the same arguments in this turn.
BlockDuplicate ==
    /\ node = "execute_tool"
    /\ Seen(call)
    /\ Observe("blocked")
    /\ UNCHANGED executions

ExecuteTool ==
    /\ node = "execute_tool"
    /\ ~Seen(call)
    /\ \E result \in {"ok", "failed"} : Observe(result)
    /\ executions' = [executions EXCEPT ![call] = @ + 1]

-----------------------------------------------------------------------------
(* The other nodes.                                                        *)

RagChunk ==
    /\ node = "execute_rag"
    /\ chunks < MaxChunks
    /\ chunks' = chunks + 1
    /\ Send("response", "chunk")
    /\ UNCHANGED <<node, ready, call, plan, ran, history, executions, connected,
                   streamVars, storeVars>>

\* The stream always ends with some text: an answer, or that nothing was found.
RagDone ==
    /\ node = "execute_rag"
    /\ chunks > 0
    /\ collected' = "rag"
    /\ node' = "save_state"
    /\ UNCHANGED <<ready, graphVars, events, connected, status, intent, round, storeVars>>

\* An error item ends the stream and is collected; an exception is not.
RagFails ==
    /\ node = "execute_rag"
    /\ collected' \in {"rag", collected}
    /\ status' = "error"
    /\ Send("error", "none")
    /\ node' = "save_state"
    /\ UNCHANGED <<ready, graphVars, connected, intent, round, storeVars>>

\* Mutant: a response sets the status back.
ReplyMut(at, text) ==
    /\ node = at
    /\ Send("response", text)
    /\ collected' = text
    /\ status' = "success"
    /\ node' = "save_state"
    /\ UNCHANGED <<ready, graphVars, connected, intent, round, storeVars>>

\* execute_llm and clarify_node: a failed generation is answered in words.
Reply(at, text) ==
    /\ node = at
    /\ Send("response", text)
    /\ collected' = text
    /\ node' = "save_state"
    /\ UNCHANGED <<ready, graphVars, connected, status, intent, round, storeVars>>

\* Mutant: an empty answer is not sent.
ExecuteLlmMut ==
    /\ node = "execute_llm"
    /\ node' = "save_state"
    /\ UNCHANGED <<ready, graphVars, events, connected, streamVars, storeVars>>

ExecuteLlm == Reply("execute_llm", "llm")
Clarify == Reply("clarify_node", "clarify")

\* Only the plan of several calls is taken as it is; the planner makes any other anew.
Planned ==
    IF plan # None /\ plan.source = "multi_tool_calls" THEN {plan.tasks} ELSE TaskLists

\* Mutant: equal writes are not looked for.
RefusedMut(tasks) == FALSE

\* Equal writes in one plan: the executor runs none of its tasks.
Refused(tasks) ==
    \E i, j \in DOMAIN tasks : i < j /\ tasks[i] = tasks[j] /\ tasks[i] \in Writes

\* Which tasks of a plan are started: it may end at a level with a failed task.
Started(tasks) == IF Refused(tasks) THEN {{}} ELSE SUBSET DOMAIN tasks

\* How often the started tasks run each call.
Times(tasks, started) == [c \in Calls |-> Cardinality({i \in started : tasks[i] = c})]
Never == [c \in Calls |-> 0]
Once(c) == [Never EXCEPT ![c] = 1]
Run(times) == executions' = [c \in Calls |-> executions[c] + times[c]]

\* One event for each result; the plan that has none only sends that it runs.
PlanEvents(n) ==
    IF n = 0 THEN <<Event("thinking", "none")>> ELSE [i \in 1..n |-> Event("tool_call", "none")]

\* The plan ran: some of its tasks were started, each once.
PlanAndExecute ==
    /\ node = "plan_and_execute"
    /\ \E tasks \in Planned : \E started \in Started(tasks) :
         /\ Run(Times(tasks, started))
         /\ events' = events \o PlanEvents(Cardinality(started))
         /\ ran' = (started # {})
    /\ node' = "summarize"
    /\ UNCHANGED <<ready, call, plan, history, chunks, connected, streamVars, storeVars>>

\* No planner, no plan, or no executor: an error, and the edge to summarize.
PlanFails ==
    /\ node = "plan_and_execute"
    /\ status' = "error"
    /\ Send("error", "none")
    /\ node' = "summarize"
    /\ UNCHANGED <<ready, graphVars, connected, intent, collected, round, storeVars>>

\* Whatever there is to summarise, or that nothing is: always a response.
Summarize == Reply("summarize", "summary")

\* What a node that runs tools may have run when it does not come to its events.
Unseen ==
    CASE node = "execute_tool" -> {Never} \cup (IF Seen(call) THEN {} ELSE {Once(call)})
      [] node = "plan_and_execute" -> UNION {{Times(t, s) : s \in Started(t)} : t \in Planned}
      [] OTHER -> {Never}

\* An exception out of the graph or of the handler of one of its events, which
\* is told as an error and logged as that says.
Fails(as) ==
    /\ node \in GraphNodes
    /\ \E times \in Unseen : Run(times)
    /\ status' = as
    /\ Send("error", "none")
    /\ node' = "save_state"
    /\ UNCHANGED <<ready, call, plan, ran, history, chunks, connected, intent,
                   collected, round, storeVars>>

GraphFails == Fails("error")

\* A PermissionError, also after an error that was told before.
GraphRefuses == Fails("rejected")

-----------------------------------------------------------------------------
(* The finally block.  Each part may fail and is then skipped.             *)

\* Mutant: only the result of the last round counts.
SaveStateMut ==
    /\ node = "save_state"
    /\ node' = "save_messages"
    /\ outcome' = IF round.tool = None THEN outcome
                  ELSE IF round.result = "failed" THEN "failed" ELSE "success"
    /\ lastPlan' = IF round.plan = None THEN lastPlan ELSE round.plan.tasks
    /\ UNCHANGED <<ready, graphVars, events, connected, streamVars, saved, logged>>

SaveState ==
    /\ node = "save_state"
    /\ node' = "save_messages"
    /\ \/ /\ outcome' = IF round.tool = None THEN outcome
                        ELSE IF status = "error" \/ round.result = "failed"
                          THEN "failed" ELSE "success"
          /\ lastPlan' = IF round.plan = None THEN lastPlan ELSE round.plan.tasks
       \/ UNCHANGED <<outcome, lastPlan>>
    /\ UNCHANGED <<ready, graphVars, events, connected, streamVars, saved, logged>>

\* Mutant: an answer is kept whether or not an error was sent.
SaveMessagesMut ==
    /\ node = "save_messages"
    /\ node' = "save_memory"
    /\ saved' = collected
    /\ UNCHANGED <<ready, graphVars, events, connected, streamVars, outcome, lastPlan, logged>>

SaveMessages ==
    /\ node = "save_messages"
    /\ node' = "save_memory"
    /\ \/ /\ status = "success"
          /\ collected # None
          /\ saved' = collected
       \/ UNCHANGED saved
    /\ UNCHANGED <<ready, graphVars, events, connected, streamVars, outcome, lastPlan, logged>>

\* Mutant: without an answer there is nothing to wait for, and nothing goes on.
SaveMemoryMut ==
    /\ node = "save_memory"
    /\ saved # None
    /\ node' = "write_log"
    /\ UNCHANGED <<ready, graphVars, events, connected, streamVars, storeVars>>

\* The long-term memory is UserMemory's subject.
SaveMemory ==
    /\ node = "save_memory"
    /\ node' = "write_log"
    /\ UNCHANGED <<ready, graphVars, events, connected, streamVars, storeVars>>

WriteLog ==
    /\ node = "write_log"
    /\ logged' = logged + 1
    /\ node' = IF connected THEN "done" ELSE "ended"
    /\ UNCHANGED <<ready, graphVars, events, connected, streamVars, outcome, lastPlan, saved>>

Done ==
    /\ node = "done"
    /\ Send("done", "none")
    /\ node' = "ended"
    /\ UNCHANGED <<ready, graphVars, connected, streamVars, storeVars>>

-----------------------------------------------------------------------------
(* The client leaves.  The generator is closed at a yield or cancelled at  *)
(* an await: a node that runs tools may have run them, unseen.             *)

LeaveGraph ==
    /\ connected
    /\ node \in GraphNodes
    /\ \E times \in Unseen : Run(times)
    /\ connected' = FALSE
    /\ node' = "save_state"
    /\ UNCHANGED <<ready, call, plan, ran, history, chunks, events, streamVars, storeVars>>

\* Before the try block, in the finally block, or at the last event: nothing more runs.
LeaveOutside ==
    /\ connected
    /\ node \in Finally \cup {"called", "done"}
    /\ connected' = FALSE
    /\ node' = "ended"
    /\ UNCHANGED <<ready, graphVars, events, streamVars, storeVars>>

\* A cancelled request is cancelled again at the next await of the finally block.
CutShort ==
    /\ ~connected
    /\ node \in Finally \ {"write_log"}
    /\ node' = "ended"
    /\ UNCHANGED <<ready, graphVars, events, connected, streamVars, storeVars>>

-----------------------------------------------------------------------------
Choose == ChooseTool \/ ChooseKnowledge \/ ChooseClarify \/ ChoosePlan \/ ChooseChat
RunTool == BlockDuplicate \/ ExecuteTool
RunPlan == PlanAndExecute \/ PlanFails
Broken == GraphFails \/ GraphRefuses
Rag == RagChunk \/ RagDone \/ RagFails
Answer == ExecuteLlm \/ Clarify \/ Summarize
Store == SaveState \/ SaveMessages \/ SaveMemory \/ WriteLog \/ Done

Step == Uninitialised \/ Start \/ Choose \/ RunTool \/ Rag \/ Answer \/ RunPlan \/ Broken \/ Store
Leave == LeaveGraph \/ LeaveOutside \/ CutShort
Next == Step \/ Leave

Spec == Init /\ [][Next]_vars /\ WF_vars(Step)

-----------------------------------------------------------------------------
(* Properties.                                                             *)

\* Every variable stays within its set.
TypeOK ==
    /\ node \in Nodes
    /\ ready \in BOOLEAN
    /\ call \in Calls \cup {None}
    /\ plan \in Plans \cup {None}
    /\ ran \in BOOLEAN
    /\ history \in Seq([call : Calls, result : {"ok", "failed", "blocked"}])
    /\ chunks \in Nat
    /\ executions \in [Calls -> Nat]
    /\ events \in Seq(Events)
    /\ connected \in BOOLEAN
    /\ status \in {"success", "error", "rejected"}
    /\ intent \in {None, "tool_execution", "knowledge_qa", "clarify",
                   "complex_request", "general_chat"}
    /\ collected \in Texts \cup {None}
    /\ round \in [tool : Calls \cup {None}, result : {"none", "ok", "failed"},
                 plan : Plans \cup {None}]
    /\ outcome \in {"none", "success", "failed"}
    /\ lastPlan \in TaskLists \cup {None}
    /\ saved \in Texts \cup {None}
    /\ logged \in Nat

\* However many rounds a turn takes, no write is run twice in it, alone or in a
\* plan (task_executor refuses the plan that writes one twice).  Without a plan
\* it runs one business call at most, and that once: it never goes back to the
\* model (_agent_loop_should_continue).  The reads of a plan may be repeated.
WritesOnce ==
    /\ \A c \in Writes : executions[c] <= 1
    /\ intent # "complex_request" =>
         \A c, d \in Business :
           executions[c] > 0 /\ executions[d] > 0 => c = d /\ executions[c] = 1

\* The loop runs no call a second time, also when the gate on repeats, which
\* looks at three rounds only, does not see it (node_execute_tool).
LoopNeverRepeats ==
    \A i, j \in DOMAIN history :
        i < j /\ history[i].call = history[j].call => history[j].result = "blocked"

\* The loop ends at its bound of rounds, and after three rounds in a row
\* without a result no further call is made (_agent_loop_should_continue).
LoopGivesUp ==
    /\ Len(history) <= MaxIterations
    /\ \A i \in DOMAIN history :
         i + 3 <= Len(history) => \E j \in i..(i + 2) : history[j].result = "ok"

\* The loop is bounded, in its rounds, its failures and its repeats.
LoopBounded == LoopGivesUp /\ LoopNeverRepeats

\* The log says "success" exactly if the client was sent no error, whatever came
\* after it: the status is not set back by a later response.
ToldAsLogged == ready => (Sent("error") <=> status # "success")

\* What the session remembers as the assistant's answer is the last response
\* of a turn without an error (the finally block).  A client that left early
\* may have seen less, or an answer of an earlier round.
LastResponse == LET rs == {i \in DOMAIN events : events[i].type = "response"}
                IN events[CHOOSE i \in rs : \A j \in rs : j <= i].text

SavedAnswer ==
    saved # None =>
        /\ ~Sent("error")
        /\ connected => LastResponse = IF saved = "rag" THEN "chunk" ELSE saved

\* The business state calls a turn a success only if none of its calls failed
\* and no error was sent, also when a later round went well.  A refusal, logged
\* as "rejected", is the exception: the finally block asks for "error" alone.
OutcomeTrue ==
    outcome = "success" /\ status # "rejected" =>
        /\ ~Sent("error")
        /\ \A i \in DOMAIN history : history[i].result = "ok"

\* What is kept of a turn, in the log and, but for a refusal, in the business
\* state, is what the client was told of it.
RecordTrue == ToldAsLogged /\ OutcomeTrue

\* The stream keeps the promise of TurnProtocol.
Phase ==
    CASE ~ready /\ events # <<>> -> "refused"
      [] Sent("done") -> "done"
      [] ~Sent("done") /\ ~connected -> "left"
      [] connected /\ ~Sent("done") /\ (Sent("response") \/ Sent("error")) /\ ready -> "answered"
      [] connected /\ Sent("start") /\ ~Sent("response") /\ ~Sent("error") -> "open"
      [] OTHER -> "idle"

Protocol == INSTANCE TurnProtocol WITH phase <- Phase, failed <- Sent("error")
KeepsProtocol == Protocol!Spec

\* Every turn ends.
Terminates == <>(node = "ended")

\* langgraph_agent.py:2296: "start -> thinking -> error -> done": what follows
\* an error is done.
ErrorEndsStream ==
    \A i, j \in DOMAIN events :
        i < j /\ events[i].type = "error" => events[j].type = "done"
=============================================================================
