-------------------------- MODULE AgentTurn_proofs --------------------------
(***************************************************************************)
(* What holds of a turn for any calls, any bound of rounds and any length  *)
(* of the streamed answer.  The types come first; then five facts that are *)
(* each carried through the nodes of the graph: business calls are run     *)
(* only where the turn cannot return to the model, a call that was made is *)
(* blocked, the gates have let the turn come this far, the status is what  *)
(* the client was told, and what is collected of the answer is the last    *)
(* response sent.  The refinement of TurnProtocol comes last: its phase is *)
(* known from the events sent so far.                                      *)
(***************************************************************************)
EXTENDS AgentTurn, FiniteSetTheorems, SequenceTheorems, TLAPS

Entry == [call : Calls, result : {"ok", "failed", "blocked"}]

\* The events that were sent grow by what is sent.
LEMMA SendTyped ==
    ASSUME events \in Seq(Events), NEW t, NEW x, Event(t, x) \in Events, Send(t, x)
    PROVE  events' \in Seq(Events)
BY DEF Send

LEMMA SentAfter ==
    ASSUME events \in Seq(Events), NEW t, NEW x, Send(t, x), NEW type
    PROVE  Sent(type)' <=> Sent(type) \/ t = type
<1>1. /\ events' = Append(events, Event(t, x))
      /\ Len(events') = Len(events) + 1
      /\ DOMAIN events' = 1..(Len(events) + 1)
      /\ DOMAIN events = 1..Len(events)
      /\ Len(events) \in Nat
      /\ events'[Len(events) + 1].type = t
      /\ \A i \in 1..Len(events) : events'[i] = events[i]
  BY DEF Send, Event
<1>2. ASSUME Sent(type)' PROVE Sent(type) \/ t = type
  <2>1. PICK i \in DOMAIN events' : events'[i].type = type
    BY <1>2 DEF Sent
  <2>2. CASE i = Len(events) + 1
    BY <1>1, <2>1, <2>2
  <2>3. CASE i # Len(events) + 1
    <3>1. i \in DOMAIN events /\ events'[i] = events[i]
      BY <1>1, <2>3
    <3> QED
      BY <2>1, <3>1 DEF Sent
  <2> QED
    BY <2>2, <2>3
<1>3. ASSUME Sent(type) PROVE Sent(type)'
  <2>1. PICK i \in DOMAIN events : events[i].type = type
    BY <1>3 DEF Sent
  <2>2. i \in DOMAIN events' /\ events'[i] = events[i]
    BY <1>1
  <2> QED
    BY <2>1, <2>2 DEF Sent
<1>4. ASSUME t = type PROVE Sent(type)'
  <2>1. Len(events) + 1 \in DOMAIN events' /\ events'[Len(events) + 1].type = type
    BY <1>1, <1>4
  <2> QED
    BY <2>1 DEF Sent
<1> QED
  BY <1>2, <1>3, <1>4

-----------------------------------------------------------------------------
(* Types.                                                                  *)

LEMMA InitTypeOK == Init => TypeOK
<1> SUFFICES ASSUME Init PROVE TypeOK
  OBVIOUS
<1>1. history \in Seq(Entry) /\ events \in Seq(Events)
  BY DEF Init
<1>2. executions \in [Calls -> Nat]
  BY DEF Init
<1>3. round \in [tool : Calls \cup {None}, result : {"none", "ok", "failed"},
                 plan : Plans \cup {None}]
  BY DEF Init
<1> QED
  BY <1>1, <1>2, <1>3 DEF Init, TypeOK, Nodes, Entry

LEMMA ObserveTyped ==
    ASSUME TypeOK, NEW r \in {"ok", "failed", "blocked"}, call \in Calls,
           Observe(r), executions' \in [Calls -> Nat]
    PROVE  TypeOK'
<1>1. history' \in Seq(Entry)
  <2>1. [call |-> call, result |-> r] \in Entry
    BY DEF Entry
  <2>2. history \in Seq(Entry)
    BY DEF TypeOK, Entry
  <2>3. history' = Append(history, [call |-> call, result |-> r])
    BY DEF Observe
  <2> QED
    BY <2>1, <2>2, <2>3
<1>2. node' \in Nodes
  BY DEF Observe, ShouldContinue, Nodes, GraphNodes, Finally
<1>3. events' \in Seq(Events) /\ status' \in {"success", "error", "rejected"} /\ collected' \in Texts \cup {None}
  <2>1. CASE r = "ok"
    <3>1. Send("response", "tool") /\ collected' = "tool" /\ UNCHANGED status
      BY <2>1 DEF Observe
    <3>2. Event("response", "tool") \in Events
      BY DEF Event, Events, Texts
    <3> QED
      BY <3>1, <3>2, SendTyped DEF TypeOK, Texts
  <2>2. CASE r # "ok"
    <3>1. Send("error", "none") /\ status' = "error" /\ UNCHANGED collected
      BY <2>2 DEF Observe
    <3>2. Event("error", "none") \in Events
      BY DEF Event, Events
    <3> QED
      BY <3>1, <3>2, SendTyped DEF TypeOK
  <2> QED
    BY <2>1, <2>2
<1>4. round' \in [tool : Calls \cup {None}, result : {"none", "ok", "failed"},
                  plan : Plans \cup {None}]
  BY DEF Observe, TypeOK
<1>5. UNCHANGED <<ready, call, plan, ran, chunks, connected, intent, storeVars>>
  BY DEF Observe
<1> QED
  BY <1>1, <1>2, <1>3, <1>4, <1>5 DEF TypeOK, Entry, storeVars

\* A call is chosen before the tool runs.
CallChosen == node = "execute_tool" => call \in Calls

LEMMA NextCallChosen == TypeOK /\ CallChosen /\ [Next]_vars => CallChosen'
<1> SUFFICES ASSUME TypeOK, CallChosen, [Next]_vars PROVE CallChosen'
  OBVIOUS
<1> USE DEF CallChosen
<1>1. CASE UNCHANGED vars
  BY <1>1 DEF vars, graphVars
<1>2. CASE Choose
  BY <1>2 DEF Choose, ChooseTool, ChooseKnowledge, ChooseClarify, ChoosePlan, ChooseChat
<1>3. CASE RunTool
  BY <1>3 DEF RunTool, BlockDuplicate, ExecuteTool, Observe, ShouldContinue
<1>4. CASE Uninitialised \/ Start \/ RunPlan \/ Broken
  BY <1>4 DEF Uninitialised, Start, RunPlan, PlanAndExecute, PlanFails, Broken, GraphFails,
     GraphRefuses, Fails
<1>5. CASE Rag \/ Answer
  BY <1>5 DEF Rag, RagChunk, RagDone, RagFails, Answer, ExecuteLlm, Clarify, Summarize, Reply
<1>6. CASE Store
  BY <1>6 DEF Store, SaveState, SaveMessages, SaveMemory, WriteLog, Done
<1>7. CASE Leave
  BY <1>7 DEF Leave, LeaveGraph, LeaveOutside, CutShort
<1> QED
  BY <1>1, <1>2, <1>3, <1>4, <1>5, <1>6, <1>7 DEF Next, Step

LEMMA CountTyped ==
    ASSUME executions \in [Calls -> Nat], NEW times \in [Calls -> Nat], Run(times)
    PROVE  executions' \in [Calls -> Nat]
BY DEF Run

\* What running some tasks of a plan does to the counts.
LEMMA TimesTyped ==
    ASSUME TypeOK, NEW tasks \in Planned, NEW started \in Started(tasks)
    PROVE  /\ Times(tasks, started) \in [Calls -> Nat]
           /\ Cardinality(started) \in Nat
           /\ \A c \in Writes : Times(tasks, started)[c] <= 1
<1>1. tasks \in TaskLists
  BY DEF Planned, TypeOK, Plans
<1>2. PICK n \in 1..MaxTasks : tasks \in [1..n -> Calls]
  BY <1>1 DEF TaskLists
<1>3. started \subseteq 1..n
  BY <1>2 DEF Started
<1>4. ASSUME NEW S, S \subseteq 1..n PROVE IsFiniteSet(S) /\ Cardinality(S) \in Nat
  <2>1. n \in Int /\ IsFiniteSet(1..n)
    BY <1>2, BoundsAssumption, FS_Interval
  <2>2. IsFiniteSet(S)
    BY <1>4, <2>1, FS_Subset
  <2> QED
    BY <2>2, FS_CardinalityType
<1>5. \A c : {i \in started : tasks[i] = c} \subseteq 1..n
  BY <1>3
<1>6. Times(tasks, started) \in [Calls -> Nat]
  BY <1>4, <1>5 DEF Times
<1>7. ASSUME NEW c \in Writes PROVE Times(tasks, started)[c] <= 1
  <2> DEFINE S == {i \in started : tasks[i] = c}
  <2>1. c \in Calls
    BY CallsAssumption DEF Calls
  <2>2. \A i, j \in S : i = j
    <3>1. SUFFICES ASSUME NEW i \in S, NEW j \in S, i < j PROVE FALSE
      BY <1>3
    <3>2. Refused(tasks)
      BY <1>2, <1>3, <3>1 DEF Refused
    <3> QED
      BY <3>1, <3>2 DEF Started
  <2>3. Cardinality(S) <= 1
    <3>1. CASE S = {}
      BY <3>1, FS_EmptySet
    <3>2. CASE S # {}
      <4>1. PICK i : S = {i}
        BY <2>2, <3>2
      <4>2. Cardinality({i}) = 1
        BY FS_Singleton
      <4> QED
        BY <4>1, <4>2
    <3> QED
      BY <3>1, <3>2
  <2>4. Times(tasks, started)[c] = Cardinality(S)
    BY <2>1 DEF Times
  <2> QED
    BY <2>3, <2>4
<1> QED
  BY <1>3, <1>4, <1>6, <1>7

\* What a node may have run that does not come to its events.
LEMMA UnseenTyped ==
    ASSUME TypeOK, CallChosen, NEW times \in Unseen
    PROVE  /\ times \in [Calls -> Nat]
           /\ \A c \in Writes : times[c] <= 1
           /\ node = "execute_tool" => times \in {Never, Once(call)}
           /\ node \notin {"execute_tool", "plan_and_execute"} => times = Never
<1>0. Never \in [Calls -> Nat] /\ \A c \in Writes : c \in Calls /\ Never[c] = 0
  BY CallsAssumption DEF Never, Calls
<1>1. CASE node = "execute_tool"
  <2>1. times \in {Never, Once(call)} /\ call \in Calls
    BY <1>1 DEF Unseen, CallChosen
  <2>2. Once(call) \in [Calls -> Nat] /\ \A c \in Writes : Once(call)[c] <= 1
    BY <1>0, <2>1 DEF Once, Never
  <2> QED
    BY <1>0, <1>1, <2>1, <2>2
<1>2. CASE node = "plan_and_execute"
  <2>1. PICK tasks \in Planned : \E started \in Started(tasks) : times = Times(tasks, started)
    BY <1>2 DEF Unseen
  <2>2. PICK started \in Started(tasks) : times = Times(tasks, started)
    BY <2>1
  <2> QED
    BY <1>2, <2>2, TimesTyped
<1>3. CASE node \notin {"execute_tool", "plan_and_execute"}
  <2>1. times = Never
    BY <1>3 DEF Unseen
  <2> QED
    BY <1>0, <1>3, <2>1
<1> QED
  BY <1>1, <1>2, <1>3

\* What running the tasks of a plan does to the counts and the stream.
PlanRan(tasks, started) ==
    /\ Run(Times(tasks, started))
    /\ events' = events \o PlanEvents(Cardinality(started))
    /\ ran' = (started # {})

LEMMA PlanEventsTyped ==
    ASSUME NEW n \in Nat
    PROVE  /\ PlanEvents(n) \in Seq(Events)
           /\ \A i \in 1..Len(PlanEvents(n)) : PlanEvents(n)[i].type \in {"tool_call", "thinking"}
<1>0. Event("thinking", "none") \in Events /\ Event("tool_call", "none") \in Events
  BY DEF Event, Events
<1>1. CASE n = 0
  <2>1. PlanEvents(n) = <<Event("thinking", "none")>>
    BY <1>1 DEF PlanEvents
  <2> QED
    BY <1>0, <2>1 DEF Event
<1>2. CASE n # 0
  <2>1. PlanEvents(n) = [i \in 1..n |-> Event("tool_call", "none")]
    BY <1>2 DEF PlanEvents
  <2>2. PlanEvents(n) \in Seq(Events) /\ Len(PlanEvents(n)) = n
    BY <1>0, <2>1
  <2> QED
    BY <2>1, <2>2 DEF Event
<1> QED
  BY <1>1, <1>2

LEMMA NextTypeOK == TypeOK /\ CallChosen /\ [Next]_vars => TypeOK'
<1> SUFFICES ASSUME TypeOK, CallChosen, [Next]_vars PROVE TypeOK'
  OBVIOUS
<1>0. /\ \A t \in {"start", "thinking", "tool_call", "error", "done"} : Event(t, "none") \in Events
      /\ \A x \in Texts : Event("response", x) \in Events
      /\ events \in Seq(Events)
  BY DEF Event, Events, TypeOK
<1> USE DEF Nodes, GraphNodes, Finally, graphVars, streamVars, storeVars
<1>1. CASE UNCHANGED vars
  BY <1>1 DEF vars, TypeOK
<1>2. CASE Choose
  <2>1. CASE ChooseTool
    BY <1>0, <2>1, SendTyped DEF ChooseTool, TypeOK
  <2>2. CASE ChooseKnowledge
    BY <1>0, <2>2, SendTyped DEF ChooseKnowledge, TypeOK
  <2>3. CASE ChooseClarify
    <3>1. PICK c \in Calls \cup {None} :
            /\ call' = c
            /\ round' = IF c = None THEN round ELSE [round EXCEPT !.tool = c]
      BY <2>3 DEF ChooseClarify
    <3>2. /\ call' \in Calls \cup {None}
          /\ round' \in [tool : Calls \cup {None}, result : {"none", "ok", "failed"},
                         plan : Plans \cup {None}]
      BY <3>1 DEF TypeOK
    <3>3. events' \in Seq(Events)
      BY <1>0, <2>3, SendTyped DEF ChooseClarify
    <3> QED
      BY <2>3, <3>2, <3>3 DEF ChooseClarify, TypeOK
  <2>4. CASE ChoosePlan
    <3>1. PICK p \in Plans \cup {None} :
            /\ plan' = IF p = None THEN plan ELSE p
            /\ round' = [round EXCEPT !.plan = p]
      BY <2>4 DEF ChoosePlan
    <3>2. /\ plan' \in Plans \cup {None}
          /\ round' \in [tool : Calls \cup {None}, result : {"none", "ok", "failed"},
                         plan : Plans \cup {None}]
      BY <3>1 DEF TypeOK
    <3>3. events' \in Seq(Events)
      BY <1>0, <2>4, SendTyped DEF ChoosePlan
    <3> QED
      BY <2>4, <3>2, <3>3 DEF ChoosePlan, TypeOK
  <2>5. CASE ChooseChat
    BY <1>0, <2>5, SendTyped DEF ChooseChat, TypeOK
  <2> QED
    BY <1>2, <2>1, <2>2, <2>3, <2>4, <2>5 DEF Choose
<1>3. CASE RunTool
  <2>1. CASE BlockDuplicate
    BY <2>1, ObserveTyped DEF BlockDuplicate, CallChosen, TypeOK
  <2>2. CASE ExecuteTool
    <3>1. executions' \in [Calls -> Nat]
      BY <2>2 DEF ExecuteTool, CallChosen, TypeOK
    <3> QED
      BY <2>2, <3>1, ObserveTyped DEF ExecuteTool, CallChosen
  <2> QED
    BY <1>3, <2>1, <2>2 DEF RunTool
<1>4. CASE Uninitialised
  BY <1>0, <1>4, SendTyped DEF Uninitialised, TypeOK
<1>5. CASE Start
  <2>1. events' \in Seq(Events)
    BY <1>0, <1>5 DEF Start
  <2> QED
    BY <1>5, <2>1 DEF Start, TypeOK
<1>6. CASE Rag
  <2>1. CASE RagChunk
    BY <1>0, <2>1, SendTyped DEF RagChunk, TypeOK, Texts
  <2>2. CASE RagDone
    BY <2>2 DEF RagDone, TypeOK, Texts
  <2>3. CASE RagFails
    BY <1>0, <2>3, SendTyped DEF RagFails, TypeOK, Texts
  <2> QED
    BY <1>6, <2>1, <2>2, <2>3 DEF Rag
<1>7. CASE Answer
  <2>1. ASSUME NEW a, NEW x \in Texts, Reply(a, x) PROVE TypeOK'
    BY <1>0, <2>1, SendTyped DEF Reply, TypeOK
  <2> QED
    BY <1>7, <2>1 DEF Answer, ExecuteLlm, Clarify, Summarize, Texts
<1>8. CASE RunPlan
  <2>1. CASE PlanAndExecute
    <3>1. PICK tasks \in Planned : \E started \in Started(tasks) : PlanRan(tasks, started)
      BY <2>1 DEF PlanAndExecute, PlanRan
    <3>2. PICK started \in Started(tasks) : PlanRan(tasks, started)
      BY <3>1
    <3>3. Cardinality(started) \in Nat
      BY TimesTyped
    <3>4. events' \in Seq(Events)
      <4> DEFINE sent == PlanEvents(Cardinality(started))
      <4>1. sent \in Seq(Events)
        BY <3>3, PlanEventsTyped
      <4>2. events' = events \o sent
        BY <3>2 DEF PlanRan
      <4> HIDE DEF sent
      <4> QED
        BY <1>0, <4>1, <4>2, ConcatProperties
    <3>5. executions' \in [Calls -> Nat] /\ ran' \in BOOLEAN
      <4>1. Times(tasks, started) \in [Calls -> Nat]
        BY TimesTyped
      <4>2. ran' = (started # {}) /\ Run(Times(tasks, started))
        BY <3>2 DEF PlanRan
      <4> QED
        BY <4>1, <4>2, CountTyped DEF TypeOK
    <3> QED
      BY <2>1, <3>4, <3>5 DEF PlanAndExecute, TypeOK
  <2>2. CASE PlanFails
    BY <1>0, <2>2, SendTyped DEF PlanFails, TypeOK
  <2> QED
    BY <1>8, <2>1, <2>2 DEF RunPlan
<1>9. CASE Broken
  <2>1. PICK as \in {"error", "rejected"} : Fails(as)
    BY <1>9 DEF Broken, GraphFails, GraphRefuses
  <2>2. PICK times \in Unseen : Run(times)
    BY <2>1 DEF Fails
  <2>3. executions' \in [Calls -> Nat]
    <3>1. times \in [Calls -> Nat]
      BY UnseenTyped
    <3> QED
      BY <2>2, <3>1, CountTyped DEF TypeOK
  <2>4. events' \in Seq(Events)
    BY <1>0, <2>1, SendTyped DEF Fails
  <2>5. /\ node' = "save_state" /\ status' = as
        /\ UNCHANGED <<ready, call, plan, ran, history, chunks, connected, intent,
                       collected, round, storeVars>>
    BY <2>1 DEF Fails
  <2>6. node' \in Nodes /\ status' \in {"success", "error", "rejected"}
    BY <2>5
  <2>7. UNCHANGED <<ready, call, plan, ran, history, chunks, connected, intent, collected,
                    round, outcome, lastPlan, saved, logged>>
    BY <2>5
  <2> HIDE DEF Nodes, GraphNodes, Finally, graphVars, streamVars, storeVars
  <2> QED
    BY <2>3, <2>4, <2>6, <2>7 DEF TypeOK
<1>10. CASE Store
  <2>1. CASE SaveState
    BY <2>1 DEF SaveState, TypeOK, Plans
  <2>2. CASE SaveMessages \/ SaveMemory \/ WriteLog
    BY <2>2 DEF SaveMessages, SaveMemory, WriteLog, TypeOK
  <2>3. CASE Done
    BY <1>0, <2>3, SendTyped DEF Done, TypeOK
  <2> QED
    BY <1>10, <2>1, <2>2, <2>3 DEF Store
<1>11. CASE Leave
  <2>1. CASE LeaveGraph
    <3>1. PICK times \in Unseen : Run(times)
      BY <2>1 DEF LeaveGraph
    <3>2. executions' \in [Calls -> Nat]
      <4>1. times \in [Calls -> Nat]
        BY UnseenTyped
      <4> QED
        BY <3>1, <4>1, CountTyped DEF TypeOK
    <3>3. /\ connected' = FALSE /\ node' = "save_state"
          /\ UNCHANGED <<ready, call, plan, ran, history, chunks, events, streamVars, storeVars>>
      BY <2>1 DEF LeaveGraph
    <3>4. connected' \in BOOLEAN /\ node' \in Nodes
      BY <3>3
    <3> HIDE DEF Nodes, GraphNodes, Finally
    <3> QED
      BY <3>2, <3>3, <3>4 DEF TypeOK
  <2>2. CASE LeaveOutside \/ CutShort
    BY <2>2 DEF LeaveOutside, CutShort, TypeOK
  <2> QED
    BY <1>11, <2>1, <2>2 DEF Leave
<1> QED
  BY <1>1, <1>2, <1>3, <1>4, <1>5, <1>6, <1>7, <1>8, <1>9, <1>10, <1>11 DEF Next, Step

LEMMA TypesHold == Spec => [](TypeOK /\ CallChosen)
<1>1. Init => TypeOK /\ CallChosen
  BY InitTypeOK DEF Init, CallChosen
<1> QED
  BY <1>1, NextTypeOK, NextCallChosen, PTL DEF Spec

\* The variables of a turn stay within their sets.
THEOREM TurnTypes == Spec => []TypeOK
  BY TypesHold, PTL

-----------------------------------------------------------------------------
(* Business calls.                                                         *)

\* Where the turn may still choose a call, no business call has been run.
BusinessInv ==
    /\ WritesOnce
    /\ node \in {"called", "llm_with_tools", "execute_tool", "plan_and_execute"} =>
         \A c \in Business : executions[c] = 0
    /\ node = "plan_and_execute" => intent = "complex_request"

\* The first business calls of a turn: by a plan, or one call made once.
LEMMA RunBusiness ==
    ASSUME TypeOK, \A c \in Business : executions[c] = 0,
           NEW times \in [Calls -> Nat], Run(times),
           \A c \in Writes : times[c] <= 1,
           intent' = "complex_request" \/ \E d \in Calls : times \in {Never, Once(d)}
    PROVE  WritesOnce'
<1>1. \A c \in Business : c \in Calls /\ executions'[c] = times[c]
  BY DEF Run, Calls, TypeOK
<1>2. \A c \in Writes : executions'[c] <= 1
  BY <1>1, CallsAssumption
<1>3. ASSUME intent' # "complex_request", NEW c \in Business, NEW d \in Business,
             executions'[c] > 0, executions'[d] > 0
      PROVE  c = d /\ executions'[c] = 1
  <2>1. PICK e \in Calls : times \in {Never, Once(e)}
    BY <1>3
  <2>2. times[c] > 0 /\ times[d] > 0
    BY <1>1, <1>3
  <2>3. \A x \in Calls : times[x] > 0 => x = e /\ times[x] = 1
    BY <2>1 DEF Never, Once
  <2> QED
    BY <1>1, <2>2, <2>3
<1> QED
  BY <1>2, <1>3 DEF WritesOnce

LEMMA NextBusinessInv ==
    TypeOK /\ CallChosen /\ BusinessInv /\ [Next]_vars => BusinessInv'
<1> SUFFICES ASSUME TypeOK, CallChosen, BusinessInv, [Next]_vars PROVE BusinessInv'
  OBVIOUS
<1> USE DEF BusinessInv
<1>1. CASE UNCHANGED vars
  BY <1>1 DEF vars, graphVars, streamVars, WritesOnce
<1>2. CASE Choose
  <2>1. node = "llm_with_tools" /\ executions' = executions
    BY <1>2 DEF Choose, ChooseTool, ChooseKnowledge, ChooseClarify, ChoosePlan, ChooseChat
  <2>2. \A c \in Business : executions'[c] = 0
    BY <2>1
  <2>3. node' = "plan_and_execute" => intent' = "complex_request"
    BY <1>2 DEF Choose, ChooseTool, ChooseKnowledge, ChooseClarify, ChoosePlan, ChooseChat
  <2>4. WritesOnce'
    BY <2>2, CallsAssumption DEF WritesOnce
  <2> QED
    BY <2>2, <2>3, <2>4
<1>3. CASE RunTool
  <2>1. CASE BlockDuplicate
    BY <2>1 DEF BlockDuplicate, Observe, ShouldContinue, WritesOnce
  <2>2. CASE ExecuteTool
    <3>1. /\ executions' = [executions EXCEPT ![call] = @ + 1]
          /\ call \in Calls
          /\ node' \in {"llm_with_tools", "save_state", "summarize"}
          /\ node' = "llm_with_tools" => call \in KbCalls
          /\ \A c \in Business : executions[c] = 0
      BY <2>2 DEF ExecuteTool, Observe, ShouldContinue, CallChosen
    <3>2. WritesOnce'
      BY <3>1, CallsAssumption DEF WritesOnce, TypeOK, Calls
    <3>3. node' = "llm_with_tools" => \A c \in Business : executions'[c] = 0
      BY <3>1, CallsAssumption DEF TypeOK, Calls
    <3> QED
      BY <3>1, <3>2, <3>3
  <2> QED
    BY <1>3, <2>1, <2>2 DEF RunTool
<1>4. CASE Uninitialised \/ Start \/ PlanFails
  BY <1>4 DEF Uninitialised, Start, PlanFails, graphVars, streamVars, WritesOnce
<1>5. CASE PlanAndExecute
  <2>1. PICK tasks \in Planned : \E started \in Started(tasks) : PlanRan(tasks, started)
    BY <1>5 DEF PlanAndExecute, PlanRan
  <2>2. PICK started \in Started(tasks) : PlanRan(tasks, started)
    BY <2>1
  <2>3. WritesOnce'
    <3>1. node = "plan_and_execute" /\ intent' = intent
      BY <1>5 DEF PlanAndExecute, streamVars
    <3>2. /\ Times(tasks, started) \in [Calls -> Nat]
          /\ \A c \in Writes : Times(tasks, started)[c] <= 1
      BY TimesTyped
    <3>3. Run(Times(tasks, started))
      BY <2>2 DEF PlanRan
    <3> QED
      BY <3>1, <3>2, <3>3, RunBusiness
  <2> QED
    BY <1>5, <2>3 DEF PlanAndExecute
<1>6. CASE Rag \/ Answer
  <2>1. executions' = executions /\ intent' = intent
    BY <1>6 DEF Rag, RagChunk, RagDone, RagFails, Answer, ExecuteLlm, Clarify, Summarize, Reply,
       graphVars, streamVars
  <2>2. node' \in {"execute_rag", "save_state"}
    BY <1>6 DEF Rag, RagChunk, RagDone, RagFails, Answer, ExecuteLlm, Clarify, Summarize, Reply
  <2> QED
    BY <2>1, <2>2 DEF WritesOnce
<1>7. CASE Store
  BY <1>7 DEF Store, SaveState, SaveMessages, SaveMemory, WriteLog, Done, graphVars, streamVars,
     WritesOnce
<1>8. CASE Broken \/ LeaveGraph
  <2>1. PICK times \in Unseen : Run(times)
    BY <1>8 DEF LeaveGraph, Broken, GraphFails, GraphRefuses, Fails
  <2>2. node' = "save_state" /\ intent' = intent
    BY <1>8 DEF LeaveGraph, Broken, GraphFails, GraphRefuses, Fails, streamVars
  <2>3. /\ times \in [Calls -> Nat]
        /\ \A c \in Writes : times[c] <= 1
        /\ node = "execute_tool" => times \in {Never, Once(call)}
        /\ node \notin {"execute_tool", "plan_and_execute"} => times = Never
    BY UnseenTyped
  <2>4. CASE node \in {"execute_tool", "plan_and_execute"}
    <3>1. intent' = "complex_request" \/ \E d \in Calls : times \in {Never, Once(d)}
      BY <2>2, <2>3, <2>4 DEF CallChosen
    <3> QED
      BY <2>1, <2>2, <2>3, <2>4, <3>1, RunBusiness
  <2>5. CASE node \notin {"execute_tool", "plan_and_execute"}
    <3>1. \A c \in Business : executions'[c] = executions[c]
      BY <2>1, <2>3, <2>5 DEF Run, Never, TypeOK, Calls
    <3> QED
      BY <2>2, <3>1, CallsAssumption DEF WritesOnce
  <2> QED
    BY <2>4, <2>5
<1>9. CASE LeaveOutside \/ CutShort
  BY <1>9 DEF LeaveOutside, CutShort, graphVars, streamVars, WritesOnce
<1> QED
  BY <1>1, <1>2, <1>3, <1>4, <1>5, <1>6, <1>7, <1>8, <1>9 DEF Next, Step, RunPlan, Leave

\* No write is run twice in a turn, alone or in a plan, and without a plan the
\* turn runs one business call at most.
THEOREM WritesRunOnce == Spec => []WritesOnce
<1>1. Init => BusinessInv
  BY CallsAssumption DEF Init, BusinessInv, WritesOnce, Calls
<1>2. BusinessInv => WritesOnce
  BY DEF BusinessInv
<1> QED
  BY <1>1, <1>2, NextBusinessInv, TypesHold, PTL DEF Spec

-----------------------------------------------------------------------------
(* The loop.                                                               *)

\* The gates let the turn choose a call only below the bound of rounds and not
\* after three failures.
GateInv ==
    /\ LoopGivesUp
    /\ LoopNeverRepeats
    /\ node \in {"called", "llm_with_tools", "execute_tool"} =>
         Len(history) < MaxIterations /\ ~ThreeFailures(history)

\* What an observation adds to the history.
LEMMA Grown ==
    ASSUME TypeOK, NEW e, history' = Append(history, e)
    PROVE  /\ Len(history') = Len(history) + 1
           /\ Len(history) \in Nat
           /\ DOMAIN history = 1..Len(history)
           /\ DOMAIN history' = 1..(Len(history) + 1)
           /\ history'[Len(history) + 1] = e
           /\ \A i \in 1..Len(history) : history'[i] = history[i]
BY DEF TypeOK

LEMMA ObserveGate ==
    ASSUME TypeOK, GateInv, node = "execute_tool", NEW r \in {"ok", "failed", "blocked"},
           Observe(r), Seen(call) => r = "blocked"
    PROVE  GateInv'
<1> DEFINE e == [call |-> call, result |-> r]
           n == Len(history)
<1>1. /\ history' = Append(history, e)
      /\ node' = ShouldContinue(call, Append(history, e))
  BY DEF Observe
<1>2. /\ Len(history') = n + 1 /\ n \in Nat
      /\ DOMAIN history = 1..n /\ DOMAIN history' = 1..(n + 1)
      /\ history'[n + 1] = e
      /\ \A i \in 1..n : history'[i] = history[i]
  BY <1>1, Grown
<1>3. n < MaxIterations /\ ~ThreeFailures(history) /\ LoopGivesUp /\ LoopNeverRepeats
  BY DEF GateInv
<1>4. LoopGivesUp'
  <2>1. n + 1 <= MaxIterations
    BY <1>2, <1>3, BoundsAssumption
  <2>2. ASSUME NEW i \in 1..(n + 1), i + 3 <= n + 1
        PROVE  \E j \in i..(i + 2) : history'[j].result = "ok"
    <3>1. CASE i + 3 <= n
      <4>0. i \in DOMAIN history /\ i + 3 <= Len(history)
        BY <1>2, <3>1
      <4>1. PICK j \in i..(i + 2) : history[j].result = "ok"
        BY <1>3, <4>0 DEF LoopGivesUp
      <4> QED
        BY <1>2, <3>1, <4>1
    <3>2. CASE i + 3 = n + 1
      <4>1. n >= 3
        BY <1>2, <3>2
      <4>2. PICK j \in LastThree(history) : history[j].result = "ok"
        BY <1>3, <4>1 DEF ThreeFailures
      <4>3. j \in 1..n /\ j + 3 > n
        BY <1>2, <4>2 DEF LastThree
      <4> QED
        BY <1>2, <3>2, <4>2, <4>3
    <3> QED
      BY <1>2, <2>2, <3>1, <3>2
  <2> QED
    BY <1>2, <2>1, <2>2 DEF LoopGivesUp
<1>5. LoopNeverRepeats'
  <2>1. SUFFICES ASSUME NEW i \in 1..(n + 1), NEW j \in 1..(n + 1), i < j,
                        history'[i].call = history'[j].call
                 PROVE  history'[j].result = "blocked"
    BY <1>2 DEF LoopNeverRepeats
  <2>2. CASE j = n + 1
    <3>1. i \in 1..n /\ history[i].call = call
      BY <1>2, <2>1, <2>2
    <3>2. Seen(call)
      BY <1>2, <3>1 DEF Seen
    <3> QED
      BY <1>2, <2>2, <3>2
  <2>3. CASE j # n + 1
    <3>1. i \in 1..n /\ j \in 1..n
      BY <1>2, <2>1, <2>3
    <3> QED
      BY <1>2, <1>3, <2>1, <3>1 DEF LoopNeverRepeats
  <2> QED
    BY <2>2, <2>3
<1>6. node' \in {"called", "llm_with_tools", "execute_tool"} =>
        Len(history') < MaxIterations /\ ~ThreeFailures(history')
  <2> SUFFICES ASSUME node' \in {"called", "llm_with_tools", "execute_tool"}
               PROVE  Len(history') < MaxIterations /\ ~ThreeFailures(history')
    OBVIOUS
  <2>1. ~(Len(history') >= MaxIterations) /\ ~ThreeFailures(history')
    BY <1>1 DEF ShouldContinue
  <2> QED
    BY <1>2, <2>1, BoundsAssumption
<1>7. (ThreeFailures(history))' <=> ThreeFailures(history')
  BY DEF ThreeFailures, LastThree
<1> QED
  BY <1>4, <1>5, <1>6, <1>7 DEF GateInv

LEMMA NextGateInv == TypeOK /\ GateInv /\ [Next]_vars => GateInv'
<1> SUFFICES ASSUME TypeOK, GateInv, [Next]_vars PROVE GateInv'
  OBVIOUS
<1>1. CASE RunTool
  <2>1. CASE BlockDuplicate
    BY <2>1, ObserveGate DEF BlockDuplicate
  <2>2. CASE ExecuteTool
    BY <2>2, ObserveGate DEF ExecuteTool
  <2> QED
    BY <1>1, <2>1, <2>2 DEF RunTool
<1>2. CASE ~RunTool
  <2>1. UNCHANGED history
    BY <1>2 DEF Next, Step, RunTool, vars, graphVars, Choose, ChooseTool, ChooseKnowledge,
       ChooseClarify, ChoosePlan, ChooseChat, Uninitialised, Start, RunPlan, PlanAndExecute,
       PlanFails, Broken, GraphFails, GraphRefuses, Fails, Rag, RagChunk, RagDone, RagFails, Answer, ExecuteLlm, Clarify,
       Summarize, Reply, Store, SaveState, SaveMessages, SaveMemory, WriteLog, Done,
       Leave, LeaveGraph, LeaveOutside, CutShort
  <2>2. node' \in {"called", "llm_with_tools", "execute_tool"} =>
          node \in {"called", "llm_with_tools", "execute_tool"}
    BY <1>2 DEF Next, Step, RunTool, vars, graphVars, Choose, ChooseTool, ChooseKnowledge,
       ChooseClarify, ChoosePlan, ChooseChat, Uninitialised, Start, RunPlan, PlanAndExecute,
       PlanFails, Broken, GraphFails, GraphRefuses, Fails, Rag, RagChunk, RagDone, RagFails, Answer, ExecuteLlm, Clarify,
       Summarize, Reply, Store, SaveState, SaveMessages, SaveMemory, WriteLog, Done,
       Leave, LeaveGraph, LeaveOutside, CutShort
  <2> QED
    BY <2>1, <2>2 DEF GateInv, LoopGivesUp, LoopNeverRepeats, ThreeFailures, LastThree
<1> QED
  BY <1>1, <1>2

LEMMA GateHolds == Spec => []GateInv
<1>1. Init => GateInv
  BY BoundsAssumption DEF Init, GateInv, LoopGivesUp, LoopNeverRepeats, ThreeFailures
<1> QED
  BY <1>1, NextGateInv, TypesHold, PTL DEF Spec

\* The loop ends at its bound of rounds and after three rounds without a result.
THEOREM LoopEnds == Spec => []LoopGivesUp
<1>1. GateInv => LoopGivesUp
  BY DEF GateInv
<1> QED
  BY <1>1, GateHolds, PTL

\* The loop runs no call a second time.
THEOREM LoopRunsOnce == Spec => []LoopNeverRepeats
<1>1. GateInv => LoopNeverRepeats
  BY DEF GateInv
<1> QED
  BY <1>1, GateHolds, PTL

\* A plan sends the events of its calls, one for each, and no others.
LEMMA PlanGrows ==
    ASSUME TypeOK, PlanAndExecute
    PROVE  \E n \in Nat :
             /\ DOMAIN events = 1..Len(events) /\ Len(events) \in Nat
             /\ DOMAIN events' = 1..(Len(events) + n)
             /\ \A i \in 1..Len(events) : events'[i] = events[i]
             /\ \A i \in 1..(Len(events) + n) : i > Len(events) => events'[i].type \in {"tool_call", "thinking"}
<1>1. PICK k \in Nat : events' = events \o PlanEvents(k)
  <2>1. PICK tasks \in Planned : \E started \in Started(tasks) : PlanRan(tasks, started)
    BY DEF PlanAndExecute, PlanRan
  <2>2. PICK started \in Started(tasks) : PlanRan(tasks, started)
    BY <2>1
  <2>3. Cardinality(started) \in Nat
    BY TimesTyped
  <2> QED
    BY <2>2, <2>3 DEF PlanRan
<1> DEFINE sent == PlanEvents(k)
           n == Len(sent)
<1>2. /\ sent \in Seq(Events) /\ Len(sent) = n /\ n \in Nat
      /\ \A i \in 1..n : sent[i].type \in {"tool_call", "thinking"}
  BY PlanEventsTyped
<1>3. events' = events \o sent /\ events \in Seq(Events)
  BY <1>1 DEF TypeOK
<1> HIDE DEF sent, n
<1>4. /\ Len(events') = Len(events) + Len(sent)
      /\ \A i \in 1..(Len(events) + Len(sent)) :
           events'[i] = IF i <= Len(events) THEN events[i] ELSE sent[i - Len(events)]
      /\ events' \in Seq(Events)
  <2>1. /\ events \o sent \in Seq(Events)
        /\ Len(events \o sent) = Len(events) + Len(sent)
        /\ \A i \in 1..(Len(events) + Len(sent)) :
             (events \o sent)[i] = IF i <= Len(events) THEN events[i] ELSE sent[i - Len(events)]
    BY <1>2, <1>3, ConcatProperties
  <2> QED
    BY <1>3, <2>1
<1>5. Len(events) \in Nat /\ DOMAIN events = 1..Len(events) /\ DOMAIN events' = 1..(Len(events) + n)
  BY <1>2, <1>3, <1>4
<1>6. \A i \in 1..Len(events) : events'[i] = events[i]
  BY <1>2, <1>4, <1>5
<1>7. ASSUME NEW i \in 1..(Len(events) + n), i > Len(events)
      PROVE  events'[i].type \in {"tool_call", "thinking"}
  <2>1. i - Len(events) \in 1..n /\ events'[i] = sent[i - Len(events)]
    BY <1>2, <1>4, <1>5, <1>7
  <2> QED
    BY <1>2, <2>1
<1> QED
  BY <1>2, <1>5, <1>6, <1>7

-----------------------------------------------------------------------------
(* The status.                                                             *)

\* The status is not "success" from the first error sent, and from the first call
\* without a result; an answer is stored only under "success", and a turn is a
\* success only under it or after a refusal.
StatusInv ==
    /\ ToldAsLogged
    /\ ~ready => node \in {"called", "ended"} /\ outcome = "none" /\ saved = None
    /\ node = "called" => status = "success"
    /\ status = "success" => \A i \in DOMAIN history : history[i].result = "ok"
    /\ outcome = "success" => status \in {"success", "rejected"}
    /\ saved # None => status = "success"
    /\ outcome = "success" \/ saved # None =>
         node \in {"save_messages", "save_memory", "write_log", "done", "ended"}

\* Nothing but RunTool extends the history, and nothing but an error touches the status.
LEMMA ObserveStatus ==
    ASSUME TypeOK, StatusInv, node = "execute_tool", NEW r \in {"ok", "failed", "blocked"},
           Observe(r)
    PROVE  StatusInv'
<1>1. /\ history' = Append(history, [call |-> call, result |-> r])
      /\ node' = ShouldContinue(call, Append(history, [call |-> call, result |-> r]))
      /\ UNCHANGED <<ready, outcome, saved>>
      /\ r = "ok" => Send("response", "tool") /\ status' = status
      /\ r # "ok" => Send("error", "none") /\ status' = "error"
  BY DEF Observe, storeVars
<1>2. ready /\ outcome # "success" /\ saved = None
  BY DEF StatusInv
<1>3. ToldAsLogged'
  BY <1>1, SentAfter DEF StatusInv, ToldAsLogged, TypeOK
<1>4. ASSUME status' = "success" PROVE \A i \in DOMAIN history' : history'[i].result = "ok"
  <2>1. r = "ok" /\ status = "success"
    BY <1>1, <1>4
  <2> QED
    BY <1>1, <2>1, Grown DEF StatusInv
<1>5. node' # "called"
  BY <1>1 DEF ShouldContinue
<1> QED
  BY <1>1, <1>2, <1>3, <1>4, <1>5 DEF StatusInv

\* A step that sends one event, an error exactly if it sets the status.
LEMMA SendStatus ==
    ASSUME TypeOK, StatusInv, ready, node \in GraphNodes \cup {"done"}, NEW t, NEW x, Send(t, x),
           t = "error" => status' \in {"error", "rejected"} /\ node \in GraphNodes,
           t # "error" => status' = status,
           node' # "called", node = "done" => node' = "ended",
           UNCHANGED <<ready, history, outcome, saved>>
    PROVE  StatusInv'
<1>1. ToldAsLogged'
  BY SentAfter DEF StatusInv, ToldAsLogged, TypeOK
<1>2. status' = "success" => status = "success"
  BY DEF TypeOK
<1>3. outcome = "success" \/ saved # None => node = "done"
  BY DEF StatusInv, GraphNodes
<1> QED
  BY <1>1, <1>2, <1>3 DEF StatusInv, GraphNodes

LEMMA NextStatusInv == TypeOK /\ StatusInv /\ [Next]_vars => StatusInv'
<1> SUFFICES ASSUME TypeOK, StatusInv, [Next]_vars PROVE StatusInv'
  OBVIOUS
<1> USE DEF graphVars, streamVars, storeVars
<1>0. node \in GraphNodes => ready
  BY DEF StatusInv, GraphNodes
<1>1. CASE UNCHANGED vars
  BY <1>1 DEF vars, StatusInv, ToldAsLogged, Sent
<1>2. CASE Choose
  BY <1>0, <1>2, SendStatus DEF Choose, ChooseTool, ChooseKnowledge, ChooseClarify, ChoosePlan,
     ChooseChat, GraphNodes, Nodes
<1>3. CASE RunTool
  BY <1>3, ObserveStatus DEF RunTool, BlockDuplicate, ExecuteTool
<1>4. CASE Uninitialised
  BY <1>4 DEF Uninitialised, StatusInv, ToldAsLogged
<1>5. CASE Start
  <2>1. ~Sent("error") /\ ~Sent("error")'
    <3>1. status = "success"
      BY <1>5 DEF Start, StatusInv
    <3> QED
      BY <1>5, <3>1 DEF Start, StatusInv, ToldAsLogged, Sent, Event
  <2> QED
    BY <1>5, <2>1 DEF Start, StatusInv, ToldAsLogged
<1>6. CASE Rag
  <2>1. CASE RagChunk
    BY <1>0, <2>1, SendStatus DEF RagChunk, GraphNodes, Nodes
  <2>2. CASE RagDone
    BY <2>2 DEF RagDone, StatusInv, ToldAsLogged, Sent
  <2>3. CASE RagFails
    BY <1>0, <2>3, SendStatus DEF RagFails, GraphNodes, Nodes, Finally
  <2> QED
    BY <1>6, <2>1, <2>2, <2>3 DEF Rag
<1>7. CASE Answer
  BY <1>0, <1>7, SendStatus DEF Answer, ExecuteLlm, Clarify, Summarize, Reply, GraphNodes, Nodes,
     Finally
<1>8. CASE PlanAndExecute
  <2>2. Sent("error")' <=> Sent("error")
    <3>1. PICK n \in Nat :
            /\ DOMAIN events = 1..Len(events) /\ Len(events) \in Nat
            /\ DOMAIN events' = 1..(Len(events) + n)
            /\ \A i \in 1..Len(events) : events'[i] = events[i]
            /\ \A i \in 1..(Len(events) + n) : i > Len(events) => events'[i].type \in {"tool_call", "thinking"}
      BY <1>8, PlanGrows
    <3> QED
      BY <3>1 DEF Sent
  <2> QED
    BY <1>8, <2>2 DEF PlanAndExecute, StatusInv, ToldAsLogged
<1>9. CASE PlanFails \/ Broken
  BY <1>0, <1>9, SendStatus DEF PlanFails, Broken, GraphFails, GraphRefuses, Fails, GraphNodes, Nodes, Finally
<1>10. CASE SaveState \/ SaveMessages \/ SaveMemory \/ WriteLog
  <2>1. UNCHANGED <<ready, history, events, status>> /\ node' # "called"
    BY <1>10 DEF SaveState, SaveMessages, SaveMemory, WriteLog
  <2>2. ToldAsLogged'
    BY <2>1 DEF StatusInv, ToldAsLogged, Sent
  <2>3. ready
    BY <1>10 DEF StatusInv, SaveState, SaveMessages, SaveMemory, WriteLog
  <2>4. /\ outcome' = "success" => status \in {"success", "rejected"}
        /\ saved' # None => status = "success"
        /\ outcome' = "success" \/ saved' # None =>
             node' \in {"save_messages", "save_memory", "write_log", "done", "ended"}
    <3>1. CASE SaveState
      BY <3>1 DEF SaveState, StatusInv, TypeOK
    <3>2. CASE SaveMessages
      BY <3>2 DEF SaveMessages, StatusInv
    <3>3. CASE SaveMemory \/ WriteLog
      BY <3>3 DEF SaveMemory, WriteLog, StatusInv
    <3> QED
      BY <1>10, <3>1, <3>2, <3>3
  <2> QED
    BY <2>1, <2>2, <2>3, <2>4 DEF StatusInv
<1>11. CASE Done
  BY <1>11, SendStatus DEF Done, Nodes, StatusInv
<1>12. CASE Leave
  BY <1>0, <1>12 DEF Leave, LeaveGraph, LeaveOutside, CutShort, StatusInv, ToldAsLogged, Sent,
     GraphNodes, Finally
<1> QED
  BY <1>1, <1>2, <1>3, <1>4, <1>5, <1>6, <1>7, <1>8, <1>9, <1>10, <1>11, <1>12
     DEF Next, Step, RunPlan, Store

LEMMA StatusHolds == Spec => []StatusInv
<1>1. Init => StatusInv
  BY DEF Init, StatusInv, ToldAsLogged, Sent
<1> QED
  BY <1>1, NextStatusInv, TypesHold, PTL DEF Spec

\* The log says "success" exactly if the client was sent no error.
THEOREM LogTrue == Spec => []ToldAsLogged
<1>1. StatusInv => ToldAsLogged
  BY DEF StatusInv
<1> QED
  BY <1>1, StatusHolds, PTL

\* A turn that was not refused and is stored as a success had no failed call and
\* sent no error.
THEOREM OutcomeStored == Spec => []OutcomeTrue
<1>1. StatusInv => OutcomeTrue
  BY DEF StatusInv, ToldAsLogged, OutcomeTrue
<1> QED
  BY <1>1, StatusHolds, PTL

\* The loop is bounded in its rounds, its failures and its repeats.
THEOREM LoopIsBounded == Spec => []LoopBounded
<1>1. LoopGivesUp /\ LoopNeverRepeats => LoopBounded
  BY DEF LoopBounded
<1> QED
  BY <1>1, LoopEnds, LoopRunsOnce, PTL

\* What is kept of a turn is what the client was told of it, but for the outcome
\* of a refusal.
THEOREM RecordIsTrue == Spec => []RecordTrue
<1>1. ToldAsLogged /\ OutcomeTrue => RecordTrue
  BY DEF RecordTrue
<1> QED
  BY <1>1, LogTrue, OutcomeStored, PTL

-----------------------------------------------------------------------------
(* The answer.                                                             *)

\* The last response sent has the text x.
LastIs(x) ==
    \E i \in DOMAIN events :
      /\ events[i].type = "response"
      /\ events[i].text = x
      /\ \A j \in DOMAIN events : events[j].type = "response" => j <= i

\* The text of the responses an answer was collected from.
TextOf(source) == IF source = "rag" THEN "chunk" ELSE source

LEMMA LastIsChosen ==
    ASSUME events \in Seq(Events), NEW x, LastIs(x)
    PROVE  LastResponse = x
<1> DEFINE rs == {i \in DOMAIN events : events[i].type = "response"}
           last == CHOOSE i \in rs : \A j \in rs : j <= i
<1>1. PICK i \in DOMAIN events :
        /\ events[i].type = "response"
        /\ events[i].text = x
        /\ \A j \in DOMAIN events : events[j].type = "response" => j <= i
  BY DEF LastIs
<1>2. i \in rs /\ \A j \in rs : j <= i
  BY <1>1
<1>3. last \in rs /\ \A j \in rs : j <= last
  BY <1>2
<1>4. last = i
  BY <1>2, <1>3
<1> QED
  BY <1>1, <1>4 DEF LastResponse

LEMMA LastAfter ==
    ASSUME events \in Seq(Events), NEW t, NEW x, Send(t, x), NEW y
    PROVE  /\ t = "response" => LastIs(x)'
           /\ t # "response" /\ LastIs(y) => LastIs(y)'
<1>1. /\ events' = Append(events, Event(t, x))
      /\ DOMAIN events' = 1..(Len(events) + 1)
      /\ DOMAIN events = 1..Len(events)
      /\ Len(events) \in Nat
      /\ events'[Len(events) + 1].type = t
      /\ events'[Len(events) + 1].text = x
      /\ \A i \in 1..Len(events) : events'[i] = events[i]
  BY DEF Send, Event
<1>2. ASSUME t = "response" PROVE LastIs(x)'
  BY <1>1, <1>2 DEF LastIs
<1>3. ASSUME t # "response", LastIs(y) PROVE LastIs(y)'
  <2>1. PICK i \in DOMAIN events :
          /\ events[i].type = "response"
          /\ events[i].text = y
          /\ \A j \in DOMAIN events : events[j].type = "response" => j <= i
    BY <1>3 DEF LastIs
  <2>2. /\ i \in DOMAIN events' /\ events'[i] = events[i]
        /\ \A j \in DOMAIN events' : events'[j].type = "response" => j <= i
    BY <1>1, <1>3, <2>1
  <2> QED
    BY <2>1, <2>2 DEF LastIs
<1> QED
  BY <1>2, <1>3

\* While no error was sent and the client still reads, what was collected is
\* what the client was sent last; a stream of chunks is collected at its end.
AnswerInv ==
    /\ connected /\ status = "success" =>
         /\ ~(node = "execute_rag" /\ chunks > 0) /\ collected # None => LastIs(TextOf(collected))
         /\ node = "execute_rag" /\ chunks > 0 => LastIs("chunk")
    /\ saved # None => saved = collected /\ node \in {"save_memory", "write_log", "done", "ended"}
    /\ node = "called" => collected = None

\* Where a turn is, and what it has sent by then.
StreamInv ==
    /\ node \in {"called", "llm_with_tools", "execute_tool"} => chunks = 0
    /\ node = "called" => events = <<>> /\ connected
    /\ node \notin {"called", "ended"} => ready /\ Sent("start") /\ ~Sent("done")
    /\ node \in GraphNodes \cup {"done"} => connected
    /\ node = "execute_rag" /\ chunks > 0 => Sent("response")
    /\ node \in Finally \cup {"done"} /\ connected => Sent("response") \/ Sent("error")

LEMMA InitAnswerInv == Init => AnswerInv /\ StreamInv
BY DEF Init, AnswerInv, StreamInv, GraphNodes, Finally

LEMMA NextStreamInv == TypeOK /\ StreamInv /\ [Next]_vars => StreamInv'
<1> SUFFICES ASSUME TypeOK, StreamInv, [Next]_vars PROVE StreamInv'
  OBVIOUS
<1> USE DEF GraphNodes, Finally
<1>0. events \in Seq(Events)
  BY DEF TypeOK
<1>1. CASE UNCHANGED vars
  BY <1>1 DEF vars, graphVars, StreamInv, Sent
<1>2. CASE Choose
  <2>1. PICK t \in {"tool_call", "thinking"} : Send(t, "none")
    BY <1>2 DEF Choose, ChooseTool, ChooseKnowledge, ChooseClarify, ChoosePlan, ChooseChat
  <2>2. /\ node = "llm_with_tools"
        /\ node' \in {"execute_tool", "execute_rag", "clarify_node", "plan_and_execute", "execute_llm"}
        /\ UNCHANGED <<ready, connected, chunks>>
    BY <1>2 DEF Choose, ChooseTool, ChooseKnowledge, ChooseClarify, ChoosePlan, ChooseChat
  <2>3. (Sent("start") => Sent("start")') /\ (Sent("done")' => Sent("done"))
    BY <1>0, <2>1, SentAfter
  <2> QED
    BY <2>2, <2>3 DEF StreamInv
<1>3. CASE RunTool
  <2>1. PICK r \in {"ok", "failed", "blocked"} : Observe(r)
    BY <1>3 DEF RunTool, BlockDuplicate, ExecuteTool
  <2>2. node = "execute_tool"
    BY <1>3 DEF RunTool, BlockDuplicate, ExecuteTool
  <2>3. /\ node' \in {"llm_with_tools", "save_state", "summarize"}
        /\ UNCHANGED <<ready, connected, chunks>>
    BY <2>1 DEF Observe, ShouldContinue
  <2>4. (Sent("start") => Sent("start")') /\ (Sent("done")' => Sent("done"))
        /\ (Sent("response")' \/ Sent("error")')
    BY <1>0, <2>1, SentAfter DEF Observe
  <2> QED
    BY <2>2, <2>3, <2>4 DEF StreamInv
<1>4. CASE Uninitialised
  BY <1>4 DEF Uninitialised, StreamInv
<1>5. CASE Start
  <2>1. /\ DOMAIN events' = 1..2
        /\ events'[1].type = "start" /\ events'[2].type = "thinking"
    BY <1>5 DEF Start, Event
  <2>2. Sent("start")' /\ ~Sent("done")'
    BY <2>1 DEF Sent
  <2> QED
    BY <1>5, <2>2 DEF Start, StreamInv, graphVars
<1>6. CASE Rag
  <2>1. CASE RagChunk
    BY <1>0, <2>1, SentAfter DEF RagChunk, StreamInv
  <2>2. CASE RagDone
    BY <2>2 DEF RagDone, StreamInv, Sent, graphVars, TypeOK
  <2>3. CASE RagFails
    BY <1>0, <2>3, SentAfter DEF RagFails, StreamInv
  <2> QED
    BY <1>6, <2>1, <2>2, <2>3 DEF Rag
<1>7. CASE Answer
  BY <1>0, <1>7, SentAfter DEF Answer, ExecuteLlm, Clarify, Summarize, Reply, StreamInv
<1>8. CASE PlanAndExecute
  <2>1. PICK n \in Nat :
          /\ DOMAIN events = 1..Len(events) /\ Len(events) \in Nat
          /\ DOMAIN events' = 1..(Len(events) + n)
          /\ \A i \in 1..Len(events) : events'[i] = events[i]
          /\ \A i \in 1..(Len(events) + n) : i > Len(events) => events'[i].type \in {"tool_call", "thinking"}
    BY <1>8, PlanGrows
  <2>2. (Sent("start") => Sent("start")') /\ (Sent("done")' => Sent("done"))
    BY <2>1 DEF Sent
  <2> QED
    BY <1>8, <2>2 DEF PlanAndExecute, StreamInv
<1>9. CASE PlanFails \/ Broken
  BY <1>0, <1>9, SentAfter DEF PlanFails, Broken, GraphFails, GraphRefuses, Fails, StreamInv
<1>10. CASE SaveState \/ SaveMessages \/ SaveMemory \/ WriteLog
  BY <1>10 DEF SaveState, SaveMessages, SaveMemory, WriteLog, StreamInv, Sent
<1>11. CASE Done
  BY <1>11 DEF Done, StreamInv
<1>12. CASE Leave
  BY <1>12 DEF Leave, LeaveGraph, LeaveOutside, CutShort, StreamInv, Sent
<1> QED
  BY <1>1, <1>2, <1>3, <1>4, <1>5, <1>6, <1>7, <1>8, <1>9, <1>10, <1>11, <1>12
     DEF Next, Step, RunPlan, Store

LEMMA NextAnswerInv ==
    TypeOK /\ StatusInv /\ StreamInv /\ AnswerInv /\ [Next]_vars => AnswerInv'
<1> SUFFICES ASSUME TypeOK, StatusInv, StreamInv, AnswerInv, [Next]_vars PROVE AnswerInv'
  OBVIOUS
<1>0. events \in Seq(Events)
  BY DEF TypeOK
<1>1. CASE UNCHANGED vars
  BY <1>1 DEF vars, graphVars, streamVars, storeVars, AnswerInv, LastIs
<1>2. CASE Choose
  BY <1>0, <1>2, LastAfter DEF StreamInv, Choose, ChooseTool, ChooseKnowledge, ChooseClarify, ChoosePlan,
     ChooseChat, AnswerInv, storeVars
<1>3. CASE RunTool
  <2>1. PICK r \in {"ok", "failed", "blocked"} : Observe(r)
    BY <1>3 DEF RunTool, BlockDuplicate, ExecuteTool
  <2>2. node = "execute_tool"
    BY <1>3 DEF RunTool, BlockDuplicate, ExecuteTool
  <2>3. /\ node' \in {"llm_with_tools", "save_state", "summarize"}
        /\ UNCHANGED <<chunks, connected, saved>>
        /\ status' = "success" => collected' = "tool" /\ Send("response", "tool")
    BY <2>1 DEF Observe, ShouldContinue, storeVars
  <2>4. status' = "success" => LastIs("tool")'
    BY <1>0, <2>3, LastAfter
  <2> QED
    BY <2>2, <2>3, <2>4 DEF AnswerInv, TextOf
<1>4. CASE Uninitialised
  BY <1>4 DEF Uninitialised, graphVars, streamVars, storeVars, AnswerInv
<1>5. CASE Start
  BY <1>5 DEF Start, graphVars, streamVars, storeVars, AnswerInv
<1>6. CASE Rag
  <2>1. CASE RagChunk
    BY <1>0, <2>1, LastAfter DEF RagChunk, AnswerInv, streamVars, storeVars, TypeOK
  <2>2. CASE RagDone
    BY <2>2 DEF RagDone, AnswerInv, LastIs, TextOf, storeVars, graphVars
  <2>3. CASE RagFails
    BY <2>3 DEF RagFails, AnswerInv, storeVars, graphVars
  <2> QED
    BY <1>6, <2>1, <2>2, <2>3 DEF Rag
<1>7. CASE Answer
  <2>1. PICK a \in {"execute_llm", "clarify_node", "summarize"}, x \in {"llm", "clarify", "summary"} :
          Reply(a, x)
    BY <1>7 DEF Answer, ExecuteLlm, Clarify, Summarize
  <2>2. LastIs(x)' /\ TextOf(x) = x
    BY <1>0, <2>1, LastAfter DEF Reply, TextOf
  <2> QED
    BY <2>1, <2>2 DEF Reply, AnswerInv, TextOf, storeVars, graphVars
<1>8. CASE PlanAndExecute
  <2>1. PICK n \in Nat :
          /\ DOMAIN events = 1..Len(events) /\ Len(events) \in Nat
          /\ DOMAIN events' = 1..(Len(events) + n)
          /\ \A i \in 1..Len(events) : events'[i] = events[i]
          /\ \A i \in 1..(Len(events) + n) : i > Len(events) => events'[i].type \in {"tool_call", "thinking"}
    BY <1>8, PlanGrows
  <2>2. ASSUME NEW y, LastIs(y) PROVE LastIs(y)'
    <3>1. PICK i \in DOMAIN events :
            /\ events[i].type = "response"
            /\ events[i].text = y
            /\ \A j \in DOMAIN events : events[j].type = "response" => j <= i
      BY <2>2 DEF LastIs
    <3>2. /\ i \in DOMAIN events' /\ events'[i] = events[i]
          /\ \A j \in DOMAIN events' : events'[j].type = "response" => j <= i
      BY <2>1, <3>1
    <3> QED
      BY <3>1, <3>2 DEF LastIs
  <2> QED
    BY <1>8, <2>2 DEF PlanAndExecute, AnswerInv, streamVars, storeVars
<1>9. CASE PlanFails \/ Broken
  BY <1>9 DEF PlanFails, Broken, GraphFails, GraphRefuses, Fails, AnswerInv, storeVars, graphVars, GraphNodes
<1>10. CASE SaveState \/ SaveMessages \/ SaveMemory \/ WriteLog
  BY <1>10 DEF SaveState, SaveMessages, SaveMemory, WriteLog, AnswerInv, LastIs, streamVars,
     storeVars, graphVars
<1>11. CASE Done
  BY <1>0, <1>11, LastAfter DEF Done, AnswerInv, streamVars, storeVars, graphVars
<1>12. CASE Leave
  BY <1>12 DEF Leave, LeaveGraph, LeaveOutside, CutShort, AnswerInv, streamVars, storeVars,
     graphVars, GraphNodes, Finally
<1> QED
  BY <1>1, <1>2, <1>3, <1>4, <1>5, <1>6, <1>7, <1>8, <1>9, <1>10, <1>11, <1>12
     DEF Next, Step, RunPlan, Store

\* The session remembers the last response of a turn without an error.
THEOREM AnswerRemembered == Spec => []SavedAnswer
<1>1. TypeOK /\ StatusInv /\ AnswerInv => SavedAnswer
  <2> SUFFICES ASSUME TypeOK, StatusInv, AnswerInv, saved # None
               PROVE  ~Sent("error") /\ (connected => LastResponse = TextOf(saved))
    BY DEF SavedAnswer, TextOf
  <2>1. status = "success" /\ ready
    BY DEF StatusInv
  <2>2. ~Sent("error")
    BY <2>1 DEF StatusInv, ToldAsLogged
  <2>3. ASSUME connected PROVE LastResponse = TextOf(saved)
    <3>1. LastIs(TextOf(saved))
      BY <2>1, <2>3 DEF AnswerInv
    <3> QED
      BY <3>1, LastIsChosen DEF TypeOK
  <2> QED
    BY <2>2, <2>3
<1> QED
  BY <1>1, InitAnswerInv, NextAnswerInv, NextStreamInv, TypesHold, StatusHolds, PTL DEF Spec

-----------------------------------------------------------------------------
(* The stream keeps its protocol.                                          *)

\* The phase of a stream that is open, by what was sent on it.
Told ==
    IF ~connected THEN "left"
    ELSE IF Sent("response") \/ Sent("error") THEN "answered" ELSE "open"

PhaseInv ==
    /\ node = "called" => Phase = "idle" /\ ~Sent("error")
    /\ node \notin {"called", "ended"} => Phase = Told

LEMMA PhaseKnown == TypeOK /\ StatusInv /\ StreamInv => PhaseInv
<1> SUFFICES ASSUME TypeOK, StatusInv, StreamInv PROVE PhaseInv
  OBVIOUS
<1>1. CASE node = "called"
  <2>1. events = <<>> /\ connected
    BY <1>1 DEF StreamInv
  <2>2. \A t : ~Sent(t)
    BY <2>1 DEF Sent
  <2> QED
    BY <1>1, <2>1, <2>2 DEF PhaseInv, Phase
<1>2. CASE node \notin {"called", "ended"}
  <2>1. ready /\ Sent("start") /\ ~Sent("done") /\ connected \in BOOLEAN
    BY <1>2 DEF StreamInv, TypeOK
  <2>2. Phase = Told
    <3>1. CASE ~connected
      BY <2>1, <3>1 DEF Phase, Told
    <3>2. CASE connected /\ (Sent("response") \/ Sent("error"))
      BY <2>1, <3>2 DEF Phase, Told
    <3>3. CASE connected /\ ~Sent("response") /\ ~Sent("error")
      BY <2>1, <3>3 DEF Phase, Told
    <3> QED
      BY <3>1, <3>2, <3>3
  <2> QED
    BY <1>2, <2>2 DEF PhaseInv
<1> QED
  BY <1>1, <1>2 DEF PhaseInv

\* A step of a turn that stays open sends what only answers, or nothing.
LEMMA OpenStep ==
    ASSUME PhaseInv, PhaseInv', TypeOK,
           node \notin {"called", "ended"}, node' \notin {"called", "ended"},
           connected' = connected, node \in GraphNodes => connected,
           \A t \in {"response", "error"} : Sent(t) => Sent(t)',
           node \notin GraphNodes => \A t \in {"response", "error"} : Sent(t)' = Sent(t)
    PROVE  [Protocol!Next]_<<Phase, Sent("error")>>
<1>1. Phase = Told /\ Phase' = Told'
  BY DEF PhaseInv
<1>2. CASE node \in GraphNodes
  <2>1. connected /\ connected'
    BY <1>2
  <2>2. CASE Sent("response")' \/ Sent("error")'
    <3>1. Phase \in {"open", "answered"} /\ Phase' = "answered"
      BY <1>1, <2>1, <2>2 DEF Told
    <3>2. Sent("error")' \in {Sent("error"), TRUE}
      BY DEF Sent
    <3> QED
      BY <3>1, <3>2 DEF Protocol!Next, Protocol!Answer
  <2>3. CASE ~Sent("response")' /\ ~Sent("error")'
    <3>1. ~Sent("response") /\ ~Sent("error")
      BY <2>3
    <3> QED
      BY <1>1, <2>1, <2>3, <3>1 DEF Told, Sent
  <2> QED
    BY <2>2, <2>3
<1>3. CASE node \notin GraphNodes
  <2>1. Sent("response")' = Sent("response") /\ Sent("error")' = Sent("error")
    BY <1>3
  <2> QED
    BY <1>1, <2>1 DEF Told
<1> QED
  BY <1>2, <1>3

LEMMA StreamStep ==
    TypeOK /\ StatusInv /\ StreamInv /\ PhaseInv /\ StreamInv' /\ PhaseInv' /\ [Next]_vars
        => [Protocol!Next]_<<Phase, Sent("error")>>
<1> SUFFICES ASSUME TypeOK, StatusInv, StreamInv, PhaseInv, StreamInv', PhaseInv', [Next]_vars
             PROVE  [Protocol!Next]_<<Phase, Sent("error")>>
  OBVIOUS
<1>0. /\ events \in Seq(Events)
      /\ node \in GraphNodes => connected
  BY DEF TypeOK, StreamInv
<1>1. CASE UNCHANGED vars
  BY <1>1 DEF vars, graphVars, Phase, Sent
<1>2. CASE Uninitialised
  <2>1. ~ready' /\ events' # <<>> /\ Sent("error")' /\ ~Sent("done")' /\ connected'
    <3>1. events' = <<Event("error", "none")>> /\ ~ready' /\ connected'
      BY <1>2 DEF Uninitialised, StreamInv, Send, Event
    <3>2. DOMAIN events' = 1..1 /\ events'[1].type = "error"
      BY <3>1 DEF Event
    <3>3. Sent("error")' /\ ~Sent("done")'
      BY <3>2 DEF Sent
    <3> QED
      BY <3>1, <3>3
  <2>2. Phase' = "refused"
    BY <2>1 DEF Phase
  <2>3. Phase = "idle"
    BY <1>2 DEF Uninitialised, PhaseInv
  <2> QED
    BY <2>1, <2>2, <2>3 DEF Protocol!Next, Protocol!Refuse, Sent
<1>3. CASE Start
  <2>1. node' = "llm_with_tools" /\ connected' /\ Phase = "idle" /\ ~Sent("error")
    BY <1>3 DEF Start, PhaseInv, StreamInv
  <2>2. ~Sent("response")' /\ ~Sent("error")'
    <3>1. DOMAIN events' = 1..2 /\ events'[1].type = "start" /\ events'[2].type = "thinking"
      BY <1>3 DEF Start, Event
    <3> QED
      BY <3>1 DEF Sent
  <2>3. Phase' = "open"
    BY <2>1, <2>2 DEF PhaseInv, Told
  <2> QED
    BY <2>1, <2>2, <2>3 DEF Protocol!Next, Protocol!Open, Sent
<1>4. CASE Choose \/ Answer \/ Rag \/ PlanFails \/ Broken
  <2>1. /\ node \in GraphNodes /\ node' \notin {"called", "ended"} /\ connected' = connected
        /\ events' = events \/ \E t, x : Send(t, x)
    BY <1>4 DEF Choose, ChooseTool, ChooseKnowledge, ChooseClarify, ChoosePlan, ChooseChat,
       Answer, ExecuteLlm, Clarify, Summarize, Reply, Rag, RagChunk, RagDone, RagFails,
       PlanFails, Broken, GraphFails, GraphRefuses, Fails, GraphNodes
  <2>2. \A t \in {"response", "error"} : Sent(t) => Sent(t)'
    BY <1>0, <2>1, SentAfter DEF Sent
  <2> QED
    BY <1>0, <2>1, <2>2, OpenStep DEF GraphNodes
<1>5. CASE RunTool
  <2>1. PICK r \in {"ok", "failed", "blocked"} : Observe(r)
    BY <1>5 DEF RunTool, BlockDuplicate, ExecuteTool
  <2>2. /\ node \in GraphNodes /\ node' \notin {"called", "ended"} /\ connected' = connected
        /\ \E t, x : Send(t, x)
    BY <1>5, <2>1 DEF RunTool, BlockDuplicate, ExecuteTool, Observe, ShouldContinue, GraphNodes
  <2>3. \A t \in {"response", "error"} : Sent(t) => Sent(t)'
    BY <1>0, <2>2, SentAfter
  <2> QED
    BY <1>0, <2>2, <2>3, OpenStep DEF GraphNodes
<1>6. CASE PlanAndExecute
  <2>1. /\ node \in GraphNodes /\ node' \notin {"called", "ended"} /\ connected' = connected
    BY <1>6 DEF PlanAndExecute, GraphNodes
  <2>2. PICK n \in Nat :
          /\ DOMAIN events = 1..Len(events) /\ Len(events) \in Nat
          /\ DOMAIN events' = 1..(Len(events) + n)
          /\ \A i \in 1..Len(events) : events'[i] = events[i]
          /\ \A i \in 1..(Len(events) + n) : i > Len(events) => events'[i].type \in {"tool_call", "thinking"}
    BY <1>6, PlanGrows
  <2>3. \A t \in {"response", "error"} : Sent(t) => Sent(t)'
    BY <2>2 DEF Sent
  <2> QED
    BY <1>0, <2>1, <2>3, OpenStep DEF GraphNodes
<1>7. CASE SaveState \/ SaveMessages \/ SaveMemory \/ WriteLog
  <2>1. /\ node \in Finally /\ connected' = connected /\ events' = events /\ ready' = ready
        /\ node' # "called"
        /\ node' = "ended" => ~connected
    BY <1>7 DEF SaveState, SaveMessages, SaveMemory, WriteLog, Finally
  <2>2. CASE node' # "ended"
    BY <1>0, <2>1, <2>2, OpenStep DEF Finally, GraphNodes, Sent
  <2>3. CASE node' = "ended"
    <3>1. Phase = "left"
      BY <2>1, <2>3 DEF PhaseInv, Told, Finally
    <3>2. Phase' = Phase /\ Sent("error")' = Sent("error")
      BY <2>1 DEF Phase, Sent
    <3> QED
      BY <3>2
  <2> QED
    BY <2>2, <2>3
<1>8. CASE Done
  <2>1. connected /\ ready' /\ (Sent("response") \/ Sent("error"))
    BY <1>8 DEF Done, StreamInv
  <2>2. Phase = "answered"
    BY <1>8, <2>1 DEF Done, PhaseInv, Told
  <2>3. Sent("done")' /\ Sent("error")' = Sent("error") /\ Sent("response")' = Sent("response")
    <3>1. Send("done", "none")
      BY <1>8 DEF Done
    <3>2. /\ Sent("done")' <=> Sent("done") \/ "done" = "done"
          /\ Sent("error")' <=> Sent("error") \/ "done" = "error"
          /\ Sent("response")' <=> Sent("response") \/ "done" = "response"
      BY <1>0, <3>1, SentAfter
    <3>3. Sent("error") \in BOOLEAN /\ Sent("response") \in BOOLEAN
      BY DEF Sent
    <3>4. Sent("error")' \in BOOLEAN /\ Sent("response")' \in BOOLEAN
      BY DEF Sent
    <3> QED
      BY <3>2, <3>3, <3>4
  <2>4. Phase' = "done"
    BY <2>1, <2>3 DEF Phase
  <2> QED
    BY <2>2, <2>3, <2>4 DEF Protocol!Next, Protocol!Finish
<1>9. CASE LeaveGraph \/ LeaveOutside
  <2>1. /\ connected /\ ~connected' /\ events' = events /\ ready' = ready /\ node # "ended"
        /\ Sent("error")' = Sent("error")
    BY <1>9 DEF LeaveGraph, LeaveOutside, GraphNodes, Finally, Sent
  <2>2. Phase \in {"idle", "open", "answered"}
    BY <2>1 DEF PhaseInv, Told
  <2>3. ~Sent("done")' /\ (ready' \/ events' = <<>>)
    <3>1. CASE node = "called"
      BY <2>1, <3>1 DEF StreamInv, Sent
    <3>2. CASE node # "called"
      BY <2>1, <3>2 DEF StreamInv, Sent
    <3> QED
      BY <3>1, <3>2
  <2>4. Phase' = "left"
    BY <2>1, <2>3 DEF Phase
  <2> QED
    BY <2>1, <2>2, <2>4 DEF Protocol!Next, Protocol!Leave
<1>10. CASE CutShort
  <2>1. Phase' = Phase /\ Sent("error")' = Sent("error")
    BY <1>10 DEF CutShort, Phase, Sent
  <2> QED
    BY <2>1
<1> QED
  BY <1>1, <1>2, <1>3, <1>4, <1>5, <1>6, <1>7, <1>8, <1>9, <1>10
     DEF Next, Step, RunPlan, Store, Leave

\* Every turn implements TurnProtocol: what its client sees is opened, answered
\* and done in this order, and an error is never taken back.
THEOREM StreamKeepsProtocol == Spec => KeepsProtocol
<1>1. Init => Protocol!Init
  BY DEF Init, Phase, Sent, Protocol!Init
<1>2. [](TypeOK /\ StatusInv /\ StreamInv /\ PhaseInv) /\ [][Next]_vars
        => [][Protocol!Next]_<<Phase, Sent("error")>>
  BY StreamStep, PTL
<1> QED
  BY <1>1, <1>2, InitAnswerInv, NextStreamInv, PhaseKnown, TypesHold, StatusHolds, PTL
     DEF Spec, KeepsProtocol, Protocol!Spec
=============================================================================
