---------------------------- MODULE IntentRouting ----------------------------
(***************************************************************************)
(* One message on its way through the intent router: the classification by *)
(* the language model, the rules that stand in for it, the extraction of   *)
(* parameters, and then one of the two users of the result: the classifier *)
(* node of the agent, or the router's own route decision and its handlers. *)
(* A message is the set of the words the rules look for, each standing     *)
(* apart from the others; its words are chosen where they are read.        *)
(* Scores are in tenths, confidences in hundredths.                        *)
(***************************************************************************)
EXTENDS Naturals, FiniteSets, Functions

CONSTANTS
    None,
    MaxWords        \* bound: words of a message

Types == {"knowledge_qa", "tool_execution", "complex_request", "general_chat"}
Tools == {"query_timesheet", "compute_statistics", "query_project", "save_workhour",
          "generate_weekly_report"}
Targets == {"rag_engine", "tool_executor", "planner_agent", "llm_service"}

VARIABLES
    at,         \* where the message is
    llm,        \* "none"; "key": for classification only; "client": for extraction too
    rules,      \* whether the rules have the words of every tool
    message,    \* the words, while the rules read them
    intent,     \* what the message is taken for
    tool,
    params,     \* the names of the parameters
    registered, \* the targets that have a handler
    calls,      \* how often each handler was called
    missed      \* whether the target had no handler, or failed

vars == <<at, llm, rules, message, intent, tool, params, registered, calls, missed>>

-----------------------------------------------------------------------------
(* The rules.                                                              *)

TimesheetWords == {"hours", "overtime"}
StatisticsWords == {"stat", "average", "analyse"}
ProjectWords == {"project"}
KnowledgeWords == {"whatis", "how", "fill", "apply", "rule", "deadline"}
ActionWords == {"query", "stat", "compute", "analyse"}
Indicators == {"then"}
Words == TimesheetWords \cup StatisticsWords \cup ProjectWords \cup KnowledgeWords
           \cup ActionWords \cup Indicators
           \cup {"view", "my", "record", "dept", "mark", "long"}

\* "whatis" and "how" both stand at the start.
Messages == {m \in {Range(f) : f \in [1..MaxWords -> Words]} : ~({"whatis", "how"} \subseteq m)}

If(condition, score) == IF condition THEN score ELSE 0
Least(a, b) == IF a <= b THEN a ELSE b

\* The signals of _check_tool_intent for each tool.
ToolScore(m) ==
    LET some(words) == m \cap words # {}
        hits(words) == 10 * Cardinality(m \cap words)
        asked == some({"query", "view"})
    IN [query_timesheet |->
            hits(TimesheetWords)
              + If(asked /\ some({"hours", "overtime", "record"}), 35)
              + If({"my", "hours"} \subseteq m, 20) + If("hours" \in m, 15)
              + If({"view", "record"} \subseteq m, 20),
        compute_statistics |->
            hits(StatisticsWords)
              + If("stat" \in m /\ some({"dept", "project"}), 40)
              + If({"stat", "hours"} \subseteq m, 25)
              + If({"compute", "average"} \subseteq m, 30) + If("stat" \in m, 5),
        query_project |->
            hits(ProjectWords) + If(asked /\ "project" \in m, 25)]

\* max: the first of the best, in this order.
BestTool(m) ==
    LET s == ToolScore(m)
    IN CASE /\ s.query_timesheet >= s.compute_statistics
            /\ s.query_timesheet >= s.query_project -> "query_timesheet"
         [] /\ s.compute_statistics > s.query_timesheet
            /\ s.compute_statistics >= s.query_project -> "compute_statistics"
         [] OTHER -> "query_project"

\* The confidence of _check_tool_intent, 0 when it finds nothing.
ToolConfidence(m) ==
    LET best == ToolScore(m)[BestTool(m)] IN If(best >= 5, Least(90, 50 + best))

\* The confidence of _check_knowledge_intent, 0 when it finds nothing.
KnowledgeConfidence(m) ==
    LET whatis == "whatis" \in m
        strong == whatis \/ "rule" \in m
        howTo == "how" \in m /\ m \cap {"apply", "query", "view", "stat"} # {}
        howToFill == {"how", "fill"} \subseteq m
        more == 10 * Cardinality(m \cap KnowledgeWords)
                  + (IF whatis THEN 35 ELSE If(m \cap {"mark", "how"} # {}, 8))
                  + If(howToFill, 10) + If(strong, 10)
        less == If(howTo /\ ~howToFill, 15)
                  + If(m \cap {"hours", "project", "overtime", "stat"} # {} /\ ~strong, 5)
        threshold == IF howTo THEN 15 ELSE IF strong THEN 3 ELSE 5
    IN If(more >= less + threshold \/ (strong /\ ~howTo), Least(90, 50 + more - less))

\* _check_complex_intent
Complex(m) ==
    LET actions == Cardinality(m \cap ActionWords)
    IN 10 * Cardinality(m \cap Indicators) + If(actions >= 2, 5 * actions) + If("long" \in m, 3) >= 5

PrefersMut(knowledge, toolish) == knowledge < toolish
Prefers(knowledge, toolish) == knowledge > toolish

\* _rule_based_classify
Verdict(m) ==
    LET t == ToolConfidence(m)
        k == KnowledgeConfidence(m)
    IN CASE Complex(m) -> "complex_request"
         [] ~Complex(m) /\ t >= 70 -> IF Prefers(k, t) THEN "knowledge_qa" ELSE "tool_execution"
         [] ~Complex(m) /\ t < 70 /\ k >= 60 -> "knowledge_qa"
         [] ~Complex(m) /\ t < 70 /\ k < 60 /\ t > 0 ->
              IF k > 0 /\ Prefers(k, t) THEN "knowledge_qa" ELSE "tool_execution"
         [] OTHER -> IF ~Complex(m) /\ k > 0 THEN "knowledge_qa" ELSE "general_chat"

-----------------------------------------------------------------------------
(* The parameters.                                                         *)

\* _extract_tool_parameters: what the patterns find.
Patterns(t) ==
    CASE t = "query_timesheet" ->
           {{"start_date", "end_date"} \cup more : more \in {{}, {"target_self"}, {"member_name"}}}
      [] t = "query_project" -> {{}, {"project_name"}}
      [] t = "compute_statistics" -> {{}, {"statistics_type"}}
      [] OTHER -> {{}}

\* _extract_parameters_with_llm: for two tools the model is asked, and the
\* patterns help when it fails.
Extracted(t) ==
    Patterns(t) \cup
    (CASE t = "query_timesheet" -> SUBSET {"start_date", "end_date", "member_name"}
       [] t = "save_workhour" -> SUBSET {"project_id", "date", "duration", "description"}
       [] OTHER -> {})

MetaParams == {"tool_name", "matched_keywords", "llm_classified", "query"}

\* Who the call is for: the asker, unless a colleague is named.
WithUserMut(ps) == ps \cup {"user_id"}
WithUser(ps) == IF "member_name" \in ps THEN ps ELSE ps \cup {"user_id"}

Required(t) ==
    CASE t = "save_workhour" -> {"project_id", "date", "duration"}
      [] t = "query_timesheet" -> {"start_date", "end_date"}
      [] t = "compute_statistics" -> {"statistics_type", "start_date", "end_date"}
      [] OTHER -> {}

\* _tool_call_clarification asks when something is missing, and may ask for
\* what the words of the message lack.
MustClarifyMut(t, ps) == FALSE
MustClarify(t, ps) == ~(Required(t) \subseteq ps)

-----------------------------------------------------------------------------
(* route_intent                                                            *)

Init ==
    /\ at = "called"
    /\ llm \in {"none", "key", "client"}
    /\ rules \in BOOLEAN
    /\ message = {}
    /\ intent = None
    /\ tool = None
    /\ params = {}
    /\ registered = {}
    /\ calls = [t \in Targets |-> 0]
    /\ missed = FALSE

Is(type, t, ps) ==
    /\ intent' = type
    /\ tool' = t
    /\ params' = ps
    /\ UNCHANGED <<llm, rules, registered, calls, missed>>

\* _check_chat_intent: a greeting, or nothing to read.
Greet ==
    /\ at = "called"
    /\ Is("general_chat", None, {})
    /\ at' = "classified"
    /\ UNCHANGED message

\* _classify_with_llm: an unknown type is chat; a tool may be left out.
ClassifyWithLlm ==
    /\ at = "called" /\ llm # "none"
    /\ \E type \in Types, t \in Tools \cup {None} :
         /\ Is(type, t, {"llm_classified", "query"} \cup (IF t = None THEN {} ELSE {"tool_name"}))
         /\ at' = IF type = "tool_execution" /\ llm = "client" /\ t # None
                  THEN "extracting" ELSE "classified"
    /\ UNCHANGED message

ExtractWithLlm ==
    /\ at = "extracting"
    /\ \E found \in Extracted(tool) : Is(intent, tool, params \cup found)
    /\ at' = "classified"
    /\ UNCHANGED message

\* There is no model, or its answer was of no use.
AskRules ==
    /\ at = "called"
    /\ \E m \in Messages : message' = m
    /\ at' = "rules"
    /\ UNCHANGED <<llm, rules, intent, tool, params, registered, calls, missed>>

\* The words of a tool that is missing in the rules file raise a KeyError,
\* which makes the message chat.
RuleBasedClassify ==
    /\ at = "rules"
    /\ LET v == IF rules \/ Complex(message) THEN Verdict(message) ELSE "general_chat"
           t == BestTool(message)
       IN CASE v = "tool_execution" ->
                 \E found \in Patterns(t) : Is(v, t, {"tool_name", "matched_keywords"} \cup found)
            [] v = "knowledge_qa" -> Is(v, None, {"matched_keywords", "query"})
            [] v = "complex_request" ->
                 Is(v, None, {"matched_indicators", "action_count", "message_length"})
            [] OTHER -> Is(v, None, {})
    /\ at' = "classified"
    /\ message' = {}

-----------------------------------------------------------------------------
(* node_classify_intent                                                    *)

Leaves(type, t, ps) == Is(type, t, ps) /\ at' = "left" /\ UNCHANGED message

NotATool ==
    /\ at = "classified" /\ intent # "tool_execution"
    /\ Leaves(intent, None, {})

TakeTool ==
    /\ at = "classified" /\ intent = "tool_execution"
    /\ Is(intent, tool, WithUser(params \ MetaParams))
    /\ at' = "checking"
    /\ UNCHANGED message

\* A project given by its id is looked up before anything is saved for it.
VerifyProject ==
    /\ at = "checking" /\ tool = "save_workhour" /\ "project_id" \in params
    /\ Leaves("tool_execution", "query_project", {"project_id"})

\* After a reply that looks like a project id, the lookup is taken for granted
\* even when no project was found in it: a KeyError, which fails the node.
NoProjectToVerify ==
    /\ at = "checking" /\ tool = "save_workhour" /\ "project_id" \notin params
    /\ Leaves("error", None, {})

Clarify ==
    /\ at = "checking"
    /\ Leaves("clarify", tool, params)

CallTool ==
    /\ at = "checking"
    /\ ~MustClarify(tool, params)
    /\ Leaves("tool_execution", tool, params)

-----------------------------------------------------------------------------
(* make_route_decision and execute_route                                   *)

Target ==
    CASE intent = "knowledge_qa" -> "rag_engine"
      [] intent = "tool_execution" -> "tool_executor"
      [] intent = "complex_request" -> "planner_agent"
      [] OTHER -> "llm_service"

\* The language model is the last resort of the others.
Fallback == IF Target = "llm_service" THEN None ELSE "llm_service"

\* The targets that have a handler, or an agent to plan with.
MakeRouteDecision ==
    /\ at = "classified"
    /\ registered' \in SUBSET Targets
    /\ params' = IF Target = "tool_executor"
                 THEN WithUser(params \ {"tool_name", "matched_keywords"}) ELSE {}
    /\ at' = "decided"
    /\ UNCHANGED <<llm, rules, message, intent, tool, calls, missed>>

Routes(next) ==
    /\ at' = next
    /\ UNCHANGED <<llm, rules, message, intent, tool, params, registered>>

CallsHandler(t) == calls' = [calls EXCEPT ![t] = @ + 1]

\* The handler of the target answers, or raises.
ExecuteRoute ==
    /\ at = "decided" /\ Target \in registered
    /\ CallsHandler(Target)
    /\ \/ Routes("answered") /\ UNCHANGED missed
       \/ Routes("failed") /\ missed' = TRUE

\* There is no handler: the fallback has its turn, and raises like the target.
NoHandler ==
    /\ at = "decided" /\ Target \notin registered
    /\ missed' = TRUE
    /\ IF Fallback \in registered /\ Target # "planner_agent"
       THEN CallsHandler(Fallback) /\ (Routes("answered") \/ Routes("failed"))
       ELSE /\ UNCHANGED calls
            /\ Routes(IF Target = "planner_agent" THEN "failed" ELSE "answered")

\* The except branch tries the fallback, whatever was called before.
ExceptBranchMut ==
    /\ at = "failed"
    /\ IF Fallback \in registered THEN CallsHandler(Target) ELSE UNCHANGED calls
    /\ Routes("answered") /\ UNCHANGED missed
ExceptBranch ==
    /\ at = "failed"
    /\ IF Fallback \in registered THEN CallsHandler(Fallback) ELSE UNCHANGED calls
    /\ Routes("answered") /\ UNCHANGED missed

Next ==
    \/ Greet \/ ClassifyWithLlm \/ ExtractWithLlm \/ AskRules \/ RuleBasedClassify
    \/ NotATool \/ TakeTool \/ VerifyProject \/ NoProjectToVerify
    \/ Clarify \/ CallTool
    \/ MakeRouteDecision \/ ExecuteRoute \/ NoHandler \/ ExceptBranch

Spec == Init /\ [][Next]_vars

-----------------------------------------------------------------------------
\* A call is about one person: the colleague a message names is never joined
\* with the asker's own id, on whichever path the parameters were found; the
\* read tools would otherwise skip the colleague.
OnePerson == ~({"user_id", "member_name"} \subseteq params)

\* The agent's classifier lets a tool run only with what its schema requires,
\* and a record of hours only when it is complete, however little the model
\* or the patterns found.
CompleteBeforeRun ==
    at = "left" /\ intent = "tool_execution" => Required(tool) \subseteq params

\* The rules are monotone: another word of knowledge never turns a question
\* into a tool call, another word about hours never turns a tool call into a
\* question.
VerdictMonotone ==
    at = "rules" =>
        /\ Verdict(message) = "knowledge_qa" =>
             \A w \in {"deadline", "rule"} : Verdict(message \cup {w}) = "knowledge_qa"
        /\ Verdict(message) = "tool_execution" =>
             \A w \in {"hours", "overtime", "my"} : Verdict(message \cup {w}) = "tool_execution"

\* A route calls its target at most once, and another handler only when the
\* target is missing or failed, and then the fallback: twice only when there
\* was no target and the fallback failed.
TargetOnce ==
    /\ calls[Target] <= 1
    /\ \A t \in Targets \ {Target} : calls[t] > 0 => missed /\ t = "llm_service"
    /\ \A t \in Targets : calls[t] > 1 => Target \notin registered
=============================================================================
