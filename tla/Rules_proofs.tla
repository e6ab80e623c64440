---------------------------- MODULE Rules_proofs ----------------------------
(***************************************************************************)
(* What the parts that decide by rules promise, for any message, length of *)
(* the session or of a stream, bookings, documents and ids.                *)
(*                                                                         *)
(* The route: no handler is called before the route is executed, one       *)
(* before it failed; the asker's own id is joined last.  The verdict is    *)
(* monotone because every signal of a tool counts for it, and a word of    *)
(* the other kind can only take from what speaks for knowledge.            *)
(* The window: counted from the newest message every call is at an odd     *)
(* distance, and the cuts keep an even number of messages.                 *)
(* The hours: a sum is the number of units there are to count, so adding   *)
(* up the items of the statistics is a bijection with counting at once.    *)
(* The calls: the words or the model give one call of statistics, or one   *)
(* for each of two names; every later stage keeps that, or one call for    *)
(* each month, and whom the calls are about.                               *)
(* The reply: its texts are those since the last error, in order.          *)
(* The outline: signatures only grow with time, so one that was taken      *)
(* before is past for ever, or nothing has changed since it was.           *)
(***************************************************************************)
EXTENDS Rules, FiniteSetTheorems, SequenceTheorems, WellFoundedInduction, TLAPS

-----------------------------------------------------------------------------
(* The route of a message.                                                 *)

\* The handlers that were called: none before the route is executed, one before
\* it failed.
HandlersInv ==
    /\ registered \subseteq Routing!Targets
    /\ handled \in [Routing!Targets -> Nat]
    /\ at \notin {"failed", "answered"} => \A t \in Routing!Targets : handled[t] = 0
    /\ at = "failed" =>
         /\ missed
         /\ \A t \in Routing!Targets : handled[t] <= 1
         /\ \A t \in Routing!Targets : handled[t] > 0 =>
              IF Routing!Target \in registered THEN t = Routing!Target ELSE t = "llm_service"
    /\ Routing!TargetOnce

\* The asker's id is joined last.
PersonInv ==
    /\ at \in {"called", "extracting", "rules", "classified"} => "user_id" \notin params
    /\ Routing!OnePerson

LEMMA TargetIsOne ==
    /\ Routing!Target \in Routing!Targets
    /\ Routing!Fallback = IF Routing!Target = "llm_service" THEN None ELSE "llm_service"
BY DEF Routing!Target, Routing!Targets, Routing!Fallback

LEMMA NobodyFound == \A t, ps : ps \in Routing!Extracted(t) => "user_id" \notin ps
<1> SUFFICES ASSUME NEW t, NEW ps \in Routing!Extracted(t) PROVE "user_id" \notin ps
  OBVIOUS
<1>1. CASE ps \in Routing!Patterns(t)
  BY <1>1 DEF Routing!Patterns
<1>2. CASE ps \notin Routing!Patterns(t)
  BY <1>2 DEF Routing!Extracted
<1> QED
  BY <1>1, <1>2

LEMMA RouteInit == Routing!Init => HandlersInv /\ PersonInv /\ Routing!CompleteBeforeRun
<1> SUFFICES ASSUME Routing!Init PROVE HandlersInv /\ PersonInv /\ Routing!CompleteBeforeRun
  OBVIOUS
<1>1. /\ at = "called" /\ params = {} /\ registered = {} /\ handled = [t \in Routing!Targets |-> 0]
  BY DEF Routing!Init
<1>2. \A t \in Routing!Targets : handled[t] = 0
  BY <1>1
<1>3. HandlersInv
  BY <1>1, <1>2, TargetIsOne DEF HandlersInv, Routing!TargetOnce
<1> QED
  BY <1>1, <1>3 DEF PersonInv, Routing!OnePerson, Routing!CompleteBeforeRun

\* One call more, of a handler that may be called.
LEMMA OneCallMore ==
    ASSUME handled \in [Routing!Targets -> Nat], NEW t \in Routing!Targets, Routing!CallsHandler(t)
    PROVE  /\ handled' \in [Routing!Targets -> Nat] /\ handled'[t] = handled[t] + 1
           /\ \A u \in Routing!Targets \ {t} : handled'[u] = handled[u]
BY DEF Routing!CallsHandler

LEMMA HandlersStep == HandlersInv /\ [Routing!Next]_(Routing!vars) => HandlersInv'
<1> SUFFICES ASSUME HandlersInv, [Routing!Next]_(Routing!vars) PROVE HandlersInv'
  OBVIOUS
<1>1. Routing!Target' \in Routing!Targets
  BY DEF Routing!Target, Routing!Targets
<1>2. ASSUME at \notin {"failed", "answered"}, at' \notin {"failed", "answered"},
             registered' \subseteq Routing!Targets, handled' = handled
      PROVE  HandlersInv'
  BY <1>1, <1>2 DEF HandlersInv, Routing!TargetOnce
<1>3. CASE \/ Routing!Greet \/ Routing!ClassifyWithLlm \/ Routing!ExtractWithLlm
           \/ Routing!AskRules \/ Routing!RuleBasedClassify
  <2>1. at \notin {"failed", "answered"} /\ at' \notin {"failed", "answered"}
    BY <1>3 DEF Routing!Greet, Routing!ClassifyWithLlm, Routing!ExtractWithLlm,
                Routing!AskRules, Routing!RuleBasedClassify
  <2>2. UNCHANGED <<registered, handled>>
    BY <1>3 DEF Routing!Greet, Routing!ClassifyWithLlm, Routing!ExtractWithLlm,
                Routing!AskRules, Routing!RuleBasedClassify, Routing!Is
  <2> QED
    BY <1>2, <2>1, <2>2 DEF HandlersInv
<1>4. CASE \/ Routing!NotATool \/ Routing!TakeTool \/ Routing!VerifyProject
           \/ Routing!NoProjectToVerify \/ Routing!Clarify \/ Routing!CallTool
  <2>1. at \notin {"failed", "answered"} /\ at' \notin {"failed", "answered"}
    BY <1>4 DEF Routing!NotATool, Routing!TakeTool, Routing!VerifyProject,
                Routing!NoProjectToVerify, Routing!Clarify, Routing!CallTool, Routing!Leaves
  <2>2. UNCHANGED <<registered, handled>>
    BY <1>4 DEF Routing!NotATool, Routing!TakeTool, Routing!VerifyProject,
                Routing!NoProjectToVerify, Routing!Clarify, Routing!CallTool, Routing!Leaves,
                Routing!Is
  <2> QED
    BY <1>2, <2>1, <2>2 DEF HandlersInv
<1>5. CASE Routing!MakeRouteDecision
  <2>1. /\ at = "classified" /\ at' = "decided" /\ registered' \subseteq Routing!Targets
        /\ handled' = handled
    BY <1>5 DEF Routing!MakeRouteDecision
  <2> QED
    BY <1>2, <2>1
<1>6. ASSUME NEW next, Routing!Routes(next)
      PROVE  /\ at' = next /\ Routing!Target' = Routing!Target /\ registered' = registered
  BY <1>6 DEF Routing!Routes, Routing!Target
<1>7. CASE Routing!ExecuteRoute
  <2>1. /\ at = "decided" /\ Routing!Target \in registered
        /\ Routing!CallsHandler(Routing!Target)
        /\ \/ Routing!Routes("answered")
           \/ Routing!Routes("failed") /\ missed'
    BY <1>7 DEF Routing!ExecuteRoute
  <2>2. /\ at' = "answered" \/ (at' = "failed" /\ missed')
        /\ Routing!Target' = Routing!Target /\ registered' = registered
    BY <1>6, <2>1
  <2>3. /\ handled' \in [Routing!Targets -> Nat] /\ handled'[Routing!Target] = 1
        /\ \A u \in Routing!Targets \ {Routing!Target} : handled'[u] = 0
    BY <2>1, OneCallMore, TargetIsOne DEF HandlersInv
  <2> QED
    BY <2>1, <2>2, <2>3, TargetIsOne DEF HandlersInv, Routing!TargetOnce
<1>8. CASE Routing!NoHandler
  <2>1. /\ at = "decided" /\ Routing!Target \notin registered /\ missed'
    BY <1>8 DEF Routing!NoHandler
  <2>2. CASE Routing!Fallback \in registered /\ Routing!Target # "planner_agent"
    <3>1. /\ Routing!CallsHandler(Routing!Fallback)
          /\ Routing!Routes("answered") \/ Routing!Routes("failed")
      BY <1>8, <2>2 DEF Routing!NoHandler
    <3>2. Routing!Fallback = "llm_service" /\ Routing!Target # "llm_service"
      BY <2>2, TargetIsOne, RulesAssumption DEF HandlersInv
    <3>3. /\ at' \in {"answered", "failed"}
          /\ Routing!Target' = Routing!Target /\ registered' = registered
      BY <1>6, <3>1
    <3>4. /\ handled' \in [Routing!Targets -> Nat] /\ handled'["llm_service"] = 1
          /\ \A u \in Routing!Targets \ {"llm_service"} : handled'[u] = 0
      <4>1. "llm_service" \in Routing!Targets
        BY DEF Routing!Targets
      <4> QED
        BY <2>1, <3>1, <3>2, <4>1, OneCallMore DEF HandlersInv
    <3> QED
      BY <2>1, <3>2, <3>3, <3>4, TargetIsOne DEF HandlersInv, Routing!TargetOnce
  <2>3. CASE ~(Routing!Fallback \in registered /\ Routing!Target # "planner_agent")
    <3>1. /\ handled' = handled
          /\ Routing!Routes("answered") \/ Routing!Routes("failed")
      BY <1>8, <2>3 DEF Routing!NoHandler
    <3>2. /\ at' \in {"answered", "failed"}
          /\ Routing!Target' = Routing!Target /\ registered' = registered
      BY <1>6, <3>1
    <3> QED
      BY <2>1, <3>1, <3>2, TargetIsOne DEF HandlersInv, Routing!TargetOnce
  <2> QED
    BY <2>2, <2>3
<1>9. CASE Routing!ExceptBranch
  <2>1. at = "failed" /\ Routing!Routes("answered") /\ missed' = missed
    BY <1>9 DEF Routing!ExceptBranch
  <2>2. at' = "answered" /\ Routing!Target' = Routing!Target /\ registered' = registered
    BY <1>6, <2>1
  <2>3. CASE Routing!Fallback \in registered
    <3>1. Routing!CallsHandler(Routing!Fallback)
      BY <1>9, <2>3 DEF Routing!ExceptBranch
    <3>2. Routing!Fallback = "llm_service" /\ Routing!Target # "llm_service"
      BY <2>3, TargetIsOne, RulesAssumption DEF HandlersInv
    <3>3. /\ handled' \in [Routing!Targets -> Nat]
          /\ handled'["llm_service"] = handled["llm_service"] + 1
          /\ \A u \in Routing!Targets \ {"llm_service"} : handled'[u] = handled[u]
      <4>1. "llm_service" \in Routing!Targets
        BY DEF Routing!Targets
      <4> QED
        BY <3>1, <3>2, <4>1, OneCallMore DEF HandlersInv
    <3>4. \A t \in Routing!Targets : handled[t] \in Nat
      BY DEF HandlersInv
    <3>5. CASE Routing!Target \in registered
      <4>1. handled["llm_service"] = 0 /\ handled["llm_service"] \in Nat
        BY <2>1, <3>2, <3>4, <3>5 DEF HandlersInv, Routing!Targets
      <4> QED
        BY <2>1, <2>2, <3>2, <3>3, <3>4, <3>5, <4>1, TargetIsOne DEF HandlersInv, Routing!TargetOnce
    <3>6. CASE Routing!Target \notin registered
      BY <2>1, <2>2, <3>2, <3>3, <3>4, <3>6, TargetIsOne DEF HandlersInv, Routing!TargetOnce
    <3> QED
      BY <3>5, <3>6
  <2>4. CASE Routing!Fallback \notin registered
    <3>1. handled' = handled
      BY <1>9, <2>4 DEF Routing!ExceptBranch
    <3> QED
      BY <2>1, <2>2, <3>1 DEF HandlersInv, Routing!TargetOnce
  <2> QED
    BY <2>3, <2>4
<1>10. CASE UNCHANGED Routing!vars
  <2>1. Routing!Target' = Routing!Target /\ UNCHANGED <<at, registered, handled, missed>>
    BY <1>10 DEF Routing!vars, Routing!Target
  <2> QED
    BY <2>1 DEF HandlersInv, Routing!TargetOnce
<1> QED
  BY <1>3, <1>4, <1>5, <1>7, <1>8, <1>9, <1>10 DEF Routing!Next

LEMMA PersonStep == PersonInv /\ [Routing!Next]_(Routing!vars) => PersonInv'
<1> SUFFICES ASSUME PersonInv, [Routing!Next]_(Routing!vars) PROVE PersonInv'
  OBVIOUS
<1> USE DEF PersonInv, Routing!OnePerson
<1>1. CASE Routing!Greet \/ Routing!ClassifyWithLlm \/ Routing!AskRules \/ Routing!NotATool
           \/ Routing!VerifyProject \/ Routing!NoProjectToVerify
  BY <1>1 DEF Routing!Greet, Routing!ClassifyWithLlm, Routing!AskRules, Routing!NotATool,
              Routing!VerifyProject, Routing!NoProjectToVerify, Routing!Is, Routing!Leaves
<1>2. CASE Routing!ExtractWithLlm
  <2>1. PICK found \in Routing!Extracted(tool) : params' = params \cup found
    BY <1>2 DEF Routing!ExtractWithLlm, Routing!Is
  <2>2. at = "extracting"
    BY <1>2 DEF Routing!ExtractWithLlm
  <2> QED
    BY <2>1, <2>2, NobodyFound
<1>3. CASE Routing!RuleBasedClassify
  <2>1. \/ \E found \in Routing!Patterns(Routing!BestTool(message)) :
             params' = {"tool_name", "matched_keywords"} \cup found
        \/ params' \in SUBSET {"matched_keywords", "query", "matched_indicators",
                               "action_count", "message_length"}
    BY <1>3 DEF Routing!RuleBasedClassify, Routing!Is
  <2> QED
    BY <2>1, NobodyFound DEF Routing!Extracted
<1>4. CASE Routing!TakeTool \/ Routing!MakeRouteDecision
  BY <1>4 DEF Routing!TakeTool, Routing!MakeRouteDecision, Routing!Is, Routing!WithUser
<1>5. CASE Routing!Clarify \/ Routing!CallTool
  BY <1>5 DEF Routing!Clarify, Routing!CallTool, Routing!Leaves, Routing!Is
<1>6. CASE Routing!ExecuteRoute \/ Routing!NoHandler \/ Routing!ExceptBranch
  <2>1. params' = params /\ at' \in {"answered", "failed"}
    BY <1>6 DEF Routing!ExecuteRoute, Routing!NoHandler, Routing!ExceptBranch, Routing!Routes
  <2> QED
    BY <2>1
<1>7. CASE UNCHANGED Routing!vars
  BY <1>7 DEF Routing!vars
<1> QED
  BY <1>1, <1>2, <1>3, <1>4, <1>5, <1>6, <1>7 DEF Routing!Next

LEMMA CompleteStep ==
    Routing!CompleteBeforeRun /\ [Routing!Next]_(Routing!vars) => Routing!CompleteBeforeRun'
<1> SUFFICES ASSUME Routing!CompleteBeforeRun, [Routing!Next]_(Routing!vars),
                    at' = "left", intent' = "tool_execution"
             PROVE  Routing!Required(tool') \subseteq params'
  BY DEF Routing!CompleteBeforeRun
<1>1. ~(\/ Routing!Greet \/ Routing!ClassifyWithLlm \/ Routing!ExtractWithLlm
        \/ Routing!AskRules \/ Routing!RuleBasedClassify \/ Routing!TakeTool
        \/ Routing!MakeRouteDecision \/ Routing!ExecuteRoute \/ Routing!NoHandler
        \/ Routing!ExceptBranch)
  BY DEF Routing!Greet, Routing!ClassifyWithLlm, Routing!ExtractWithLlm, Routing!AskRules,
         Routing!RuleBasedClassify, Routing!TakeTool, Routing!MakeRouteDecision,
         Routing!ExecuteRoute, Routing!NoHandler, Routing!ExceptBranch, Routing!Routes
<1>2. CASE Routing!NotATool \/ Routing!NoProjectToVerify \/ Routing!Clarify
  BY <1>2 DEF Routing!NotATool, Routing!NoProjectToVerify, Routing!Clarify, Routing!Leaves,
              Routing!Is
<1>3. CASE Routing!VerifyProject
  <2>1. tool' = "query_project"
    BY <1>3 DEF Routing!VerifyProject, Routing!Leaves, Routing!Is
  <2> QED
    BY <2>1 DEF Routing!Required
<1>4. CASE Routing!CallTool
  BY <1>4 DEF Routing!CallTool, Routing!Leaves, Routing!Is, Routing!MustClarify
<1>5. CASE UNCHANGED Routing!vars
  BY <1>5 DEF Routing!vars, Routing!CompleteBeforeRun
<1> QED
  BY <1>1, <1>2, <1>3, <1>4, <1>5 DEF Routing!Next
-----------------------------------------------------------------------------
(* The verdict of the rules, when a word is added to a message.            *)

LEMMA MoreWords ==
    ASSUME NEW m, NEW n, m \subseteq n, NEW W, IsFiniteSet(W)
    PROVE  /\ Routing!Cardinality(m \cap W) \in Nat /\ Routing!Cardinality(n \cap W) \in Nat
           /\ Routing!Cardinality(m \cap W) <= Routing!Cardinality(n \cap W)
<1>1. \A S : Routing!Cardinality(S) = Cardinality(S)
  BY DEF Routing!Cardinality, Cardinality
<1>2. m \cap W \subseteq n \cap W /\ m \cap W \subseteq W /\ n \cap W \subseteq W
  OBVIOUS
<1>3. IsFiniteSet(n \cap W) /\ IsFiniteSet(m \cap W)
  BY <1>2, FS_Subset
<1>4. Cardinality(m \cap W) <= Cardinality(n \cap W)
  BY <1>2, <1>3, FS_Subset
<1> QED
  BY <1>1, <1>3, <1>4, FS_CardinalityType

LEMMA FewWords ==
    /\ IsFiniteSet(Routing!TimesheetWords) /\ IsFiniteSet(Routing!StatisticsWords)
    /\ IsFiniteSet(Routing!ProjectWords) /\ IsFiniteSet(Routing!KnowledgeWords)
    /\ IsFiniteSet(Routing!ActionWords) /\ IsFiniteSet(Routing!Indicators)
<1>1. \A a : IsFiniteSet({a})
  BY FS_Singleton
<1>2. \A S, a : IsFiniteSet(S) => IsFiniteSet(S \cup {a})
  BY FS_AddElement
<1>3. IsFiniteSet({"hours"} \cup {"overtime"})
  BY <1>1, <1>2
<1>4. IsFiniteSet({"stat"} \cup {"average"} \cup {"analyse"})
  BY <1>1, <1>2
<1>5. IsFiniteSet({"whatis"} \cup {"how"} \cup {"fill"} \cup {"apply"} \cup {"rule"} \cup {"deadline"})
  BY <1>1, <1>2
<1>6. IsFiniteSet({"query"} \cup {"stat"} \cup {"compute"} \cup {"analyse"})
  BY <1>1, <1>2
<1>7. /\ Routing!TimesheetWords = {"hours"} \cup {"overtime"}
      /\ Routing!StatisticsWords = {"stat"} \cup {"average"} \cup {"analyse"}
      /\ Routing!KnowledgeWords =
           {"whatis"} \cup {"how"} \cup {"fill"} \cup {"apply"} \cup {"rule"} \cup {"deadline"}
      /\ Routing!ActionWords = {"query"} \cup {"stat"} \cup {"compute"} \cup {"analyse"}
  BY DEF Routing!TimesheetWords, Routing!StatisticsWords, Routing!KnowledgeWords,
         Routing!ActionWords
<1> QED
  BY <1>1, <1>3, <1>4, <1>5, <1>6, <1>7 DEF Routing!ProjectWords, Routing!Indicators

Hits(m, W) == 10 * Routing!Cardinality(m \cap W)

LEMMA MoreHits ==
    ASSUME NEW m, NEW n, m \subseteq n, NEW W, IsFiniteSet(W)
    PROVE  Hits(m, W) \in Nat /\ Hits(n, W) \in Nat /\ Hits(m, W) <= Hits(n, W)
<1> DEFINE x == Routing!Cardinality(m \cap W)
           y == Routing!Cardinality(n \cap W)
<1>1. x \in Nat /\ y \in Nat /\ x <= y
  BY MoreWords
<1> HIDE DEF x, y
<1>2. 10 * x \in Nat /\ 10 * y \in Nat /\ 10 * x <= 10 * y
  BY <1>1
<1> QED
  BY <1>2 DEF x, y, Hits

\* A signal that m has, n has.
LEMMA Signals ==
    ASSUME NEW p, NEW q, p => q, NEW x \in Nat
    PROVE  /\ Routing!If(p, x) \in Nat /\ Routing!If(q, x) \in Nat
           /\ Routing!If(p, x) <= Routing!If(q, x)
BY DEF Routing!If

LEMMA TimesheetGrows ==
    ASSUME NEW m, NEW n, m \subseteq n
    PROVE  /\ Routing!ToolScore(m).query_timesheet \in Nat
           /\ Routing!ToolScore(m).query_timesheet <= Routing!ToolScore(n).query_timesheet
<1> DEFINE a(s) == s \cap {"query", "view"} # {} /\ s \cap {"hours", "overtime", "record"} # {}
           b(s) == {"my", "hours"} \subseteq s
           c(s) == "hours" \in s
           d(s) == {"view", "record"} \subseteq s
<1>1. (a(m) => a(n)) /\ (b(m) => b(n)) /\ (c(m) => c(n)) /\ (d(m) => d(n))
  OBVIOUS
<1>2. \A s : Routing!ToolScore(s).query_timesheet =
               Hits(s, Routing!TimesheetWords) + Routing!If(a(s), 35) + Routing!If(b(s), 20)
                 + Routing!If(c(s), 15) + Routing!If(d(s), 20)
  BY DEF Routing!ToolScore, Hits
<1> HIDE DEF a, b, c, d
<1>3. /\ Hits(m, Routing!TimesheetWords) \in Nat /\ Hits(n, Routing!TimesheetWords) \in Nat
      /\ Hits(m, Routing!TimesheetWords) <= Hits(n, Routing!TimesheetWords)
  BY MoreHits, FewWords
<1>4. /\ Routing!If(a(m), 35) \in Nat /\ Routing!If(a(n), 35) \in Nat
      /\ Routing!If(a(m), 35) <= Routing!If(a(n), 35)
  BY <1>1, Signals
<1>5. /\ Routing!If(b(m), 20) \in Nat /\ Routing!If(b(n), 20) \in Nat
      /\ Routing!If(b(m), 20) <= Routing!If(b(n), 20)
  BY <1>1, Signals
<1>6. /\ Routing!If(c(m), 15) \in Nat /\ Routing!If(c(n), 15) \in Nat
      /\ Routing!If(c(m), 15) <= Routing!If(c(n), 15)
  BY <1>1, Signals
<1>7. /\ Routing!If(d(m), 20) \in Nat /\ Routing!If(d(n), 20) \in Nat
      /\ Routing!If(d(m), 20) <= Routing!If(d(n), 20)
  BY <1>1, Signals
<1> QED
  BY <1>2, <1>3, <1>4, <1>5, <1>6, <1>7

LEMMA StatisticsGrows ==
    ASSUME NEW m, NEW n, m \subseteq n
    PROVE  /\ Routing!ToolScore(m).compute_statistics \in Nat
           /\ Routing!ToolScore(m).compute_statistics <= Routing!ToolScore(n).compute_statistics
<1> DEFINE a(s) == "stat" \in s /\ s \cap {"dept", "project"} # {}
           b(s) == {"stat", "hours"} \subseteq s
           c(s) == {"compute", "average"} \subseteq s
           d(s) == "stat" \in s
<1>1. (a(m) => a(n)) /\ (b(m) => b(n)) /\ (c(m) => c(n)) /\ (d(m) => d(n))
  OBVIOUS
<1>2. \A s : Routing!ToolScore(s).compute_statistics =
               Hits(s, Routing!StatisticsWords) + Routing!If(a(s), 40) + Routing!If(b(s), 25)
                 + Routing!If(c(s), 30) + Routing!If(d(s), 5)
  BY DEF Routing!ToolScore, Hits
<1> HIDE DEF a, b, c, d
<1>3. /\ Hits(m, Routing!StatisticsWords) \in Nat /\ Hits(n, Routing!StatisticsWords) \in Nat
      /\ Hits(m, Routing!StatisticsWords) <= Hits(n, Routing!StatisticsWords)
  BY MoreHits, FewWords
<1>4. /\ Routing!If(a(m), 40) \in Nat /\ Routing!If(a(n), 40) \in Nat
      /\ Routing!If(a(m), 40) <= Routing!If(a(n), 40)
  BY <1>1, Signals
<1>5. /\ Routing!If(b(m), 25) \in Nat /\ Routing!If(b(n), 25) \in Nat
      /\ Routing!If(b(m), 25) <= Routing!If(b(n), 25)
  BY <1>1, Signals
<1>6. /\ Routing!If(c(m), 30) \in Nat /\ Routing!If(c(n), 30) \in Nat
      /\ Routing!If(c(m), 30) <= Routing!If(c(n), 30)
  BY <1>1, Signals
<1>7. /\ Routing!If(d(m), 5) \in Nat /\ Routing!If(d(n), 5) \in Nat
      /\ Routing!If(d(m), 5) <= Routing!If(d(n), 5)
  BY <1>1, Signals
<1> QED
  BY <1>2, <1>3, <1>4, <1>5, <1>6, <1>7

LEMMA ProjectGrows ==
    ASSUME NEW m, NEW n, m \subseteq n
    PROVE  /\ Routing!ToolScore(m).query_project \in Nat
           /\ Routing!ToolScore(m).query_project <= Routing!ToolScore(n).query_project
<1> DEFINE a(s) == s \cap {"query", "view"} # {} /\ "project" \in s
<1>1. a(m) => a(n)
  OBVIOUS
<1>2. \A s : Routing!ToolScore(s).query_project =
               Hits(s, Routing!ProjectWords) + Routing!If(a(s), 25)
  BY DEF Routing!ToolScore, Hits
<1> HIDE DEF a
<1>3. /\ Hits(m, Routing!ProjectWords) \in Nat /\ Hits(n, Routing!ProjectWords) \in Nat
      /\ Hits(m, Routing!ProjectWords) <= Hits(n, Routing!ProjectWords)
  BY MoreHits, FewWords
<1>4. /\ Routing!If(a(m), 25) \in Nat /\ Routing!If(a(n), 25) \in Nat
      /\ Routing!If(a(m), 25) <= Routing!If(a(n), 25)
  BY <1>1, Signals
<1> QED
  BY <1>2, <1>3, <1>4

\* The score of the best tool is the best.
LEMMA BestIsBest ==
    ASSUME NEW m
    PROVE  LET s == Routing!ToolScore(m)
               best == s[Routing!BestTool(m)]
           IN /\ best \in {s.query_timesheet, s.compute_statistics, s.query_project}
              /\ s.query_timesheet <= best /\ s.compute_statistics <= best /\ s.query_project <= best
<1> DEFINE s == Routing!ToolScore(m)
<1>1. /\ s.query_timesheet \in Nat /\ s.compute_statistics \in Nat /\ s.query_project \in Nat
  BY TimesheetGrows, StatisticsGrows, ProjectGrows
<1>2. Routing!BestTool(m) =
        CASE /\ s.query_timesheet >= s.compute_statistics
             /\ s.query_timesheet >= s.query_project -> "query_timesheet"
          [] /\ s.compute_statistics > s.query_timesheet
             /\ s.compute_statistics >= s.query_project -> "compute_statistics"
          [] OTHER -> "query_project"
  BY DEF Routing!BestTool
<1> HIDE DEF s
<1>3. CASE s.query_timesheet >= s.compute_statistics /\ s.query_timesheet >= s.query_project
  <2>1. Routing!BestTool(m) = "query_timesheet"
    BY <1>1, <1>2, <1>3
  <2> QED
    BY <1>1, <1>3, <2>1 DEF s
<1>4. CASE s.compute_statistics > s.query_timesheet /\ s.compute_statistics >= s.query_project
  <2>1. Routing!BestTool(m) = "compute_statistics"
    BY <1>1, <1>2, <1>4
  <2> QED
    BY <1>1, <1>4, <2>1 DEF s
<1>5. CASE /\ ~(s.query_timesheet >= s.compute_statistics /\ s.query_timesheet >= s.query_project)
           /\ ~(s.compute_statistics > s.query_timesheet /\ s.compute_statistics >= s.query_project)
  <2>1. Routing!BestTool(m) = "query_project"
    BY <1>1, <1>2, <1>5
  <2> QED
    BY <1>1, <1>5, <2>1 DEF s
<1> QED
  BY <1>3, <1>4, <1>5

LEMMA ToolGrows ==
    ASSUME NEW m, NEW n, m \subseteq n
    PROVE  /\ Routing!ToolConfidence(m) \in Nat /\ Routing!ToolConfidence(n) \in Nat
           /\ Routing!ToolConfidence(m) <= Routing!ToolConfidence(n)
<1> DEFINE s == Routing!ToolScore(m)
           t == Routing!ToolScore(n)
           a == s[Routing!BestTool(m)]
           b == t[Routing!BestTool(n)]
<1>1. /\ s.query_timesheet \in Nat /\ s.compute_statistics \in Nat /\ s.query_project \in Nat
      /\ s.query_timesheet <= t.query_timesheet /\ s.compute_statistics <= t.compute_statistics
      /\ s.query_project <= t.query_project
  BY TimesheetGrows, StatisticsGrows, ProjectGrows
<1>2. n \subseteq n
  OBVIOUS
<1>3. /\ t.query_timesheet \in Nat /\ t.compute_statistics \in Nat /\ t.query_project \in Nat
  BY <1>2, TimesheetGrows, StatisticsGrows, ProjectGrows
<1>4. a \in {s.query_timesheet, s.compute_statistics, s.query_project}
  BY BestIsBest
<1>5. /\ b \in {t.query_timesheet, t.compute_statistics, t.query_project}
      /\ t.query_timesheet <= b /\ t.compute_statistics <= b /\ t.query_project <= b
  BY BestIsBest
<1>6. /\ Routing!ToolConfidence(m) = Routing!If(a >= 5, Routing!Least(90, 50 + a))
      /\ Routing!ToolConfidence(n) = Routing!If(b >= 5, Routing!Least(90, 50 + b))
  BY DEF Routing!ToolConfidence
<1> HIDE DEF a, b, s, t
<1>7. a \in Nat /\ b \in Nat /\ a <= b
  BY <1>1, <1>3, <1>4, <1>5
<1> QED
  BY <1>6, <1>7 DEF Routing!If, Routing!Least

\* What the rules of _check_knowledge_intent look for.
Strong(m) == "whatis" \in m \/ "rule" \in m
HowTo(m) == "how" \in m /\ m \cap {"apply", "query", "view", "stat"} # {}
HowToFill(m) == {"how", "fill"} \subseteq m
Marked(m) == m \cap {"mark", "how"} # {}
Dull(m) == m \cap {"hours", "project", "overtime", "stat"} # {} /\ ~Strong(m)

More(m) ==
    Hits(m, Routing!KnowledgeWords)
      + (IF "whatis" \in m THEN 35 ELSE Routing!If(Marked(m), 8))
      + Routing!If(HowToFill(m), 10) + Routing!If(Strong(m), 10)
Less(m) == Routing!If(HowTo(m) /\ ~HowToFill(m), 15) + Routing!If(Dull(m), 5)
Threshold(m) == IF HowTo(m) THEN 15 ELSE IF Strong(m) THEN 3 ELSE 5

LEMMA KnowledgeIs ==
    ASSUME NEW m
    PROVE  Routing!KnowledgeConfidence(m) =
             Routing!If(More(m) >= Less(m) + Threshold(m) \/ (Strong(m) /\ ~HowTo(m)),
                        Routing!Least(90, 50 + More(m) - Less(m)))
BY DEF Routing!KnowledgeConfidence, More, Less, Threshold, Strong, HowTo, HowToFill, Marked, Dull,
       Hits

\* n speaks for knowledge at least as much as m.
KnowsMore(m, n) ==
    /\ Hits(m, Routing!KnowledgeWords) <= Hits(n, Routing!KnowledgeWords)
    /\ "whatis" \in m <=> "whatis" \in n
    /\ HowTo(m) <=> HowTo(n)
    /\ HowToFill(m) <=> HowToFill(n)
    /\ Marked(m) <=> Marked(n)
    /\ Strong(m) => Strong(n)
    /\ Dull(n) => Dull(m)

LEMMA Weights ==
    ASSUME NEW m
    PROVE  /\ More(m) \in Nat /\ Less(m) \in Nat /\ Threshold(m) \in {3, 5, 15}
           /\ Strong(m) /\ ~HowTo(m) => Less(m) = 0
<1>1. m \subseteq m
  OBVIOUS
<1>2. Hits(m, Routing!KnowledgeWords) \in Nat
  BY <1>1, MoreHits, FewWords
<1>3. More(m) \in Nat
  BY <1>2 DEF More, Routing!If
<1>4. Dull(m) => ~Strong(m)
  BY DEF Dull
<1> QED
  BY <1>3, <1>4 DEF Less, Threshold, Routing!If

LEMMA KnowledgeGrows ==
    ASSUME NEW m, NEW n, KnowsMore(m, n)
    PROVE  /\ Routing!KnowledgeConfidence(m) \in Nat /\ Routing!KnowledgeConfidence(n) \in Nat
           /\ Routing!KnowledgeConfidence(m) <= Routing!KnowledgeConfidence(n)
<1>1. /\ More(m) \in Nat /\ Less(m) \in Nat /\ Threshold(m) \in {3, 5, 15}
      /\ More(n) \in Nat /\ Less(n) \in Nat /\ Threshold(n) \in {3, 5, 15}
      /\ Strong(m) /\ ~HowTo(m) => Less(m) = 0
      /\ Strong(n) /\ ~HowTo(n) => Less(n) = 0
  BY Weights
<1>2. More(m) <= More(n)
  <2>1. m \subseteq m /\ n \subseteq n
    OBVIOUS
  <2>2. /\ Hits(m, Routing!KnowledgeWords) \in Nat /\ Hits(n, Routing!KnowledgeWords) \in Nat
    BY <2>1, MoreHits, FewWords
  <2> QED
    BY <2>2 DEF KnowsMore, More, Routing!If
<1>3. Less(n) <= Less(m) /\ Threshold(n) <= Threshold(m)
  BY DEF KnowsMore, Less, Threshold, Routing!If
<1>4. (Strong(m) /\ ~HowTo(m)) => (Strong(n) /\ ~HowTo(n))
  BY DEF KnowsMore
<1> DEFINE p == More(m) >= Less(m) + Threshold(m) \/ (Strong(m) /\ ~HowTo(m))
           q == More(n) >= Less(n) + Threshold(n) \/ (Strong(n) /\ ~HowTo(n))
<1>5. p => q
  BY <1>1, <1>2, <1>3, <1>4
<1>6. p => Less(m) <= More(m)
  BY <1>1
<1>7. q => Less(n) <= More(n)
  BY <1>1
<1>8. /\ Routing!KnowledgeConfidence(m) = Routing!If(p, Routing!Least(90, 50 + More(m) - Less(m)))
      /\ Routing!KnowledgeConfidence(n) = Routing!If(q, Routing!Least(90, 50 + More(n) - Less(n)))
  BY KnowledgeIs
<1> HIDE DEF p, q
<1> QED
  BY <1>1, <1>2, <1>3, <1>5, <1>6, <1>7, <1>8 DEF Routing!If, Routing!Least

\* A word that a set of words has not.
LEMMA WordAdded == ASSUME NEW m, NEW w, NEW W, w \notin W PROVE (m \cup {w}) \cap W = m \cap W
OBVIOUS

LEMMA KnowledgeWordAdded ==
    ASSUME NEW m, NEW w \in {"deadline", "rule"}
    PROVE  /\ KnowsMore(m, m \cup {w})
           /\ Routing!ToolConfidence(m \cup {w}) = Routing!ToolConfidence(m)
           /\ Routing!Complex(m \cup {w}) <=> Routing!Complex(m)
<1> DEFINE n == m \cup {w}
<1>1. /\ m \subseteq n
      /\ \A v \in {"whatis", "how", "fill", "hours", "stat", "project", "my", "view", "record",
                   "compute", "average", "long"} : v \in n <=> v \in m
      /\ "rule" \in m => "rule" \in n
  OBVIOUS
<1>2. /\ n \cap Routing!TimesheetWords = m \cap Routing!TimesheetWords
      /\ n \cap Routing!StatisticsWords = m \cap Routing!StatisticsWords
      /\ n \cap Routing!ProjectWords = m \cap Routing!ProjectWords
      /\ n \cap Routing!ActionWords = m \cap Routing!ActionWords
      /\ n \cap Routing!Indicators = m \cap Routing!Indicators
  BY DEF Routing!TimesheetWords, Routing!StatisticsWords, Routing!ProjectWords,
         Routing!ActionWords, Routing!Indicators
<1>3. /\ n \cap {"query", "view"} = m \cap {"query", "view"}
      /\ n \cap {"hours", "overtime", "record"} = m \cap {"hours", "overtime", "record"}
      /\ n \cap {"dept", "project"} = m \cap {"dept", "project"}
      /\ n \cap {"apply", "query", "view", "stat"} = m \cap {"apply", "query", "view", "stat"}
      /\ n \cap {"mark", "how"} = m \cap {"mark", "how"}
      /\ n \cap {"hours", "project", "overtime", "stat"} = m \cap {"hours", "project", "overtime", "stat"}
  OBVIOUS
<1>4. /\ {"my", "hours"} \subseteq n <=> {"my", "hours"} \subseteq m
      /\ {"view", "record"} \subseteq n <=> {"view", "record"} \subseteq m
      /\ {"stat", "hours"} \subseteq n <=> {"stat", "hours"} \subseteq m
      /\ {"compute", "average"} \subseteq n <=> {"compute", "average"} \subseteq m
      /\ {"how", "fill"} \subseteq n <=> {"how", "fill"} \subseteq m
  OBVIOUS
<1> HIDE DEF n
<1>5. Hits(m, Routing!KnowledgeWords) <= Hits(n, Routing!KnowledgeWords)
  BY <1>1, MoreHits, FewWords
<1>6. KnowsMore(m, n)
  BY <1>1, <1>3, <1>4, <1>5 DEF KnowsMore, HowTo, HowToFill, Marked, Strong, Dull
<1>7. Routing!ToolScore(n) = Routing!ToolScore(m)
  BY <1>1, <1>2, <1>3, <1>4 DEF Routing!ToolScore, Routing!If
<1>8. Routing!ToolConfidence(n) = Routing!ToolConfidence(m)
  BY <1>7 DEF Routing!ToolConfidence, Routing!BestTool
<1>9. Routing!Complex(n) <=> Routing!Complex(m)
  BY <1>1, <1>2 DEF Routing!Complex
<1> QED
  BY <1>6, <1>8, <1>9 DEF n

LEMMA HoursWordAdded ==
    ASSUME NEW m, NEW w \in {"hours", "overtime", "my"}
    PROVE  /\ KnowsMore(m \cup {w}, m)
           /\ Routing!ToolConfidence(m) <= Routing!ToolConfidence(m \cup {w})
           /\ Routing!Complex(m \cup {w}) <=> Routing!Complex(m)
<1> DEFINE n == m \cup {w}
<1>1. /\ m \subseteq n
      /\ \A v \in {"whatis", "how", "fill", "rule", "long"} : v \in n <=> v \in m
  OBVIOUS
<1>2. /\ n \cap Routing!KnowledgeWords = m \cap Routing!KnowledgeWords
      /\ n \cap Routing!ActionWords = m \cap Routing!ActionWords
      /\ n \cap Routing!Indicators = m \cap Routing!Indicators
  BY DEF Routing!KnowledgeWords, Routing!ActionWords, Routing!Indicators
<1>3. /\ n \cap {"apply", "query", "view", "stat"} = m \cap {"apply", "query", "view", "stat"}
      /\ n \cap {"mark", "how"} = m \cap {"mark", "how"}
      /\ m \cap {"hours", "project", "overtime", "stat"} # {}
           => n \cap {"hours", "project", "overtime", "stat"} # {}
      /\ {"how", "fill"} \subseteq n <=> {"how", "fill"} \subseteq m
  OBVIOUS
<1> HIDE DEF n
<1>4. Hits(n, Routing!KnowledgeWords) <= Hits(m, Routing!KnowledgeWords)
  <2>1. Hits(m, Routing!KnowledgeWords) <= Hits(n, Routing!KnowledgeWords)
    BY <1>1, MoreHits, FewWords
  <2> QED
    BY <1>2, <2>1 DEF Hits
<1>5. KnowsMore(n, m)
  BY <1>1, <1>3, <1>4 DEF KnowsMore, HowTo, HowToFill, Marked, Strong, Dull
<1>6. Routing!ToolConfidence(m) <= Routing!ToolConfidence(n)
  BY <1>1, ToolGrows
<1>7. Routing!Complex(n) <=> Routing!Complex(m)
  BY <1>1, <1>2 DEF Routing!Complex
<1> QED
  BY <1>5, <1>6, <1>7 DEF n

\* The verdict by the two confidences, when the message is not complex.
LEMMA VerdictIs ==
    ASSUME NEW m, Routing!ToolConfidence(m) \in Nat, Routing!KnowledgeConfidence(m) \in Nat
    PROVE  LET t == Routing!ToolConfidence(m)
               k == Routing!KnowledgeConfidence(m)
           IN /\ Routing!Verdict(m) = "knowledge_qa" <=>
                   /\ ~Routing!Complex(m)
                   /\ k > t \/ (t < 70 /\ k >= 60)
                   /\ k > 0
              /\ Routing!Verdict(m) = "tool_execution" <=>
                   /\ ~Routing!Complex(m)
                   /\ t > 0 /\ k <= t /\ (t >= 70 \/ k < 60)
<1> DEFINE t == Routing!ToolConfidence(m)
           k == Routing!KnowledgeConfidence(m)
<1>1. t \in Nat /\ k \in Nat
  OBVIOUS
<1>2. Routing!Verdict(m) =
        CASE Routing!Complex(m) -> "complex_request"
          [] ~Routing!Complex(m) /\ t >= 70 -> IF k > t THEN "knowledge_qa" ELSE "tool_execution"
          [] ~Routing!Complex(m) /\ t < 70 /\ k >= 60 -> "knowledge_qa"
          [] ~Routing!Complex(m) /\ t < 70 /\ k < 60 /\ t > 0 ->
               IF k > 0 /\ k > t THEN "knowledge_qa" ELSE "tool_execution"
          [] OTHER -> IF ~Routing!Complex(m) /\ k > 0 THEN "knowledge_qa" ELSE "general_chat"
  BY DEF Routing!Verdict, Routing!Prefers
<1> HIDE DEF t, k
<1>3. CASE Routing!Complex(m)
  <2>1. Routing!Verdict(m) = "complex_request"
    BY <1>1, <1>2, <1>3
  <2> QED
    BY <1>3, <2>1 DEF t, k
<1>4. CASE ~Routing!Complex(m) /\ t >= 70
  <2>1. Routing!Verdict(m) = IF k > t THEN "knowledge_qa" ELSE "tool_execution"
    BY <1>1, <1>2, <1>4
  <2> QED
    BY <1>1, <1>4, <2>1 DEF t, k
<1>5. CASE ~Routing!Complex(m) /\ t < 70 /\ k >= 60
  <2>1. Routing!Verdict(m) = "knowledge_qa"
    BY <1>1, <1>2, <1>5
  <2>2. k > 0 /\ ~(t >= 70 \/ k < 60)
    BY <1>1, <1>5
  <2> QED
    BY <1>5, <2>1, <2>2 DEF t, k
<1>6. CASE ~Routing!Complex(m) /\ t < 70 /\ k < 60 /\ t > 0
  <2>1. Routing!Verdict(m) = IF k > 0 /\ k > t THEN "knowledge_qa" ELSE "tool_execution"
    BY <1>1, <1>2, <1>6
  <2> QED
    BY <1>1, <1>6, <2>1 DEF t, k
<1>7. CASE ~Routing!Complex(m) /\ t < 70 /\ k < 60 /\ ~(t > 0)
  <2>1. Routing!Verdict(m) = IF k > 0 THEN "knowledge_qa" ELSE "general_chat"
    BY <1>1, <1>2, <1>7
  <2> QED
    BY <1>1, <1>7, <2>1 DEF t, k
<1> QED
  BY <1>1, <1>3, <1>4, <1>5, <1>6, <1>7

\* Whatever the message: another word of knowledge leaves a question a question,
\* another word about hours a tool call a tool call.
LEMMA WordsKeepVerdict == Routing!VerdictMonotone
<1>1. ASSUME NEW m, NEW w \in {"deadline", "rule"}, Routing!Verdict(m) = "knowledge_qa"
      PROVE  Routing!Verdict(m \cup {w}) = "knowledge_qa"
  <2> DEFINE n == m \cup {w}
  <2>1. /\ KnowsMore(m, n) /\ Routing!ToolConfidence(n) = Routing!ToolConfidence(m)
        /\ Routing!Complex(n) <=> Routing!Complex(m)
    BY KnowledgeWordAdded
  <2> HIDE DEF n
  <2>2. /\ Routing!KnowledgeConfidence(m) \in Nat /\ Routing!KnowledgeConfidence(n) \in Nat
        /\ Routing!KnowledgeConfidence(m) <= Routing!KnowledgeConfidence(n)
    BY <2>1, KnowledgeGrows
  <2>3. m \subseteq m
    OBVIOUS
  <2>4. Routing!ToolConfidence(m) \in Nat
    BY <2>3, ToolGrows
  <2>5. Routing!Verdict(n) = "knowledge_qa"
    BY <1>1, <2>1, <2>2, <2>4, VerdictIs
  <2> QED
    BY <2>5 DEF n
<1>2. ASSUME NEW m, NEW w \in {"hours", "overtime", "my"}, Routing!Verdict(m) = "tool_execution"
      PROVE  Routing!Verdict(m \cup {w}) = "tool_execution"
  <2> DEFINE n == m \cup {w}
  <2>1. /\ KnowsMore(n, m) /\ Routing!ToolConfidence(m) <= Routing!ToolConfidence(n)
        /\ Routing!Complex(n) <=> Routing!Complex(m)
    BY HoursWordAdded
  <2>2. m \subseteq n
    OBVIOUS
  <2> HIDE DEF n
  <2>3. /\ Routing!KnowledgeConfidence(m) \in Nat /\ Routing!KnowledgeConfidence(n) \in Nat
        /\ Routing!KnowledgeConfidence(n) <= Routing!KnowledgeConfidence(m)
    BY <2>1, KnowledgeGrows
  <2>4. Routing!ToolConfidence(m) \in Nat /\ Routing!ToolConfidence(n) \in Nat
    BY <2>2, ToolGrows
  <2>5. Routing!Verdict(n) = "tool_execution"
    BY <1>2, <2>1, <2>3, <2>4, VerdictIs
  <2> QED
    BY <2>5 DEF n
<1> QED
  BY <1>1, <1>2 DEF Routing!VerdictMonotone

\* Whatever the message, the model and the handlers: the call is for one person,
\* complete before it runs, its target is called once, and one more word of
\* either kind never reverses the verdict (IntentRouter, node_classify_intent).
THEOREM MessagesRouted == Routing!Spec => []RoutedRight
<1>1. Routing!Spec => []HandlersInv
  BY RouteInit, HandlersStep, PTL DEF Routing!Spec
<1>2. Routing!Spec => []PersonInv
  BY RouteInit, PersonStep, PTL DEF Routing!Spec
<1>3. Routing!Spec => []Routing!CompleteBeforeRun
  BY RouteInit, CompleteStep, PTL DEF Routing!Spec
<1>4. HandlersInv /\ PersonInv /\ Routing!CompleteBeforeRun => RoutedRight
  BY WordsKeepVerdict DEF HandlersInv, PersonInv, RoutedRight
<1> QED
  BY <1>1, <1>2, <1>3, <1>4, PTL

-----------------------------------------------------------------------------
(* The window of the model.                                                *)

LogMessages ==
    [role : {"system", "turn", "question", "call", "result"}, n : Nat, long : BOOLEAN]
Logs == Seq(LogMessages)

Even(n) == n % 2 = 0

LEMMA Parity ==
    /\ Even(0) /\ ~Even(1) /\ Even(4) /\ Even(8)
    /\ \A n \in Nat : Even(n + 2) <=> Even(n)
    /\ \A n \in Nat : n > 0 /\ Even(n) => ~Even(n - 1)
BY DEF Even

\* Neither a call nor a result.
Single(m) == m.role \notin {"call", "result"}

\* Message i of s has its partner: counted from the end, a call is at an odd
\* distance and its result follows.
PairAt(s, i) ==
    /\ s[i].role = "result" =>
         /\ Even(Len(s) - i)
         /\ i > 1 /\ s[i - 1] = Choosing!Message("call", s[i].n, FALSE)
    /\ s[i].role = "call" =>
         ~Even(Len(s) - i) /\ i < Len(s) /\ s[i + 1].role = "result"

InPairs(s) == \A i \in 1..Len(s) : PairAt(s, i)

\* What is left of s when its first message and the k newest are kept.
Cut(s, k) == <<s[1]>> \o Choosing!Newest(s, k)

\* The cut has lost the d messages behind the first.
Missed(s, w, k, d) ==
    /\ d \in Nat /\ d < Len(s) /\ (d = 0 \/ d = Len(s) - k)
    /\ Len(w) = Len(s) - d + 1 /\ w[1] = s[1]
    /\ \A i \in 2..Len(w) : w[i] = s[i - 1 + d]

LEMMA CutOf ==
    ASSUME NEW M, NEW s \in Seq(M), NEW k \in Nat, k > 0, Len(s) > 0
    PROVE  Cut(s, k) \in Seq(M) /\ \E d \in Nat : Missed(s, Cut(s, k), k, d)
<1> DEFINE d == IF Len(s) > k THEN Len(s) - k ELSE 0
           tail == SubSeq(s, d + 1, Len(s))
           w == <<s[1]>> \o tail
<1>1. d \in Nat /\ d < Len(s) /\ Len(s) \in Nat /\ (d = 0 \/ d = Len(s) - k)
  OBVIOUS
<1>2. Cut(s, k) = w
  <2>1. d + 1 = IF Len(s) > k THEN Len(s) - k + 1 ELSE 1
    BY <1>1
  <2> HIDE DEF d
  <2> QED
    BY <2>1 DEF Choosing!Newest, Cut
<1> HIDE DEF d
<1>3. tail \in Seq(M) /\ Len(tail) = Len(s) - d
  BY <1>1
<1>4. ASSUME NEW i \in 1..Len(tail) PROVE tail[i] = s[i + d]
  <2>1. \A j \in (d + 1)..Len(s) : s[j] \in M
    BY <1>1
  <2>2. \A j \in 1..(Len(s) - (d + 1) + 1) : tail[j] = s[(d + 1) + j - 1]
    BY <1>1, <2>1, SubSeqProperties
  <2>3. i \in 1..(Len(s) - (d + 1) + 1) /\ (d + 1) + i - 1 = i + d
    BY <1>1, <1>3
  <2> QED
    BY <2>2, <2>3
<1> HIDE DEF tail
<1>5. <<s[1]>> \in Seq(M) /\ Len(<<s[1]>>) = 1 /\ <<s[1]>>[1] = s[1]
  OBVIOUS
<1>6. /\ w \in Seq(M) /\ Len(w) = 1 + Len(tail)
      /\ \A i \in 1..(1 + Len(tail)) : w[i] = IF i <= 1 THEN <<s[1]>>[i] ELSE tail[i - 1]
  BY <1>3, <1>5, ConcatProperties
<1> HIDE DEF w
<1>7. ASSUME NEW i \in 2..Len(w) PROVE w[i] = s[i - 1 + d]
  <2>1. i - 1 \in 1..Len(tail) /\ w[i] = tail[i - 1]
    BY <1>1, <1>3, <1>6
  <2>2. tail[i - 1] = s[(i - 1) + d]
    BY <1>4, <2>1
  <2> QED
    BY <2>1, <2>2
<1>8. Len(w) = Len(s) - d + 1 /\ w[1] = s[1]
  BY <1>1, <1>3, <1>5, <1>6
<1>9. Missed(s, w, k, d)
  BY <1>1, <1>7, <1>8 DEF Missed
<1> QED
  BY <1>1, <1>2, <1>6, <1>9

\* A cut that keeps the first message and an even number of the newest.
LEMMA CutInPairs ==
    ASSUME NEW M, NEW s \in Seq(M), NEW k \in Nat, Even(k), k > 0,
           Len(s) > 0, Single(s[1]), InPairs(s)
    PROVE  /\ Cut(s, k) \in Seq(M) /\ Len(Cut(s, k)) > 0
           /\ Cut(s, k)[1] = s[1] /\ InPairs(Cut(s, k))
           /\ Cut(s, k)[Len(Cut(s, k))] = s[Len(s)]
<1> DEFINE w == Cut(s, k)
<1>0. w \in Seq(M) /\ \E d \in Nat : Missed(s, w, k, d)
  BY CutOf
<1> HIDE DEF w
<1>1. PICK d \in Nat : Missed(s, w, k, d)
  BY <1>0
<1>2. /\ Len(s) \in Nat /\ Len(w) \in Nat
      /\ d < Len(s) /\ (d = 0 \/ d = Len(s) - k)
      /\ Len(w) = Len(s) - d + 1 /\ w[1] = s[1]
      /\ \A i \in 2..Len(w) : w[i] = s[i - 1 + d]
  <2>1. Len(s) \in Nat /\ Len(w) \in Nat
    BY <1>0
  <2> QED
    BY <1>1, <2>1 DEF Missed
<1>3. ASSUME NEW i \in 1..Len(w) PROVE PairAt(w, i)
  <2>1. CASE i = 1
    BY <1>2, <2>1 DEF Single, PairAt
  <2>2. CASE i # 1
    <3> DEFINE j == i - 1 + d
    <3>1. i \in 2..Len(w) /\ j \in 1..Len(s) /\ Len(s) - j = Len(w) - i
      BY <1>2, <2>2
    <3>2. j = i - 1 + d /\ w[i] = s[j]
      BY <1>2, <3>1
    <3> HIDE DEF j
    <3>3. PairAt(s, j)
      BY <3>1 DEF InPairs
    <3>4. ASSUME w[i].role = "result"
          PROVE  Even(Len(w) - i) /\ i > 1 /\ w[i - 1] = Choosing!Message("call", w[i].n, FALSE)
      <4>1. Even(Len(s) - j) /\ j > 1 /\ s[j - 1] = Choosing!Message("call", s[j].n, FALSE)
        BY <3>2, <3>3, <3>4 DEF PairAt
      <4>2. i # 2
        <5> SUFFICES ASSUME i = 2 PROVE FALSE
          OBVIOUS
        <5>1. j = 1 + d /\ d # 0
          BY <3>2, <4>1
        <5>2. Len(s) - j = k - 1
          BY <1>2, <5>1
        <5> QED
          BY <4>1, <5>2, Parity
      <4>3. i - 1 \in 2..Len(w) /\ (i - 1) - 1 + d = j - 1
        BY <1>2, <2>2, <3>2, <4>2
      <4>4. w[i - 1] = s[j - 1]
        BY <1>2, <4>3
      <4>5. i > 1
        BY <2>2
      <4> QED
        BY <3>1, <3>2, <4>1, <4>4, <4>5
    <3>5. ASSUME w[i].role = "call"
          PROVE  ~Even(Len(w) - i) /\ i < Len(w) /\ w[i + 1].role = "result"
      <4>1. ~Even(Len(s) - j) /\ j < Len(s) /\ s[j + 1].role = "result"
        BY <3>2, <3>3, <3>5 DEF PairAt
      <4>2. i < Len(w)
        BY <1>2, <3>2, <4>1
      <4>3. i + 1 \in 2..Len(w) /\ (i + 1) - 1 + d = j + 1
        BY <1>2, <3>2, <4>2
      <4>4. w[i + 1] = s[j + 1]
        BY <1>2, <4>3
      <4> QED
        BY <3>1, <4>1, <4>2, <4>4
    <3> QED
      BY <3>4, <3>5 DEF PairAt
  <2> QED
    BY <2>1, <2>2
<1>4. w[Len(w)] = s[Len(s)]
  <2>1. Len(w) \in 2..Len(w) /\ Len(w) - 1 + d = Len(s)
    BY <1>2
  <2> QED
    BY <1>2, <2>1
<1>5. InPairs(w) /\ Len(w) > 0
  BY <1>2, <1>3 DEF InPairs
<1> QED
  BY <1>0, <1>2, <1>4, <1>5 DEF w

\* However messages in pairs are cut, by number or by length.
LEMMA WindowInPairs ==
    ASSUME NEW M, NEW s \in Seq(M), Len(s) > 0, Single(s[1]), InPairs(s)
    PROVE  /\ Choosing!Window(s) \in Seq(M) /\ Len(Choosing!Window(s)) > 0
           /\ InPairs(Choosing!Window(s))
           /\ Choosing!Window(s)[Len(Choosing!Window(s))] = s[Len(s)]
<1> DEFINE n == Choosing!ByNumber(s)
           w == Choosing!Window(s)
<1>1. n = s \/ n = Cut(s, 8)
  BY DEF Choosing!ByNumber, Cut
<1>2. w = n \/ w = Cut(n, 4)
  BY DEF Choosing!ByLength, Choosing!Window, Cut
<1> HIDE DEF n, w
<1>3. 8 \in Nat /\ Even(8) /\ 8 > 0 /\ 4 \in Nat /\ Even(4) /\ 4 > 0
  BY Parity
<1>4. n \in Seq(M) /\ Len(n) > 0 /\ n[1] = s[1] /\ InPairs(n) /\ n[Len(n)] = s[Len(s)]
  <2>1. CASE n = s
    BY <2>1
  <2>2. CASE n = Cut(s, 8)
    BY <1>3, <2>2, CutInPairs
  <2> QED
    BY <1>1, <2>1, <2>2
<1>5. CASE w = n
  BY <1>4, <1>5 DEF w
<1>6. CASE w = Cut(n, 4)
  <2>1. Single(n[1])
    BY <1>4
  <2>2. w \in Seq(M) /\ Len(w) > 0 /\ InPairs(w) /\ w[Len(w)] = n[Len(n)]
    BY <1>3, <1>4, <1>6, <2>1, CutInPairs
  <2> QED
    BY <1>4, <2>2 DEF w
<1> QED
  BY <1>2, <1>5, <1>6

WindowInv ==
    /\ messages \in Logs /\ Len(messages) > 0 /\ Single(messages[1]) /\ InPairs(messages)
    /\ window \in Logs /\ InPairs(window)
    /\ rounds \in Nat
    /\ choosing = "calling" => Len(window) > 0 /\ window[Len(window)] = messages[Len(messages)]

LEMMA NothingInPairs == <<>> \in Logs /\ InPairs(<<>>)
BY DEF Logs, InPairs

\* Messages of which none is a call or a result.
LEMMA SinglesInPairs ==
    ASSUME NEW s, \A i \in 1..Len(s) : Single(s[i])
    PROVE  InPairs(s)
BY DEF InPairs, PairAt, Single

LEMMA WindowInit == ASSUME Choosing!Init PROVE WindowInv
<1>1. PICK k \in 0..MaxTurns : \E long \in [1..k -> BOOLEAN] :
         messages = <<Choosing!System>> \o [i \in 1..k |-> Choosing!Message("turn", i, long[i])]
                      \o <<Choosing!Question>>
  BY DEF Choosing!Init
<1>2. PICK long \in [1..k -> BOOLEAN] :
         messages = <<Choosing!System>> \o [i \in 1..k |-> Choosing!Message("turn", i, long[i])]
                      \o <<Choosing!Question>>
  BY <1>1
<1> DEFINE turns == [i \in 1..k |-> Choosing!Message("turn", i, long[i])]
<1>3. k \in Nat
  OBVIOUS
<1>4. \A i \in 1..k : turns[i] \in LogMessages /\ Single(turns[i])
  BY DEF Choosing!Message, LogMessages, Single
<1>5. turns \in Seq(LogMessages) /\ Len(turns) = k
  <2>1. turns \in [1..k -> LogMessages]
    BY <1>4
  <2> HIDE DEF turns
  <2> QED
    BY <1>3, <2>1
<1>6. /\ Choosing!System \in LogMessages /\ Single(Choosing!System)
      /\ Choosing!Question \in LogMessages /\ Single(Choosing!Question)
  BY DEF Choosing!System, Choosing!Question, Choosing!Message, LogMessages, Single
<1>7. messages = <<Choosing!System>> \o turns \o <<Choosing!Question>>
  BY <1>2
<1> HIDE DEF turns
<1>8. /\ messages \in Seq(LogMessages) /\ Len(messages) = k + 2
      /\ messages[1] = Choosing!System /\ messages[k + 2] = Choosing!Question
  BY <1>3, <1>5, <1>6, <1>7
<1>9. \A i \in 2..(k + 1) : messages[i] = turns[i - 1]
  BY <1>3, <1>5, <1>6, <1>7
<1>10. ASSUME NEW i \in 1..Len(messages) PROVE Single(messages[i])
  <2>1. i = 1 \/ i = k + 2 \/ (i \in 2..(k + 1) /\ i - 1 \in 1..k)
    BY <1>3, <1>8
  <2> QED
    BY <1>4, <1>6, <1>8, <1>9, <2>1
<1>11. Len(messages) > 0 /\ Single(messages[1]) /\ InPairs(messages)
  BY <1>3, <1>8, <1>10, SinglesInPairs
<1> QED
  BY <1>8, <1>11, NothingInPairs DEF Choosing!Init, WindowInv, Logs

\* A call and its result behind s.
Added(s, c, r) == s \o <<c, r>>

LEMMA TwoMore ==
    ASSUME NEW M, NEW s \in Seq(M), NEW c \in M, NEW r \in M
    PROVE  /\ Added(s, c, r) \in Seq(M) /\ Len(Added(s, c, r)) = Len(s) + 2
           /\ Added(s, c, r)[Len(s) + 1] = c /\ Added(s, c, r)[Len(s) + 2] = r
           /\ \A i \in 1..Len(s) : Added(s, c, r)[i] = s[i]
<1> DEFINE two == <<c, r>>
           L == Len(s)
           u == s \o two
<1>1. two \in Seq(M) /\ Len(two) = 2 /\ two[1] = c /\ two[2] = r
  OBVIOUS
<1> HIDE DEF two
<1>2. /\ u \in Seq(M) /\ Len(u) = L + Len(two)
      /\ \A i \in 1..(L + Len(two)) : u[i] = IF i <= L THEN s[i] ELSE two[i - L]
  BY <1>1, ConcatProperties
<1>3. L \in Nat
  OBVIOUS
<1> HIDE DEF L, u
<1>4. L + 1 \in 1..(L + Len(two)) /\ ~(L + 1 <= L) /\ L + 1 - L = 1
  BY <1>1, <1>3
<1>5. L + 2 \in 1..(L + Len(two)) /\ ~(L + 2 <= L) /\ L + 2 - L = 2
  BY <1>1, <1>3
<1>6. u[L + 1] = c /\ u[L + 2] = r
  <2>1. u[L + 1] = two[1]
    BY <1>1, <1>2, <1>3, <1>4
  <2>2. u[L + 2] = two[2]
    BY <1>1, <1>2, <1>3, <1>5
  <2> QED
    BY <1>1, <2>1, <2>2
<1>7. ASSUME NEW i \in 1..L PROVE u[i] = s[i]
  <2>1. i \in 1..(L + Len(two)) /\ i <= L
    BY <1>1, <1>3
  <2> QED
    BY <1>2, <2>1
<1>8. u \in Seq(M) /\ Len(u) = L + 2
  BY <1>1, <1>2
<1> QED
  BY <1>6, <1>7, <1>8 DEF two, L, u, Added

\* A call and its result.
Paired(c, r) == c.role = "call" /\ r.role = "result" /\ c = Choosing!Message("call", r.n, FALSE)

\* A round adds a call and its result.
LEMMA PairAdded ==
    ASSUME NEW M, NEW s \in Seq(M), Len(s) > 0, InPairs(s), NEW c \in M, NEW r \in M,
           Paired(c, r)
    PROVE  /\ Added(s, c, r) \in Seq(M) /\ Len(Added(s, c, r)) > 0
           /\ Added(s, c, r)[1] = s[1] /\ InPairs(Added(s, c, r))
<1> DEFINE L == Len(s)
           t == Added(s, c, r)
<1>1. L \in Nat /\ L > 0
  OBVIOUS
<1>2. /\ t \in Seq(M) /\ Len(t) = L + 2 /\ t[L + 1] = c /\ t[L + 2] = r
      /\ \A i \in 1..L : t[i] = s[i]
  BY TwoMore
<1> HIDE DEF t
<1>3. ASSUME NEW i \in 1..Len(t) PROVE PairAt(t, i)
  <2>1. CASE i \in 1..L
    <3>1. PairAt(s, i)
      BY <2>1 DEF InPairs
    <3>2. t[i] = s[i] /\ (Even(Len(t) - i) <=> Even(L - i))
      <4>1. L - i \in Nat /\ Len(t) - i = (L - i) + 2
        BY <1>1, <1>2, <2>1
      <4> QED
        BY <1>2, <2>1, <4>1, Parity
    <3>3. i > 1 => t[i - 1] = s[i - 1]
      BY <1>1, <1>2, <2>1
    <3>4. i < L => t[i + 1] = s[i + 1] /\ i < Len(t)
      BY <1>1, <1>2, <2>1
    <3> QED
      BY <3>1, <3>2, <3>3, <3>4 DEF PairAt
  <2>2. CASE i = L + 1
    <3>1. t[i] = c /\ t[i + 1] = r /\ ~Even(Len(t) - i) /\ i < Len(t)
      <4>1. i + 1 = L + 2 /\ Len(t) - i = 1 /\ i < Len(t)
        BY <1>1, <1>2, <2>2
      <4>2. t[i] = c /\ t[i + 1] = r
        BY <1>2, <2>2, <4>1
      <4>3. ~Even(Len(t) - i)
        BY <4>1, Parity
      <4> QED
        BY <4>1, <4>2, <4>3
    <3> QED
      BY <3>1 DEF PairAt, Paired
  <2>3. CASE i = L + 2
    <3>1. t[i] = r /\ t[i - 1] = c /\ Even(Len(t) - i) /\ i > 1
      <4>1. i - 1 = L + 1 /\ Len(t) - i = 0 /\ i > 1
        BY <1>1, <1>2, <2>3
      <4>2. t[i] = r /\ t[i - 1] = c
        BY <1>2, <2>3, <4>1
      <4>3. Even(Len(t) - i)
        BY <4>1, Parity
      <4> QED
        BY <4>1, <4>2, <4>3
    <3> QED
      BY <3>1 DEF PairAt, Paired
  <2> QED
    BY <1>1, <1>2, <2>1, <2>2, <2>3
<1> QED
  BY <1>1, <1>2, <1>3 DEF InPairs, t

LEMMA ObserveKeeps == ASSUME WindowInv, Choosing!Observe PROVE WindowInv'
<1> DEFINE c == Choosing!Message("call", rounds + 1, FALSE)
<1>1. PICK long \in BOOLEAN :
         messages' = messages \o <<c, Choosing!Message("result", rounds + 1, long)>>
  BY DEF Choosing!Observe
<1> DEFINE r == Choosing!Message("result", rounds + 1, long)
<1>2. /\ c \in LogMessages /\ r \in LogMessages /\ c.role = "call" /\ r.role = "result"
      /\ Paired(c, r)
  BY DEF WindowInv, Choosing!Message, LogMessages, Paired
<1>3. messages' = messages \o <<c, r>>
  BY <1>1
<1> HIDE DEF c, r
<1>4. messages' \in Logs /\ Len(messages') > 0 /\ messages'[1] = messages[1] /\ InPairs(messages')
  BY <1>2, <1>3, PairAdded DEF WindowInv, Logs, Added
<1>5. choosing' # "calling" /\ rounds' = rounds + 1 /\ window' = window
  BY DEF Choosing!Observe
<1> QED
  BY <1>4, <1>5 DEF WindowInv

LEMMA WindowStep == ASSUME WindowInv, [Choosing!Next]_(Choosing!vars) PROVE WindowInv'
<1>1. CASE Choosing!Choose
  <2>1. UNCHANGED <<messages, rounds>> /\ window' = Choosing!Window(messages)
    BY <1>1 DEF Choosing!Choose
  <2>2. window' \in Logs /\ Len(window') > 0 /\ InPairs(window')
        /\ window'[Len(window')] = messages[Len(messages)]
    BY <2>1, WindowInPairs DEF WindowInv, Logs
  <2> QED
    BY <2>1, <2>2 DEF WindowInv
<1>2. CASE UNCHANGED Choosing!vars
  BY <1>2 DEF Choosing!vars, WindowInv
<1> QED
  BY <1>1, <1>2, ObserveKeeps DEF Choosing!Next

\* However the context is cut, whatever the length of the session and of the
\* rounds, the model is shown every call with its result, and the newest message
\* last (_convert_history_to_messages and the two cuts of node_llm_with_tools).
THEOREM CallsAndResults == Choosing!Spec => []PairsWhole
<1>1. WindowInv => PairsWhole
  <2> SUFFICES ASSUME WindowInv PROVE Choosing!PairsWhole
    BY DEF PairsWhole
  <2>1. DOMAIN window = 1..Len(window)
    BY DEF WindowInv, Logs
  <2>2. choosing = "calling" => Choosing!Last(window) = Choosing!Last(messages)
    BY DEF WindowInv, Choosing!Last
  <2> QED
    BY <2>1, <2>2 DEF WindowInv, InPairs, PairAt, Choosing!PairsWhole
<1> QED
  BY <1>1, WindowInit, WindowStep, PTL DEF Choosing!Spec

-----------------------------------------------------------------------------
(* Hours are added up by folds.  A sum of natural numbers is how many      *)
(* units there are to count, so that counting by keys is a bijection.      *)

Units(f, S) == {u \in S \X Nat : 1 <= u[2] /\ u[2] <= f[u[1]]}

\* A set of numbers has a least one, and of some subsets of a finite set one has
\* no smaller one among them.
LEMMA Least ==
    ASSUME NEW T, T \subseteq Nat, T # {}
    PROVE  \E x \in T : \A y \in T : x <= y
<1>1. PICK x \in T : \A y \in T : ~ (<<y, x>> \in OpToRel(<, Nat))
  BY NatLessThanWellFounded, WFMin
<1>2. ASSUME NEW y \in T PROVE x <= y
  <2>1. ~(y < x)
    BY <1>1 DEF OpToRel
  <2> QED
    BY <2>1
<1> QED
  BY <1>2

LEMMA SmallestSubset ==
    ASSUME NEW S, IsFiniteSet(S), NEW T \in SUBSET (SUBSET S), T # {}
    PROVE  \E s \in T : \A x \in s : s \ {x} \notin T
<1> DEFINE sizes == {Cardinality(s) : s \in T}
<1>1. \A s \in T : IsFiniteSet(s) /\ Cardinality(s) \in Nat
  BY FS_Subset, FS_CardinalityType
<1>2. sizes \subseteq Nat /\ sizes # {}
  BY <1>1
<1> HIDE DEF sizes
<1>3. PICK n \in sizes : \A m \in sizes : n <= m
  BY <1>2, Least
<1>4. PICK s \in T : Cardinality(s) = n
  BY <1>3 DEF sizes
<1>5. ASSUME NEW x \in s, s \ {x} \in T PROVE FALSE
  <2>1. Cardinality(s \ {x}) = n - 1 /\ Cardinality(s \ {x}) \in sizes
    BY <1>1, <1>4, <1>5, FS_RemoveElement DEF sizes
  <2> QED
    BY <1>2, <1>3, <2>1
<1> QED
  BY <1>5

\* The units of a set are those of one element and those of the others.
LEMMA UnitsStep ==
    ASSUME NEW S, NEW f \in [S -> Nat], NEW x \in S, IsFiniteSet(Units(f, S \ {x}))
    PROVE  /\ IsFiniteSet(Units(f, S))
           /\ Cardinality(Units(f, S)) = f[x] + Cardinality(Units(f, S \ {x}))
<1> DEFINE own == {x} \X (1..f[x])
<1> DEFINE rest == Units(f, S \ {x})
<1>1. IsFiniteSet(own) /\ Cardinality(own) = f[x]
  <2>1. f[x] \in Nat /\ IsFiniteSet(1..f[x]) /\ Cardinality(1..f[x]) = f[x]
    BY FS_Interval
  <2>2. IsFiniteSet({x}) /\ Cardinality({x}) = 1
    BY FS_Singleton
  <2>3. IsFiniteSet(own) /\ Cardinality(own) = Cardinality({x}) * Cardinality(1..f[x])
    BY ONLY <2>1, <2>2, FS_Product, Zenon
  <2>4. Cardinality({x}) * Cardinality(1..f[x]) = f[x]
    BY ONLY <2>1, <2>2
  <2> QED
    BY <2>3, <2>4
<1>2. Units(f, S) = own \cup rest
  <2>1. ASSUME NEW u \in Units(f, S) PROVE u \in own \cup rest
    <3>1. u \in S \X Nat /\ 1 <= u[2] /\ u[2] <= f[u[1]]
      BY DEF Units
    <3>2. CASE u[1] = x
      <4>1. u[1] \in {x} /\ u[2] \in 1..f[x]
        BY <3>1, <3>2
      <4> QED
        BY <3>1, <4>1
    <3>3. CASE u[1] # x
      BY <3>1, <3>3 DEF Units
    <3> QED
      BY <3>2, <3>3
  <2>2. own \subseteq Units(f, S)
    BY DEF Units
  <2>3. rest \subseteq Units(f, S)
    BY DEF Units
  <2> QED
    BY <2>1, <2>2, <2>3
<1>3. own \cap rest = {}
  BY DEF Units
<1> HIDE DEF own, rest
<1>4. Cardinality(own \cup rest) = Cardinality(own) + Cardinality(rest) - Cardinality({})
  <2>1. IsFiniteSet(rest)
    BY DEF rest
  <2>2. Cardinality(own \cup rest)
          = Cardinality(own) + Cardinality(rest) - Cardinality(own \cap rest)
    BY ONLY <1>1, <2>1, FS_Union, Zenon
  <2> QED
    BY <1>3, <2>2
<1> QED
  <2>1. Cardinality({}) = 0 /\ Cardinality(rest) \in Nat /\ f[x] \in Nat
    BY FS_EmptySet, FS_CardinalityType DEF rest
  <2>2. IsFiniteSet(own \cup rest)
    BY <1>1, FS_Union DEF rest
  <2> QED
    BY <1>1, <1>2, <1>4, <2>1, <2>2 DEF rest

LEMMA UnitsFinite ==
    ASSUME NEW S, IsFiniteSet(S), NEW f \in [S -> Nat]
    PROVE  IsFiniteSet(Units(f, S))
<1> DEFINE bad == {s \in SUBSET S : ~IsFiniteSet(Units(f, s))}
<1>1. SUFFICES ASSUME bad # {} PROVE FALSE
  OBVIOUS
<1>2. bad \in SUBSET (SUBSET S)
  OBVIOUS
<1>3. PICK s \in bad : \A x \in s : s \ {x} \notin bad
  <2> HIDE DEF bad
  <2> QED
    BY <1>1, <1>2, SmallestSubset
<1>4. s # {}
  <2>1. Units(f, {}) = {}
    BY DEF Units
  <2> QED
    BY <2>1, FS_EmptySet
<1>5. PICK x \in s : TRUE
  BY <1>4
<1>6. IsFiniteSet(Units(f, s \ {x}))
  BY <1>3
<1> DEFINE h == [y \in s |-> f[y]]
<1>7. h \in [s -> Nat] /\ Units(h, s) = Units(f, s) /\ Units(h, s \ {x}) = Units(f, s \ {x})
  BY DEF Units
<1> HIDE DEF h
<1>8. IsFiniteSet(Units(f, s))
  BY <1>6, <1>7, UnitsStep
<1> QED
  BY <1>8

\* What the recursion of a fold defines, and that something is so defined.
AddsUp(g, f, S) ==
    g = [s \in SUBSET S |-> IF s = {} THEN 0
                            ELSE f[CHOOSE x \in s : TRUE] + g[s \ {CHOOSE x \in s : TRUE}]]

LEMMA CountAddsUp ==
    ASSUME NEW S, IsFiniteSet(S), NEW f \in [S -> Nat]
    PROVE  AddsUp([s \in SUBSET S |-> Cardinality(Units(f, s))], f, S)
<1> DEFINE g == [s \in SUBSET S |-> Cardinality(Units(f, s))]
<1>1. ASSUME NEW s \in SUBSET S, s # {}
      PROVE  g[s] = f[CHOOSE x \in s : TRUE] + g[s \ {CHOOSE x \in s : TRUE}]
  <2> DEFINE x == CHOOSE x \in s : TRUE
  <2>1. x \in s
    BY <1>1
  <2> HIDE DEF x
  <2> DEFINE h == [y \in s |-> f[y]]
  <2>2. h \in [s -> Nat] /\ Units(h, s) = Units(f, s) /\ Units(h, s \ {x}) = Units(f, s \ {x})
        /\ h[x] = f[x]
    BY <2>1 DEF Units
  <2>3. IsFiniteSet(s) /\ IsFiniteSet(s \ {x})
    BY FS_Subset
  <2>4. [y \in s \ {x} |-> f[y]] \in [s \ {x} -> Nat]
    OBVIOUS
  <2>5. Units([y \in s \ {x} |-> f[y]], s \ {x}) = Units(f, s \ {x})
    BY DEF Units
  <2>6. IsFiniteSet(Units(f, s \ {x}))
    BY <2>3, <2>4, <2>5, UnitsFinite
  <2> HIDE DEF h
  <2>7. Cardinality(Units(f, s)) = f[x] + Cardinality(Units(f, s \ {x}))
    BY <2>1, <2>2, <2>6, UnitsStep
  <2> QED
    BY <2>1, <2>7 DEF x
<1>2. g[{}] = 0
  <2>1. Units(f, {}) = {}
    BY DEF Units
  <2> QED
    BY <2>1, FS_EmptySet
<1>3. g = [s \in SUBSET S |-> IF s = {} THEN 0
                            ELSE f[CHOOSE x \in s : TRUE] + g[s \ {CHOOSE x \in s : TRUE}]]
  BY <1>1, <1>2
<1> QED
  BY <1>3 DEF AddsUp

LEMMA AddsUpCounts ==
    ASSUME NEW S, IsFiniteSet(S), NEW f \in [S -> Nat], NEW g, AddsUp(g, f, S)
    PROVE  g[S] = Cardinality(Units(f, S))
<1> DEFINE c == [s \in SUBSET S |-> Cardinality(Units(f, s))]
<1>0. AddsUp(c, f, S)
  BY CountAddsUp
<1> HIDE DEF c
<1> DEFINE bad == {s \in SUBSET S : g[s] # c[s]}
<1>1. SUFFICES ASSUME bad # {} PROVE FALSE
  BY DEF c
<1>2. bad \in SUBSET (SUBSET S)
  OBVIOUS
<1>3. PICK s \in bad : \A x \in s : s \ {x} \notin bad
  <2> HIDE DEF bad
  <2> QED
    BY <1>1, <1>2, SmallestSubset
<1>4. s \in SUBSET S /\ g[s] # c[s]
  OBVIOUS
<1>5. s # {}
  BY <1>0, <1>4 DEF AddsUp
<1> DEFINE x == CHOOSE x \in s : TRUE
<1>6. x \in s
  BY <1>5
<1>7. g[s] = f[x] + g[s \ {x}] /\ c[s] = f[x] + c[s \ {x}]
  BY <1>0, <1>4, <1>5 DEF AddsUp
<1>8. s \ {x} \in SUBSET S /\ s \ {x} \notin bad
  BY <1>3, <1>4, <1>6
<1> QED
  BY <1>4, <1>7, <1>8

\* Counting by keys, and adding up the counts, is counting.
LEMMA CountByKeys ==
    ASSUME NEW S, IsFiniteSet(S), NEW f \in [S -> Nat], NEW key, NEW K,
           key \in Surjection(S, K),
           NEW items \in [K -> Nat],
           \A k \in K : items[k] = Cardinality(Units(f, {x \in S : key[x] = k}))
    PROVE  /\ IsFiniteSet(K)
           /\ Cardinality(Units(items, K)) = Cardinality(Units(f, S))
<1>0. /\ key \in [S -> K]
      /\ \A k \in K : \E x \in S : key[x] = k
  BY DEF Surjection
<1>1. IsFiniteSet(K)
  BY FS_Surjection
<1> DEFINE block(k) == Units(f, {x \in S : key[x] = k})
<1> DEFINE B == [k \in K |-> CHOOSE b : b \in Bijection(1..items[k], block(k))]
<1>2. ASSUME NEW k \in K PROVE B[k] \in Bijection(1..items[k], block(k))
  <2> DEFINE part == {x \in S : key[x] = k}
  <2>1. IsFiniteSet(part)
    BY FS_Subset
  <2>2. [x \in part |-> f[x]] \in [part -> Nat]
        /\ Units([x \in part |-> f[x]], part) = Units(f, part)
    BY DEF Units
  <2>3. IsFiniteSet(block(k))
    BY <2>1, <2>2, UnitsFinite
  <2>4. \E b : b \in Bijection(1..items[k], block(k))
    BY <2>3, FS_CardinalityType DEF ExistsBijection
  <2> QED
    BY <2>4
<1> HIDE DEF B
<1>3. ASSUME NEW k \in K
      PROVE  /\ \A i \in 1..items[k] : B[k][i] \in block(k)
             /\ \A i, j \in 1..items[k] : B[k][i] = B[k][j] => i = j
             /\ \A u \in block(k) : \E i \in 1..items[k] : B[k][i] = u
  BY <1>2 DEF Bijection, Injection, IsInjective, Surjection
<1> DEFINE M == [u \in Units(items, K) |-> B[u[1]][u[2]]]
<1>4. \A u \in Units(items, K) : u \in K \X Nat /\ u[1] \in K /\ u[2] \in 1..items[u[1]]
  BY DEF Units
<1>5. M \in [Units(items, K) -> Units(f, S)]
  <2>1. ASSUME NEW u \in Units(items, K) PROVE M[u] \in Units(f, S)
    <3>1. M[u] \in block(u[1])
      BY <1>3, <1>4
    <3> QED
      BY <3>1 DEF Units
  <2> QED
    BY <2>1
<1>6. ASSUME NEW u \in Units(items, K), NEW v \in Units(items, K), M[u] = M[v] PROVE u = v
  <2>1. M[u] \in block(u[1]) /\ M[v] \in block(v[1])
    BY <1>3, <1>4
  <2>2. u[1] = v[1]
    BY <1>6, <2>1 DEF Units
  <2>3. u[2] = v[2]
    BY <1>3, <1>4, <1>6, <2>2
  <2> QED
    BY <1>4, <2>2, <2>3
<1>7. ASSUME NEW w \in Units(f, S) PROVE \E u \in Units(items, K) : M[u] = w
  <2>1. w \in S \X Nat /\ w[1] \in S /\ key[w[1]] \in K
    BY <1>0 DEF Units
  <2> DEFINE k == key[w[1]]
  <2>2. w \in block(k)
    BY <2>1 DEF Units
  <2>3. PICK i \in 1..items[k] : B[k][i] = w
    BY <1>3, <2>1, <2>2
  <2>4. <<k, i>> \in Units(items, K)
    BY <2>1, <2>3 DEF Units
  <2>5. M[<<k, i>>] = w
    BY <2>3, <2>4
  <2> QED
    BY <2>4, <2>5
<1> HIDE DEF M
<1>8. M \in Bijection(Units(items, K), Units(f, S))
  BY <1>5, <1>6, <1>7 DEF Bijection, Injection, IsInjective, Surjection
<1>9. IsFiniteSet(Units(items, K))
  BY <1>1, UnitsFinite
<1> QED
  BY <1>1, <1>8, <1>9, FS_Bijection DEF ExistsBijection

\* The two sums of the tools.
LEMMA TotalHoursCount ==
    ASSUME NEW rs, IsFiniteSet(rs), \A r \in rs : r.hours \in Nat
    PROVE  Reading!TotalHours(rs) = Cardinality(Units([r \in rs |-> r.hours], rs))
<1> DEFINE f == [r \in rs |-> r.hours]
<1> DEFINE Is(g) == g = [s \in SUBSET rs |-> IF s = {} THEN 0
      ELSE (CHOOSE x \in s : TRUE).hours + g[s \ {CHOOSE x \in s : TRUE}]]
<1> DEFINE it == CHOOSE g : Is(g)
<1>1. Reading!TotalHours(rs) = it[rs]
  BY DEF Reading!TotalHours, Reading!MapThenSumSet, Reading!MapThenFoldSet
<1>2. f \in [rs -> Nat] /\ \A r \in rs : f[r] = r.hours
  OBVIOUS
<1> HIDE DEF f
<1>3. \A s \in SUBSET rs : s # {} => f[CHOOSE x \in s : TRUE] = (CHOOSE x \in s : TRUE).hours
  BY <1>2
<1>4. \A g : AddsUp(g, f, rs) => Is(g)
  BY <1>3 DEF AddsUp
<1>5. \A g : Is(g) => AddsUp(g, f, rs)
  BY <1>3 DEF AddsUp
<1>6. \E g : AddsUp(g, f, rs)
  BY <1>2, CountAddsUp
<1> HIDE DEF Is
<1>7. Is(it)
  BY <1>4, <1>6
<1> HIDE DEF it
<1>8. it[rs] = Cardinality(Units(f, rs))
  BY <1>2, <1>5, <1>7, AddsUpCounts
<1> QED
  BY <1>1, <1>8 DEF f

LEMMA TotalCount ==
    ASSUME NEW K, IsFiniteSet(K), NEW items \in [K -> Nat]
    PROVE  Reading!Total(items) = Cardinality(Units(items, K))
<1> DEFINE Is(g) == g = [s \in SUBSET K |-> IF s = {} THEN 0
      ELSE items[CHOOSE x \in s : TRUE] + g[s \ {CHOOSE x \in s : TRUE}]]
<1> DEFINE it == CHOOSE g : Is(g)
<1>1. Reading!Total(items) = it[K]
  <2>1. DOMAIN items = K
    OBVIOUS
  <2> QED
    BY <2>1 DEF Reading!Total, Reading!MapThenSumSet, Reading!MapThenFoldSet
<1>2. \A g : AddsUp(g, items, K) <=> Is(g)
  BY DEF AddsUp
<1>3. \E g : AddsUp(g, items, K)
  BY CountAddsUp
<1> HIDE DEF Is
<1>4. Is(it)
  BY <1>2, <1>3
<1> HIDE DEF it
<1> QED
  BY <1>1, <1>2, <1>4, AddsUpCounts

\* Whatever the kind of the statistics, its items add up to the hours.
LEMMA ItemsAddUp ==
    ASSUME NEW type, NEW rs, IsFiniteSet(rs), \A r \in rs : r.hours \in Nat
    PROVE  Reading!Total(Reading!Items(type, rs)) = Reading!TotalHours(rs)
<1> DEFINE f == [r \in rs |-> r.hours]
<1> DEFINE K == {Reading!Key(type, r) : r \in rs}
<1> DEFINE key == [r \in rs |-> Reading!Key(type, r)]
<1> DEFINE items == Reading!Items(type, rs)
<1>1. f \in [rs -> Nat]
  OBVIOUS
<1>2. key \in Surjection(rs, K)
  BY DEF Surjection
<1>3. ASSUME NEW k \in K
      PROVE  items[k] = Cardinality(Units(f, {r \in rs : key[r] = k})) /\ items[k] \in Nat
  <2> DEFINE part == {r \in rs : Reading!Key(type, r) = k}
  <2>1. part = {r \in rs : key[r] = k} /\ IsFiniteSet(part) /\ part \subseteq rs
    BY FS_Subset
  <2>2. items[k] = Reading!TotalHours(part)
    BY DEF Reading!Items
  <2> DEFINE h == [r \in part |-> r.hours]
  <2>3. h \in [part -> Nat] /\ Units(h, part) = Units(f, part)
    BY <2>1 DEF Units
  <2>4. Reading!TotalHours(part) = Cardinality(Units(h, part))
    BY <2>1, TotalHoursCount
  <2>5. Cardinality(Units(h, part)) \in Nat
    BY <2>1, <2>3, UnitsFinite, FS_CardinalityType
  <2> QED
    BY <2>1, <2>2, <2>3, <2>4, <2>5
<1>4. items \in [K -> Nat]
  <2>1. items = [k \in K |-> Reading!TotalHours({r \in rs : Reading!Key(type, r) = k})]
    BY DEF Reading!Items
  <2> QED
    BY <1>3, <2>1
<1>5. Reading!TotalHours(rs) = Cardinality(Units(f, rs))
  BY TotalHoursCount
<1> HIDE DEF f, K, key, items
<1>6. IsFiniteSet(K) /\ Cardinality(Units(items, K)) = Cardinality(Units(f, rs))
  BY <1>1, <1>2, <1>3, <1>4, CountByKeys
<1>7. Reading!Total(items) = Cardinality(Units(items, K))
  BY <1>4, <1>6, TotalCount
<1> QED
  BY <1>5, <1>6, <1>7 DEF items

\* Days and weeks.
LEMMA DivMod ==
    ASSUME NEW W \in Nat \ {0}, NEW d \in Int
    PROVE  /\ d \div W \in Int /\ d % W \in 0..(W - 1)
           /\ d = W * (d \div W) + (d % W)
OBVIOUS

LEMMA SameQuotient ==
    ASSUME NEW W \in Nat \ {0}, NEW p \in Int, NEW q \in Int, NEW r \in 0..(W - 1), NEW d \in Int,
           d = W * q + r, W * p <= d, d <= W * p + W - 1
    PROVE  q = p
<1>1. CASE q >= p + 1
  <2>1. W * q >= W * (p + 1)
    BY <1>1
  <2>2. W * (p + 1) = W * p + W
    OBVIOUS
  <2> QED
    BY <2>1, <2>2
<1>2. CASE p >= q + 1
  <2>1. W * p >= W * (q + 1)
    BY <1>2
  <2>2. W * (q + 1) = W * q + W
    OBVIOUS
  <2> QED
    BY <2>1, <2>2
<1> QED
  BY <1>1, <1>2

-----------------------------------------------------------------------------
(* The hours that are read.                                                *)

ReadInv ==
    /\ call \in ReadCalls
    /\ reading \in {"asked", "found"} => fetched = {}
    /\ reading \in {"found", "fetched"} /\ Reading!Named(call) => who \in Reading!Found(call)
    /\ reading = "fetched" => call.tool \in Reading!HoursTools
    /\ reading = "fetched" /\ Reading!Named(call) => \A r \in fetched : r.user = who
    /\ Reading!NamedOnly

\* A lookup shows who has the name, and all of them if they fit on a page.
LEMMA PagesShow ==
    ASSUME NEW name, NEW page \in Reading!Pages(name)
    PROVE  /\ page \subseteq Holders[name]
           /\ Reading!Cardinality(Holders[name]) <= Page => page = Holders[name]
BY DEF Reading!Pages, Reading!kSubset

LEMMA FoundIsMeant ==
    ASSUME NEW c \in ReadCalls, Reading!Named(c)
    PROVE  Reading!Found(c) \subseteq Reading!Meant(c)
<1> DEFINE holders == Holders[c.name]
           exact == Exact[c.name]
           fits == Reading!Cardinality(Holders[c.name]) <= Page
<1>1. exact \subseteq holders
  BY RulesAssumption
<1>2. ASSUME NEW x \in Reading!OnPage(c.name)
      PROVE  x \in holders /\ (exact # {} /\ fits => x \in exact)
  <2>1. PICK page \in Reading!Pages(c.name) : x \in Reading!Chosen(page, c.name)
    BY <1>2 DEF Reading!OnPage
  <2>2. page \subseteq holders /\ (fits => page = holders)
    BY PagesShow
  <2> QED
    BY <1>1, <2>1, <2>2 DEF Reading!Chosen
<1>3. CASE c.tool # "query_project" \/ holders # {}
  <2>1. Reading!Found(c) = Reading!OnPage(c.name)
    BY <1>3 DEF Reading!Found
  <2>2. Reading!Meant(c) = IF exact # {} /\ fits THEN exact ELSE holders
    BY <1>3 DEF Reading!Meant
  <2> HIDE DEF holders, exact, fits
  <2> QED
    BY <1>2, <2>1, <2>2
<1>4. CASE c.tool = "query_project" /\ holders = {}
  <2> DEFINE short == Shorter[c.name]
  <2>1. exact = {}
    BY <1>1, <1>4
  <2>2. Reading!Meant(c) =
          Resembling[c.name] \cup (IF short = None THEN {} ELSE Holders[short])
    BY <1>4, <2>1 DEF Reading!Meant
  <2>3. UNION Reading!Pages(short) \subseteq Holders[short]
    BY PagesShow
  <2>4. Reading!Found(c) =
          IF short # None /\ Holders[short] # {} THEN UNION Reading!Pages(short)
          ELSE Resembling[c.name]
    BY <1>4 DEF Reading!Found
  <2> HIDE DEF short
  <2> QED
    BY <2>2, <2>3, <2>4
<1> QED
  BY <1>3, <1>4

LEMMA NamedInit == Reading!Init => ReadInv
BY DEF Reading!Init, ReadInv, Reading!NamedOnly

LEMMA NamedStep == ReadInv /\ [Reading!Next]_(Reading!vars) => ReadInv'
<1> SUFFICES ASSUME ReadInv, [Reading!Next]_(Reading!vars) PROVE ReadInv'
  OBVIOUS
<1>8. reading \in {"found", "fetched"} /\ Reading!Named(call) => who \in Reading!Meant(call)
  BY FoundIsMeant DEF ReadInv
<1>1. CASE Reading!Fails("asked") \/ Reading!Fails("found")
  BY <1>1 DEF ReadInv, Reading!NamedOnly, Reading!Fails, Reading!Failed, Reading!Becomes,
              Reading!Named
<1>2. CASE Reading!Find /\ ~Reading!Fails("asked")
  BY <1>2 DEF ReadInv, Reading!NamedOnly, Reading!Find, Reading!Becomes, Reading!Named, Reading!Found
<1>3. CASE Reading!NoName
  BY <1>3 DEF ReadInv, Reading!NamedOnly, Reading!NoName, Reading!Becomes, Reading!Named
<1>4. CASE Reading!Fetch
  <2>1. /\ reading = "found" /\ reading' = "fetched" /\ UNCHANGED <<hours, call, who>>
        /\ fetched' = Reading!Matching(call, who)
    BY <1>4 DEF Reading!Fetch, Reading!Becomes
  <2>2. ASSUME Reading!Named(call) PROVE \A r \in fetched' : r.user = who
    <3>1. who # None
      BY <2>1, <2>2, RulesAssumption DEF ReadInv
    <3> QED
      BY <2>1, <3>1 DEF Reading!Matching
  <2>3. Reading!NamedOnly'
    BY <2>1 DEF Reading!NamedOnly
  <2>4. call.tool \in Reading!HoursTools
    BY <1>4 DEF Reading!Fetch
  <2> QED
    BY <2>1, <2>2, <2>3, <2>4 DEF ReadInv, Reading!Named, Reading!Found
<1>5. CASE Reading!Compute
  <2>1. reading = "fetched" /\ reading' = "answered" /\ UNCHANGED <<hours, call, who, fetched>>
    BY <1>5 DEF Reading!Compute, Reading!Becomes
  <2>2. call.tool # "query_project"
    BY <2>1 DEF ReadInv, Reading!HoursTools
  <2>3. Reading!NamedOnly'
    BY <1>8, <2>1, <2>2 DEF ReadInv, Reading!NamedOnly, Reading!Named, Reading!Meant
  <2> QED
    BY <2>1, <2>3 DEF ReadInv
<1>6. CASE Reading!ShowProject
  <2>1. /\ reading = "found" /\ reading' = "answered" /\ UNCHANGED <<call, who, fetched>>
        /\ figures' = Reading!Success([p \in IF who = None THEN Projects ELSE {who} |-> 0])
    BY <1>6 DEF Reading!ShowProject, Reading!Becomes
  <2>2. ASSUME Reading!Named(call)
        PROVE  who \in Reading!Meant(call) /\ fetched = {} /\ DOMAIN figures'.items = {who}
    <3>1. who \in Reading!Meant(call) /\ who # None /\ fetched = {}
      BY <1>8, <2>1, <2>2, RulesAssumption DEF ReadInv
    <3> QED
      BY <2>1, <3>1 DEF Reading!Success
  <2>3. Reading!NamedOnly'
    BY <2>1, <2>2 DEF Reading!NamedOnly, Reading!Named, Reading!Meant
  <2> QED
    BY <2>1, <2>3 DEF ReadInv
<1>7. CASE UNCHANGED Reading!vars
  BY <1>7 DEF Reading!vars, ReadInv, Reading!NamedOnly, Reading!Named, Reading!Found, Reading!Meant
<1> QED
  BY <1>1, <1>2, <1>3, <1>4, <1>5, <1>6, <1>7 DEF Reading!Next, Reading!Find, Reading!LookupFails

\* A call that names somebody, or a project, answers for one whom it may mean and
\* never for everybody, whatever is booked, whoever has the name and however many
\* a lookup shows (the early returns of query_timesheet, compute_statistics,
\* generate_weekly_report and query_project; param_resolver.py:288-324, 337-380).
THEOREM OnlyTheNamed == Reading!Spec => []Reading!NamedOnly
<1>1. ReadInv => Reading!NamedOnly
  BY DEF ReadInv
<1> QED
  BY <1>1, NamedInit, NamedStep, PTL DEF Reading!Spec

\* Hours fetched are the hours that match, and the figures are made of them.
FiguresInv ==
    /\ call \in ReadCalls /\ hours \subseteq Bookings
    /\ reading = "fetched" => call.tool \in Reading!HoursTools /\ fetched = Reading!Matching(call, who)
    /\ reading = "answered" /\ figures.success /\ call.tool \in Reading!HoursTools =>
         /\ fetched = Reading!Matching(call, who)
         /\ figures = Reading!Success(IF call.tool = "compute_statistics"
                                      THEN Reading!Items(call.type, Reading!OfType(call, fetched))
                                      ELSE Reading!Items("by_title", fetched))

LEMMA FiguresInit == Reading!Init => FiguresInv
BY DEF Reading!Init, FiguresInv

LEMMA FiguresStep == FiguresInv /\ [Reading!Next]_Reading!vars => FiguresInv'
<1> SUFFICES ASSUME FiguresInv, [Reading!Next]_Reading!vars PROVE FiguresInv'
  OBVIOUS
<1> USE DEF FiguresInv
<1>1. ASSUME UNCHANGED <<hours, who>>
      PROVE  \A c : Reading!Matching(c, who)' = Reading!Matching(c, who)
  BY <1>1 DEF Reading!Matching
<1>2. CASE Reading!Find \/ Reading!LookupFails
  <2>1. /\ UNCHANGED <<hours, call>>
        /\ \/ reading' = "found"
           \/ reading' = "answered" /\ ~figures'.success
    BY <1>2 DEF Reading!Find, Reading!LookupFails, Reading!Becomes, Reading!Fails, Reading!Failed
  <2> QED
    BY <2>1
<1>3. CASE Reading!NoName
  BY <1>3 DEF Reading!NoName, Reading!Becomes
<1>4. CASE Reading!Fetch
  <2>1. /\ UNCHANGED <<hours, who, call>> /\ reading' = "fetched"
        /\ call.tool \in Reading!HoursTools /\ fetched' = Reading!Matching(call, who)
    BY <1>4 DEF Reading!Fetch, Reading!Becomes
  <2> QED
    BY <1>1, <2>1
<1>5. CASE Reading!Compute
  <2>1. /\ UNCHANGED <<hours, who, call, fetched>> /\ reading' = "answered"
        /\ fetched = Reading!Matching(call, who)
        /\ figures' = Reading!Success(IF call.tool = "compute_statistics"
                                      THEN Reading!Items(call.type, Reading!OfType(call, fetched))
                                      ELSE Reading!Items("by_title", fetched))
    BY <1>5 DEF Reading!Compute, Reading!Becomes
  <2>2. Reading!Matching(call, who)' = Reading!Matching(call, who)
    BY <1>1, <2>1
  <2> QED
    BY <2>1, <2>2
<1>6. CASE Reading!ShowProject
  BY <1>6 DEF Reading!ShowProject, Reading!Becomes, Reading!HoursTools
<1>7. CASE UNCHANGED Reading!vars
  <2>1. UNCHANGED <<reading, hours, call, who, fetched, figures>>
    BY <1>7 DEF Reading!vars
  <2> QED
    BY <1>1, <2>1
<1> QED
  BY <1>2, <1>3, <1>4, <1>5, <1>6, <1>7 DEF Reading!Next

LEMMA Fetched ==
    ASSUME FiguresInv, NEW c, NEW u
    PROVE  LET rs == Reading!Matching(c, u)
           IN  /\ IsFiniteSet(rs) /\ \A r \in rs : r.hours \in Nat /\ r.day \in Nat
               /\ IsFiniteSet(Reading!OfType(c, rs))
               /\ Reading!OfType(c, rs) \subseteq rs
<1> DEFINE rs == Reading!Matching(c, u)
<1>1. rs \subseteq Bookings
  BY DEF FiguresInv, Reading!Matching
<1> HIDE DEF rs
<1>2. IsFiniteSet(rs) /\ Reading!OfType(c, rs) \subseteq rs
  BY <1>1, RulesAssumption, FS_Subset DEF Reading!OfType
<1>3. IsFiniteSet(Reading!OfType(c, rs))
  BY <1>2, FS_Subset
<1> QED
  BY <1>1, <1>2, <1>3, RulesAssumption DEF rs

LEMMA FiguresCount == FiguresInv => Reading!CountedOnce
<1> SUFFICES ASSUME FiguresInv, reading = "answered", figures.success, call.tool \in Reading!HoursTools
             PROVE  figures.total = Reading!TotalHours(Reading!OfType(call, Reading!Matching(call, who)))
  BY DEF Reading!CountedOnce
<1> DEFINE rs == Reading!OfType(call, fetched)
<1>1. fetched = Reading!Matching(call, who)
  BY DEF FiguresInv
<1>2. IsFiniteSet(rs) /\ \A r \in rs : r.hours \in Nat
  BY <1>1, Fetched
<1>3. call.tool # "compute_statistics" => rs = fetched
  BY RulesAssumption DEF FiguresInv, Reading!OfType
<1>4. \E type : figures.total = Reading!Total(Reading!Items(type, rs))
  BY <1>3 DEF FiguresInv, Reading!Success
<1> HIDE DEF rs
<1>5. figures.total = Reading!TotalHours(rs)
  BY <1>2, <1>4, ItemsAddUp
<1> QED
  BY <1>1, <1>5 DEF rs

\* A week begins at a multiple of its length.
LEMMA WeekBegins ==
    ASSUME NEW c \in ReadCalls, c.tool = "generate_weekly_report"
    PROVE  \E p \in Int : Reading!Days(c) = [start |-> WeekDays * p, end |-> WeekDays * p + WeekDays - 1]
<1> DEFINE monday == CASE c.week = <<"lastWeek">> -> Reading!Monday(Today) - WeekDays
                       [] c.week \in {None, <<"thisWeek">>, <<"unreadable">>} -> Reading!Monday(Today)
                       [] OTHER -> Reading!Monday(c.week[2])
<1>1. WeekDays \in Nat \ {0} /\ Today \in Nat
  BY RulesAssumption
<1>2. ASSUME NEW d \in Nat PROVE \E p \in Int : Reading!Monday(d) = WeekDays * p
  <2>1. Reading!Monday(d) = WeekDays * (d \div WeekDays) /\ d \div WeekDays \in Int
    BY <1>1, DivMod DEF Reading!Monday
  <2> QED
    BY <2>1
<1>3. \/ monday = Reading!Monday(Today) - WeekDays
      \/ monday = Reading!Monday(Today)
      \/ c.week \in {"date"} \X Nat /\ monday = Reading!Monday(c.week[2])
  <2>1. c.week \in {None, <<"thisWeek">>, <<"lastWeek">>, <<"unreadable">>} \cup ({"date"} \X Nat)
    BY RulesAssumption
  <2>2. CASE c.week = <<"lastWeek">>
    <3>1. c.week \notin {None, <<"thisWeek">>, <<"unreadable">>}
      BY <2>2, RulesAssumption
    <3> QED
      BY <2>2, <3>1, Zenon
  <2>3. CASE c.week # <<"lastWeek">> /\ c.week \in {None, <<"thisWeek">>, <<"unreadable">>}
    BY <2>3, Zenon
  <2>4. CASE c.week # <<"lastWeek">> /\ c.week \notin {None, <<"thisWeek">>, <<"unreadable">>}
    <3>1. monday = Reading!Monday(c.week[2])
      BY <2>4, Zenon
    <3>2. c.week \in {"date"} \X Nat
      BY <2>1, <2>4
    <3> QED
      BY <3>1, <3>2
  <2> QED
    BY <2>2, <2>3, <2>4
<1>4. Reading!Days(c) = [start |-> monday, end |-> monday + WeekDays - 1]
  BY Zenon DEF Reading!Days, Reading!WeekRange
<1> HIDE DEF monday
<1>5. \E p \in Int : monday = WeekDays * p
  <2>1. CASE monday = Reading!Monday(Today) - WeekDays
    <3>1. PICK p \in Int : Reading!Monday(Today) = WeekDays * p
      BY <1>1, <1>2
    <3>2. monday = WeekDays * (p - 1) /\ p - 1 \in Int
      BY <1>1, <2>1, <3>1
    <3> QED
      BY <3>2
  <2>2. CASE monday = Reading!Monday(Today)
    BY <1>1, <1>2, <2>2
  <2>3. CASE c.week \in {"date"} \X Nat /\ monday = Reading!Monday(c.week[2])
    <3>1. c.week[2] \in Nat
      BY <2>3
    <3> QED
      BY <1>2, <2>3, <3>1
  <2> QED
    BY <1>3, <2>1, <2>2, <2>3
<1> QED
  BY <1>4, <1>5

LEMMA FiguresAgree == FiguresInv => Reading!WeeksAgree
<1> DEFINE weeks == Reading!Items("weekly_hours", fetched)
<1> DEFINE divided == Reading!Days(call).start < NewYear /\ NewYear <= Reading!Days(call).end
<1> SUFFICES ASSUME FiguresInv, reading = "answered", figures.success,
                    call.tool = "generate_weekly_report", ~divided
             PROVE  Cardinality(DOMAIN weeks) <= 1 /\ Reading!Total(weeks) = figures.total
  <2>1. \A S : Reading!Cardinality(S) = Cardinality(S)
    BY DEF Reading!Cardinality, Cardinality
  <2> QED
    BY <2>1 DEF Reading!WeeksAgree
<1>1. /\ fetched = Reading!Matching(call, who)
      /\ figures.total = Reading!Total(Reading!Items("by_title", fetched))
  BY DEF FiguresInv, Reading!HoursTools, Reading!Success
<1>2. IsFiniteSet(fetched) /\ \A r \in fetched : r.hours \in Nat /\ r.day \in Nat
  BY <1>1, Fetched
<1>3. Reading!Total(weeks) = figures.total
  BY <1>1, <1>2, ItemsAddUp
<1>4. PICK p \in Int :
        Reading!Days(call) = [start |-> WeekDays * p, end |-> WeekDays * p + WeekDays - 1]
  BY WeekBegins DEF FiguresInv
<1>5. ASSUME NEW r \in fetched
      PROVE  Reading!Key("weekly_hours", r) = <<"weekly_hours", WeekDays * p >= NewYear, p>>
  <2>0. WeekDays \in Nat \ {0} /\ NewYear \in Nat /\ r.day \in Nat
    BY <1>2, RulesAssumption
  <2>1. WeekDays * p <= r.day /\ r.day <= WeekDays * p + WeekDays - 1
    BY <1>1, <1>4 DEF Reading!Matching
  <2>2. r.day \div WeekDays = p
    <3>0. r.day \in Int
      BY <2>0
    <3>1. /\ r.day \div WeekDays \in Int /\ r.day % WeekDays \in 0..(WeekDays - 1)
          /\ r.day = WeekDays * (r.day \div WeekDays) + (r.day % WeekDays)
      BY <2>0, <3>0, DivMod, Zenon
    <3> QED
      BY <2>0, <2>1, <3>0, <3>1, SameQuotient, Zenon
  <2>3. (r.day >= NewYear) = (WeekDays * p >= NewYear)
    <3>1. WeekDays * p \in Int
      BY <2>0
    <3> QED
      BY <1>4, <2>0, <2>1, <3>1
  <2>4. Reading!Key("weekly_hours", r) = <<"weekly_hours", r.day >= NewYear, r.day \div WeekDays>>
    BY Zenon DEF Reading!Key
  <2> QED
    BY <2>2, <2>3, <2>4
<1>6. DOMAIN weeks \in SUBSET {<<"weekly_hours", WeekDays * p >= NewYear, p>>}
  BY <1>5 DEF Reading!Items
<1>7. Cardinality(DOMAIN weeks) <= 1
  <2>1. PICK k : DOMAIN weeks \in SUBSET {k}
    BY <1>6
  <2>2. IsFiniteSet({k}) /\ Cardinality({k}) = 1
    BY FS_Singleton
  <2>3. Cardinality(DOMAIN weeks) <= Cardinality({k})
    BY <2>1, <2>2, FS_Subset, Zenon
  <2> QED
    BY <2>2, <2>3
<1> QED
  BY <1>3, <1>7

\* For any bookings, calls and calendar, hours are those of the one who is named,
\* each is counted once whatever it is counted by, and the report of a week and
\* the statistics by week agree (the aggregations of query_timesheet,
\* compute_statistics and generate_weekly_report).
THEOREM HoursCounted == Reading!Spec => []HoursRight
<1>1. FiguresInv /\ Reading!NamedOnly => HoursRight
  BY FiguresCount, FiguresAgree DEF HoursRight
<1> QED
  BY <1>1, FiguresInit, FiguresStep, OnlyTheNamed, PTL DEF Reading!Spec

-----------------------------------------------------------------------------
(* The reply of POST /chat.                                                *)

Events == [type : {"tool_call", "thinking", "response", "error"}, text : Nat]

ErrorsOf(s) == {i \in 1..Len(s) : s[i].type = "error"}
SinceOf(s) == {i \in 1..Len(s) : s[i].text # 0 /\ \A j \in ErrorsOf(s) : j <= i}

\* What r says of the stream s.
Says(r, s) ==
    /\ r \in Seq(Nat)
    /\ SinceOf(s) = {r[i] : i \in 1..Len(r)}
    /\ \A i, j \in 1..Len(r) : i < j => r[i] < r[j]

\* An event that is nothing to read, read after s.
LEMMA SaysNothing ==
    ASSUME NEW s \in Seq(Events), NEW e \in Events, e.type # "error", e.text = 0
    PROVE  ErrorsOf(Append(s, e)) = ErrorsOf(s) /\ SinceOf(Append(s, e)) = SinceOf(s)
<1> DEFINE t == Append(s, e)
<1>1. /\ Len(t) = Len(s) + 1 /\ Len(s) \in Nat /\ t[Len(s) + 1] = e
      /\ \A i \in 1..Len(s) : t[i] = s[i]
  OBVIOUS
<1> HIDE DEF t
<1>2. ErrorsOf(t) = ErrorsOf(s)
  BY <1>1 DEF ErrorsOf
<1>3. SinceOf(t) = SinceOf(s)
  BY <1>1, <1>2 DEF SinceOf
<1> QED
  BY <1>2, <1>3 DEF t

\* A text of its own number.
LEMMA SaysMore ==
    ASSUME NEW s \in Seq(Events), NEW e \in Events, e.type # "error", e.text = Len(s) + 1
    PROVE  /\ ErrorsOf(Append(s, e)) = ErrorsOf(s)
           /\ SinceOf(Append(s, e)) = SinceOf(s) \cup {Len(s) + 1}
<1> DEFINE t == Append(s, e)
<1>1. /\ Len(t) = Len(s) + 1 /\ Len(s) \in Nat /\ t[Len(s) + 1] = e
      /\ \A i \in 1..Len(s) : t[i] = s[i]
  OBVIOUS
<1> HIDE DEF t
<1>2. ErrorsOf(t) = ErrorsOf(s)
  BY <1>1 DEF ErrorsOf
<1>3. \A j \in ErrorsOf(s) : j <= Len(s) + 1
  BY <1>1 DEF ErrorsOf
<1>4. SinceOf(t) = SinceOf(s) \cup {Len(s) + 1}
  BY <1>1, <1>2, <1>3 DEF SinceOf
<1> QED
  BY <1>2, <1>4 DEF t

\* An error takes the place of all before it.
LEMMA SaysError ==
    ASSUME NEW s \in Seq(Events), NEW e \in Events, e.type = "error", e.text = Len(s) + 1
    PROVE  ErrorsOf(Append(s, e)) # {} /\ SinceOf(Append(s, e)) = {Len(s) + 1}
<1> DEFINE t == Append(s, e)
<1>1. /\ Len(t) = Len(s) + 1 /\ Len(s) \in Nat /\ t[Len(s) + 1] = e
      /\ \A i \in 1..Len(s) : t[i] = s[i]
  OBVIOUS
<1> HIDE DEF t
<1>2. Len(s) + 1 \in ErrorsOf(t)
  BY <1>1 DEF ErrorsOf
<1>3. \A j \in ErrorsOf(t) : j <= Len(s) + 1
  BY <1>1 DEF ErrorsOf
<1>4. SinceOf(t) = {Len(s) + 1}
  BY <1>1, <1>2, <1>3 DEF SinceOf
<1> QED
  BY <1>2, <1>4 DEF t

\* The reply one text longer.
LEMMA LongerReply ==
    ASSUME NEW r \in Seq(Nat), NEW n \in Nat, \A i \in 1..Len(r) : r[i] < n,
           \A i, j \in 1..Len(r) : i < j => r[i] < r[j]
    PROVE  /\ Append(r, n) \in Seq(Nat)
           /\ {Append(r, n)[i] : i \in 1..Len(Append(r, n))} = {r[i] : i \in 1..Len(r)} \cup {n}
           /\ \A i, j \in 1..Len(Append(r, n)) : i < j => Append(r, n)[i] < Append(r, n)[j]
<1> DEFINE t == Append(r, n)
<1>1. /\ t \in Seq(Nat) /\ Len(t) = Len(r) + 1 /\ Len(r) \in Nat /\ t[Len(r) + 1] = n
      /\ \A i \in 1..Len(r) : t[i] = r[i]
  OBVIOUS
<1> HIDE DEF t
<1>2. {t[i] : i \in 1..Len(t)} = {r[i] : i \in 1..Len(r)} \cup {n}
  <2>1. ASSUME NEW i \in 1..Len(t) PROVE t[i] \in {r[j] : j \in 1..Len(r)} \cup {n}
    <3>1. i \in 1..Len(r) \/ i = Len(r) + 1
      BY <1>1
    <3> QED
      BY <1>1, <3>1
  <2>2. ASSUME NEW i \in 1..Len(r) PROVE r[i] \in {t[j] : j \in 1..Len(t)}
    <3>1. i \in 1..Len(t) /\ t[i] = r[i]
      BY <1>1
    <3> QED
      BY <3>1
  <2>3. n \in {t[j] : j \in 1..Len(t)}
    <3>1. Len(r) + 1 \in 1..Len(t)
      BY <1>1
    <3> QED
      BY <1>1, <3>1
  <2> QED
    BY <2>1, <2>2, <2>3
<1>3. ASSUME NEW i \in 1..Len(t), NEW j \in 1..Len(t), i < j PROVE t[i] < t[j]
  <2>1. i \in 1..Len(r)
    BY <1>1, <1>3
  <2>2. CASE j \in 1..Len(r)
    BY <1>1, <1>3, <2>1, <2>2
  <2>3. CASE j = Len(r) + 1
    BY <1>1, <2>1, <2>3
  <2> QED
    BY <1>1, <2>2, <2>3
<1> QED
  BY <1>1, <1>2, <1>3 DEF t

\* A reply of one text.
LEMMA OneText ==
    ASSUME NEW n \in Nat
    PROVE  /\ <<n>> \in Seq(Nat) /\ {<<n>>[i] : i \in 1..Len(<<n>>)} = {n}
           /\ \A i, j \in 1..Len(<<n>>) : i < j => <<n>>[i] < <<n>>[j]
<1> DEFINE t == <<n>>
<1>1. t \in Seq(Nat) /\ Len(t) = 1 /\ t[1] = n
  OBVIOUS
<1> HIDE DEF t
<1>2. 1..Len(t) = {1}
  BY <1>1
<1>3. {t[i] : i \in 1..Len(t)} = {n}
  BY <1>1, <1>2
<1> QED
  BY <1>1, <1>2, <1>3 DEF t

ReplyInv ==
    /\ sent \in Seq(Events)
    /\ Says(reply, sent)
    /\ phase \in {"idle", "open", "answered", "done", "refused"} =>
         (status = "error" <=> ErrorsOf(sent) # {})
    /\ phase \in {"idle", "open", "answered"} => log = <<>>
    /\ phase \in {"done", "refused"} /\ log # <<>> =>
         /\ answer.success <=> ErrorsOf(sent) = {}
         /\ answer.text = IF reply = <<>> THEN <<0>> ELSE reply

LEMMA ReplyInit == Replying!Init => ReplyInv
<1> SUFFICES ASSUME Replying!Init PROVE ReplyInv
  OBVIOUS
<1>1. sent = <<>> /\ reply = <<>> /\ status = "success" /\ log = <<>> /\ phase = "idle"
  BY DEF Replying!Init, Replying!Turn!Init
<1>2. Len(sent) = 0 /\ Len(reply) = 0 /\ sent \in Seq(Events) /\ reply \in Seq(Nat)
  BY <1>1
<1>3. 1..0 = {}
  OBVIOUS
<1>4. ErrorsOf(sent) = {} /\ SinceOf(sent) = {}
  BY <1>2, <1>3 DEF ErrorsOf, SinceOf
<1>5. Says(reply, sent)
  BY <1>2, <1>3, <1>4 DEF Says
<1> QED
  BY <1>1, <1>2, <1>4, <1>5 DEF ReplyInv

\* Every text of a reply is one of the stream.
LEMMA SaidBefore ==
    ASSUME NEW s \in Seq(Events), NEW r, Says(r, s), NEW i \in 1..Len(r)
    PROVE  r[i] < Len(s) + 1
<1>1. r[i] \in SinceOf(s)
  BY DEF Says
<1>2. r[i] \in 1..Len(s) /\ Len(s) \in Nat
  BY <1>1 DEF SinceOf
<1> QED
  BY <1>2

LEMMA ReplyStep == ReplyInv /\ [Replying!Next]_(Replying!vars) => ReplyInv'
<1> SUFFICES ASSUME ReplyInv, [Replying!Next]_(Replying!vars) PROVE ReplyInv'
  OBVIOUS
<1>1. CASE Replying!Start
  <2>1. phase = "idle" /\ phase' = "open" /\ UNCHANGED <<sent, reply, status, answer, log>>
    BY <1>1 DEF Replying!Start, Replying!Turn!Open
  <2> QED
    BY <2>1 DEF ReplyInv
<1>2. ASSUME NEW type \in {"tool_call", "thinking"}, NEW what, Replying!Detects(type, what)
      PROVE  ReplyInv'
  <2> DEFINE e == Replying!Event(type, 0)
  <2>1. e \in Events /\ e.type # "error" /\ e.text = 0
    BY DEF Replying!Event, Events
  <2>2. phase \in {"open", "answered"} /\ sent' = Append(sent, e)
        /\ UNCHANGED <<phase, reply, status, answer, log>>
    BY <1>2 DEF Replying!Detects, Replying!Read, Replying!Default, Replying!stream
  <2> HIDE DEF e
  <2>3. ErrorsOf(sent') = ErrorsOf(sent) /\ SinceOf(sent') = SinceOf(sent)
    BY <2>1, <2>2, SaysNothing DEF ReplyInv
  <2>4. sent' \in Seq(Events)
    BY <2>1, <2>2 DEF ReplyInv
  <2> QED
    BY <2>2, <2>3, <2>4 DEF ReplyInv, Says
<1>3. CASE Replying!Response
  <2>1. PICK text \in {Len(sent) + 1, 0} :
           /\ sent' = Append(sent, Replying!Event("response", text))
           /\ reply' = IF text = 0 THEN reply ELSE Append(reply, text)
    BY <1>3 DEF Replying!Response, Replying!Number, Replying!Default, Replying!Read,
                Replying!Accumulated
  <2>2. phase \in {"open", "answered"} /\ phase' = "answered" /\ UNCHANGED <<status, answer, log>>
    BY <1>3 DEF Replying!Response, Replying!Turn!Answer
  <2> DEFINE e == Replying!Event("response", text)
  <2>3. Len(sent) \in Nat
    BY DEF ReplyInv
  <2>4. e \in Events /\ e.type # "error" /\ e.text = text
    BY <2>3 DEF Replying!Event, Events
  <2>5. sent' = Append(sent, e)
    BY <2>1
  <2> HIDE DEF e
  <2>6. sent' \in Seq(Events)
    BY <2>4, <2>5 DEF ReplyInv
  <2>7. ErrorsOf(sent') = ErrorsOf(sent) /\ Says(reply', sent')
    <3>1. CASE text = 0
      <4>1. ErrorsOf(sent') = ErrorsOf(sent) /\ SinceOf(sent') = SinceOf(sent)
        BY <2>4, <2>5, <3>1, SaysNothing DEF ReplyInv
      <4> QED
        BY <2>1, <3>1, <4>1 DEF ReplyInv, Says
    <3>2. CASE text = Len(sent) + 1
      <4>1. ErrorsOf(sent') = ErrorsOf(sent) /\ SinceOf(sent') = SinceOf(sent) \cup {text}
        BY <2>4, <2>5, <3>2, SaysMore DEF ReplyInv
      <4>2. reply' = Append(reply, text) /\ text \in Nat
        BY <2>1, <2>3, <3>2
      <4>3. \A i \in 1..Len(reply) : reply[i] < text
        BY <3>2, SaidBefore DEF ReplyInv
      <4>4. /\ reply' \in Seq(Nat)
            /\ {reply'[i] : i \in 1..Len(reply')} = {reply[i] : i \in 1..Len(reply)} \cup {text}
            /\ \A i, j \in 1..Len(reply') : i < j => reply'[i] < reply'[j]
        BY <4>2, <4>3, LongerReply DEF ReplyInv, Says
      <4> QED
        BY <4>1, <4>4 DEF ReplyInv, Says
    <3> QED
      BY <3>1, <3>2
  <2> QED
    BY <2>2, <2>6, <2>7 DEF ReplyInv
<1>4. CASE Replying!Error
  <2>1. /\ sent' = Append(sent, Replying!Event("error", Len(sent) + 1))
        /\ reply' = <<Len(sent) + 1>> /\ status' = "error" /\ UNCHANGED <<answer, log>>
    BY <1>4 DEF Replying!Error, Replying!Number, Replying!Read
  <2>2. phase \in {"idle", "open", "answered"} /\ phase' \in {"answered", "refused"}
    BY <1>4 DEF Replying!Error, Replying!Turn!Answer, Replying!Turn!Refuse
  <2> DEFINE e == Replying!Event("error", Len(sent) + 1)
  <2>3. Len(sent) \in Nat
    BY DEF ReplyInv
  <2>4. e \in Events /\ e.type = "error" /\ e.text = Len(sent) + 1
    BY <2>3 DEF Replying!Event, Events
  <2>5. sent' = Append(sent, e)
    BY <2>1
  <2> HIDE DEF e
  <2>6. sent' \in Seq(Events)
    BY <2>4, <2>5 DEF ReplyInv
  <2>7. ErrorsOf(sent') # {} /\ SinceOf(sent') = {Len(sent) + 1}
    BY <2>4, <2>5, SaysError DEF ReplyInv
  <2>8. Says(reply', sent')
    BY <2>1, <2>3, <2>7, OneText DEF Says
  <2>9. log' = <<>>
    BY <2>1, <2>2 DEF ReplyInv
  <2> QED
    BY <2>1, <2>2, <2>6, <2>7, <2>8, <2>9 DEF ReplyInv
<1>5. CASE Replying!Finish
  <2>1. phase \in {"answered", "refused"} /\ phase' \in {"done", "refused"}
    BY <1>5 DEF Replying!Finish, Replying!Turn!Finish, Replying!stream
  <2>2. /\ answer' = [success |-> status # "error", text |-> IF reply = <<>> THEN <<0>> ELSE reply]
        /\ UNCHANGED <<sent, reply, status>>
    BY <1>5 DEF Replying!Finish, Replying!Answers, Replying!Default
  <2> QED
    BY <2>1, <2>2 DEF ReplyInv, Says
<1>6. CASE Replying!Raise
  <2>1. phase' = "left" /\ UNCHANGED <<sent, reply>>
    BY <1>6 DEF Replying!Raise, Replying!Turn!Leave
  <2> QED
    BY <2>1 DEF ReplyInv, Says
<1>7. CASE UNCHANGED Replying!vars
  BY <1>7 DEF Replying!vars, Replying!stream, ReplyInv, Says
<1> QED
  BY <1>1, <1>2, <1>3, <1>4, <1>5, <1>6, <1>7
  DEF Replying!Next, Replying!ToolCall, Replying!Searching

\* However long the stream, the one answer of POST /chat holds its texts from the
\* last error on, each once and in order, and is a success exactly when no error
\* was sent (chat_non_stream, _accumulate_response_text).
THEOREM OneAnswer == Replying!Spec => []ReplyWhole
<1>1. ReplyInv => ReplyWhole
  <2> SUFFICES ASSUME ReplyInv, phase \in {"done", "refused"}, log # <<>> PROVE ReplyWhole
    BY DEF ReplyWhole, Replying!ReplyWhole
  <2>1. DOMAIN sent = 1..Len(sent) /\ DOMAIN reply = 1..Len(reply)
    BY DEF ReplyInv, Says
  <2>2. Replying!Errors = ErrorsOf(sent)
    BY <2>1 DEF Replying!Errors, ErrorsOf
  <2>3. Replying!Since = SinceOf(sent)
    BY <2>1, <2>2 DEF Replying!Since, SinceOf, Replying!Default
  <2>4. reply = <<>> <=> SinceOf(sent) = {}
    <3>1. CASE reply = <<>>
      <4>1. Len(reply) = 0 /\ 1..0 = {}
        BY <3>1
      <4> QED
        BY <3>1, <4>1 DEF ReplyInv, Says
    <3>2. CASE reply # <<>>
      <4>1. 1 \in 1..Len(reply)
        BY <3>2 DEF ReplyInv, Says
      <4> QED
        BY <3>2, <4>1 DEF ReplyInv, Says
    <3> QED
      BY <3>1, <3>2
  <2>5. answer.success <=> Replying!Errors = {}
    BY <2>2 DEF ReplyInv
  <2>6. CASE reply = <<>>
    <3>1. answer.text = <<0>> /\ Replying!Since = {}
      BY <2>3, <2>4, <2>6 DEF ReplyInv
    <3> QED
      BY <2>5, <3>1 DEF ReplyWhole, Replying!ReplyWhole, Replying!Default
  <2>7. CASE reply # <<>>
    <3>1. answer.text = reply /\ Replying!Since # {}
      BY <2>3, <2>4, <2>7 DEF ReplyInv
    <3>2. /\ Replying!Since = {reply[i] : i \in DOMAIN reply}
          /\ \A i, j \in DOMAIN reply : i < j => reply[i] < reply[j]
      BY <2>1, <2>3 DEF ReplyInv, Says
    <3> QED
      BY <2>5, <3>1, <3>2 DEF ReplyWhole, Replying!ReplyWhole
  <2> QED
    BY <2>6, <2>7
<1> QED
  BY <1>1, ReplyInit, ReplyStep, PTL DEF Replying!Spec

-----------------------------------------------------------------------------
(* The approval tool.                                                      *)

ApprovalInv ==
    /\ approving \in {"asked", "posting"} => told = "nothing"
    /\ approving = "asked" => ~posted /\ approved = {}
    /\ approving = "posting" => ids.ids # {}
    /\ posted => ids.ids # {} /\ approved = {} /\ told \in {"nothing", "unknown"}
    /\ posted \in BOOLEAN

LEMMA ApprovalInit == Approving!Init => ApprovalInv /\ Approving!Report!Init
BY DEF Approving!Init, ApprovalInv, Approving!Report!Init

LEMMA ApprovalStep ==
    ASSUME ApprovalInv, [Approving!Next]_(Approving!vars)
    PROVE  /\ ApprovalInv'
           /\ [Approving!Report!Write \/ Approving!Report!Tell]_<<approved # {}, told>>
<1> USE DEF ApprovalInv
<1>1. CASE Approving!Refuse
  BY <1>1 DEF Approving!Refuse, Approving!Returns, Approving!Report!Tell
<1>2. CASE Approving!Post
  BY <1>2 DEF Approving!Post
<1>3. CASE Approving!Approve
  BY <1>3 DEF Approving!Approve, Approving!Report!Write
<1>4. CASE Approving!Accepted
  BY <1>4 DEF Approving!Accepted, Approving!Returns, Approving!Report!Tell
<1>5. CASE Approving!Rejected
  BY <1>5 DEF Approving!Rejected, Approving!Returns, Approving!Report!Tell
<1>6. CASE Approving!Lost
  BY <1>6 DEF Approving!Lost, Approving!Returns, Approving!Report!Tell
<1>7. CASE UNCHANGED Approving!vars
  BY <1>7 DEF Approving!vars
<1> QED
  BY <1>1, <1>2, <1>3, <1>4, <1>5, <1>6, <1>7 DEF Approving!Next

\* The approval tool keeps the promise of WriteReport for every set of ids: what
\* it calls a failure SpringBoot never approves afterwards, and what SpringBoot
\* may still approve is reported as unknown (approve_workhour).
THEOREM ApprovalReports == Approving!Spec => ReportSpec
<1>1. Approving!Spec => []ApprovalInv
  <2>1. ApprovalInv /\ [Approving!Next]_(Approving!vars) => ApprovalInv'
    BY ApprovalStep
  <2> QED
    BY <2>1, ApprovalInit, PTL DEF Approving!Spec
<1>2. ApprovalInv /\ [Approving!Next]_(Approving!vars)
        => [Approving!Report!Write \/ Approving!Report!Tell]_<<approved # {}, told>>
  BY ApprovalStep
<1> QED
  BY <1>1, <1>2, ApprovalInit, PTL
  DEF Approving!Spec, ReportSpec, Approving!ReportSpec, Approving!Report!Spec

-----------------------------------------------------------------------------
(* The outline of the knowledge base.                                      *)

LEMMA GreatestIs ==
    ASSUME NEW S, S \subseteq Nat, NEW n \in S, \A t \in S : n >= t
    PROVE  Outlining!Max(S) = n
<1> DEFINE m == Outlining!Max(S)
<1>1. \E x \in S : \A y \in S : x >= y
  OBVIOUS
<1>2. m \in S /\ \A y \in S : m >= y
  BY <1>1 DEF Outlining!Max
<1> HIDE DEF m
<1>3. m >= n /\ n >= m /\ m \in Nat /\ n \in Nat
  BY <1>2
<1>4. m = n
  BY <1>3
<1> QED
  BY <1>4 DEF m

Documents == [time : Nat, titles : Contents]
Bases == [Files -> {None} \cup Documents]
Scans == [Files -> {None, Outlining!Skipped} \cup Documents]

\* The documents of a base, the newest time of one with clock c, its signature.
PresentIn(base) == {f \in Files : base[f] # None}
NewestIn(base, c) == IF PresentIn(base) = {} THEN 0 ELSE c
SignatureIn(base) ==
    <<Outlining!Max({0} \cup {base[f].time : f \in PresentIn(base)}), Cardinality(PresentIn(base))>>

\* The clock c is the time of the newest document.
Stands(base, c) ==
    /\ \A f \in PresentIn(base) : base[f].time <= c
    /\ PresentIn(base) # {} => \E f \in PresentIn(base) : base[f].time = c

\* Signatures in the order of time: under one time only deletions are left.
Older(s, t) == s[1] < t[1] \/ (s[1] = t[1] /\ s[2] > t[2])

\* A signature s that was taken before, of what is now the documents ds: it is
\* past for ever, or nothing has changed since and they are all that could be read.
Taken(s, ds, fs) ==
    /\ s \in Nat \X Nat
    /\ s = SignatureIn(kb) \/ Older(s, SignatureIn(kb))
    /\ s = SignatureIn(kb) => \A f \in fs : ds[f] = kb[f] \/ ds[f] = Outlining!Skipped

OutlineTypes ==
    /\ asking \in {"idle", "scanning", "answered"}
    /\ kb \in Bases
    /\ clock \in Nat \ {0}
    /\ scanned \in Scans /\ cache.documents \in Scans
    /\ unread \subseteq Files
    /\ DOMAIN since = Files

OutlineInv ==
    /\ OutlineTypes
    /\ Stands(kb, clock)
    /\ cache.signature # None => Taken(cache.signature, cache.documents, Files)
    /\ asking # "idle" => \A f \in Files : kb[f] \in since[f]
    /\ asking = "scanning" =>
         /\ Taken(signature, scanned, Files \ unread)
         /\ \A f \in Files \ unread : scanned[f] \in since[f] \cup {Outlining!Skipped}
    /\ Outlining!OutlineCurrent

LEMMA BasePresent ==
    ASSUME NEW base \in Bases
    PROVE  /\ \A f \in PresentIn(base) : base[f] \in Documents /\ base[f].time \in Nat
           /\ IsFiniteSet(PresentIn(base))
           /\ Cardinality(PresentIn(base)) \in Nat
<1>1. PresentIn(base) \subseteq Files /\ IsFiniteSet(Files)
  BY RulesAssumption DEF PresentIn
<1>2. \A f \in PresentIn(base) : base[f] \in Documents
  BY DEF Bases, PresentIn
<1> QED
  BY <1>1, <1>2, FS_Subset, FS_CardinalityType DEF Documents

LEMMA SignatureIs ==
    ASSUME NEW base \in Bases, NEW c \in Nat \ {0}, Stands(base, c)
    PROVE  /\ SignatureIn(base) = <<NewestIn(base, c), Cardinality(PresentIn(base))>>
           /\ SignatureIn(base) \in Nat \X Nat
<1> DEFINE times == {0} \cup {base[f].time : f \in PresentIn(base)}
           newest == NewestIn(base, c)
<1>1. times \subseteq Nat
  BY BasePresent
<1>2. newest \in times /\ \A t \in times : newest >= t
  <2>1. CASE PresentIn(base) = {}
    BY <2>1 DEF NewestIn
  <2>2. CASE PresentIn(base) # {}
    <3>1. newest = c
      BY <2>2 DEF NewestIn
    <3>2. \E f \in PresentIn(base) : base[f].time = c
      BY <2>2 DEF Stands
    <3>3. \A f \in PresentIn(base) : c >= base[f].time /\ base[f].time \in Nat
      BY BasePresent DEF Stands
    <3>4. c >= 0
      OBVIOUS
    <3> QED
      BY <3>1, <3>2, <3>3, <3>4
  <2> QED
    BY <2>1, <2>2
<1>3. Outlining!Max(times) = newest
  <2> HIDE DEF times, newest
  <2> QED
    BY <1>1, <1>2, GreatestIs
<1>4. newest \in Nat
  BY <1>1, <1>2
<1> QED
  BY <1>3, <1>4, BasePresent DEF SignatureIn

LEMMA SignatureHere == Outlining!Signature = SignatureIn(kb)
BY DEF Outlining!Signature, SignatureIn, Outlining!Present, PresentIn,
       Outlining!Cardinality, Cardinality

\* Every edit leads to a signature that was never there before.
LEMMA EditIsNewer ==
    ASSUME RulesAssumption, NewestStays, OutlineTypes, Stands(kb, clock), NEW f \in Files,
           NEW d \in {None} \cup {Outlining!Document(clock + 1, c) : c \in Contents},
           Outlining!Edit(f, d)
    PROVE  /\ OutlineTypes' /\ Stands(kb', clock')
           /\ SignatureIn(kb) \in Nat \X Nat /\ SignatureIn(kb') \in Nat \X Nat
           /\ Older(SignatureIn(kb), SignatureIn(kb'))
<1> DEFINE there == PresentIn(kb)
           after == PresentIn(kb')
<1>1. /\ UNCHANGED <<asking, scanned, cache, unread>> /\ d # kb[f] /\ kb' = [kb EXCEPT ![f] = d]
      /\ clock \in Nat /\ clock # 0 /\ kb \in Bases
  BY DEF Outlining!Edit, OutlineTypes
<1>7. DOMAIN since' = Files
  BY DEF Outlining!Edit, OutlineTypes
<1>2. kb'[f] = d /\ \A g \in Files : g # f => kb'[g] = kb[g]
  BY <1>1 DEF Bases
<1>3. \A g \in there : kb[g].time \in Nat /\ kb[g].time <= clock
  BY <1>1, BasePresent DEF Stands
<1>4. SignatureIn(kb) = <<NewestIn(kb, clock), Cardinality(there)>> /\ SignatureIn(kb) \in Nat \X Nat
  BY <1>1, SignatureIs
<1>5. CASE d # None
  <2>1. d \in Documents /\ d.time = clock + 1 /\ clock' = clock + 1
    BY <1>1, <1>5 DEF Outlining!Edit, Outlining!Document, Documents
  <2>2. kb' \in Bases
    BY <1>1, <2>1 DEF Bases
  <2>3. OutlineTypes'
    BY <1>1, <1>7, <2>1, <2>2 DEF OutlineTypes
  <2>4. after = there \cup {f}
    BY <1>2, <1>5 DEF PresentIn
  <2>5. Stands(kb', clock')
    <3>1. ASSUME NEW g \in after PROVE kb'[g].time <= clock'
      <4>1. CASE g = f
        BY <1>1, <1>2, <2>1, <4>1
      <4>2. CASE g # f
        <5>1. g \in there /\ kb'[g] = kb[g]
          BY <1>2, <2>4, <4>2 DEF PresentIn
        <5> QED
          BY <1>1, <1>3, <2>1, <5>1
      <4> QED
        BY <4>1, <4>2
    <3>2. f \in after /\ kb'[f].time = clock'
      BY <1>2, <2>1, <2>4
    <3> QED
      BY <3>1, <3>2 DEF Stands
  <2>6. SignatureIn(kb') = <<NewestIn(kb', clock'), Cardinality(after)>> /\ SignatureIn(kb') \in Nat \X Nat
    <3>1. clock' \in Nat \ {0} /\ kb' \in Bases /\ Stands(kb', clock')
      BY <1>1, <2>1, <2>2, <2>5
    <3> QED
      BY <3>1, SignatureIs
  <2>7. NewestIn(kb', clock') = clock + 1 /\ NewestIn(kb, clock) <= clock
    <3>1. PresentIn(kb') # {}
      BY <2>4
    <3>2. NewestIn(kb', clock') = clock'
      BY <3>1 DEF NewestIn
    <3>3. NewestIn(kb, clock) \in {0, clock}
      BY DEF NewestIn
    <3> QED
      BY <1>1, <2>1, <3>2, <3>3
  <2>8. Older(SignatureIn(kb), SignatureIn(kb'))
    <3>1. NewestIn(kb, clock) \in Nat
      BY <1>1 DEF NewestIn
    <3> QED
      BY <1>1, <1>4, <2>6, <2>7, <3>1 DEF Older
  <2> QED
    BY <1>4, <2>3, <2>5, <2>6, <2>8
<1>6. CASE d = None
  <2>1. PICK g \in there \ {f} : kb[g].time = clock
    BY <1>6 DEF Outlining!Edit, Outlining!Present, PresentIn
  <2>2. clock' = clock
    BY <1>6 DEF Outlining!Edit
  <2>3. kb' \in Bases
    BY <1>1, <1>6 DEF Bases
  <2>4. OutlineTypes'
    BY <1>1, <1>7, <2>2, <2>3 DEF OutlineTypes
  <2>5. after = there \ {f} /\ f \in there
    BY <1>1, <1>2, <1>6 DEF PresentIn
  <2>6. \A h \in after : kb'[h] = kb[h]
    BY <1>2, <2>5 DEF PresentIn
  <2>7. g \in after /\ kb'[g].time = clock'
    BY <2>1, <2>2, <2>5, <2>6
  <2>8. Stands(kb', clock')
    BY <1>3, <2>2, <2>5, <2>6, <2>7 DEF Stands
  <2>9. NewestIn(kb', clock') = clock /\ NewestIn(kb, clock) = clock
    BY <2>1, <2>2, <2>7 DEF NewestIn
  <2>10. Cardinality(after) = Cardinality(there) - 1 /\ Cardinality(there) \in Nat
    <3>1. IsFiniteSet(there) /\ Cardinality(there) \in Nat
      BY <1>1, BasePresent
    <3> HIDE DEF there, after
    <3> QED
      BY <2>5, <3>1, FS_RemoveElement
  <2>11. SignatureIn(kb') = <<NewestIn(kb', clock'), Cardinality(after)>> /\ SignatureIn(kb') \in Nat \X Nat
    <3>1. clock' \in Nat \ {0} /\ kb' \in Bases /\ Stands(kb', clock')
      BY <1>1, <2>2, <2>3, <2>8
    <3> QED
      BY <3>1, SignatureIs
  <2>12. Older(SignatureIn(kb), SignatureIn(kb'))
    BY <1>4, <2>9, <2>10, <2>11 DEF Older
  <2> QED
    BY <1>4, <2>4, <2>8, <2>11, <2>12
<1> QED
  BY <1>5, <1>6

\* So what was taken before an edit never comes back.
LEMMA OlderForEver ==
    ASSUME NEW s \in Nat \X Nat, NEW t \in Nat \X Nat, NEW u \in Nat \X Nat,
           s = t \/ Older(s, t), Older(t, u)
    PROVE  Older(s, u) /\ s # u
BY DEF Older

LEMMA EditKeeps ==
    ASSUME RulesAssumption, NewestStays, OutlineInv, NEW f \in Files,
           NEW d \in {None} \cup {Outlining!Document(clock + 1, c) : c \in Contents},
           Outlining!Edit(f, d)
    PROVE  OutlineInv'
<1>1. /\ OutlineTypes' /\ Stands(kb', clock') /\ OutlineTypes
      /\ SignatureIn(kb) \in Nat \X Nat /\ SignatureIn(kb') \in Nat \X Nat
      /\ Older(SignatureIn(kb), SignatureIn(kb'))
  BY EditIsNewer DEF OutlineInv
<1>2. /\ UNCHANGED <<asking, cache, signature, unread, scanned, outline>>
      /\ kb' = [kb EXCEPT ![f] = d] /\ since' = [since EXCEPT ![f] = @ \cup {d}]
  BY DEF Outlining!Edit
<1>3. ASSUME NEW s, NEW ds, NEW fs, Taken(s, ds, fs)
      PROVE  s \in Nat \X Nat /\ s # SignatureIn(kb') /\ Older(s, SignatureIn(kb'))
  <2>1. s \in Nat \X Nat /\ (s = SignatureIn(kb) \/ Older(s, SignatureIn(kb)))
    BY <1>3 DEF Taken
  <2> QED
    BY <1>1, <2>1, OlderForEver
<1>4. cache.signature # None => Taken(cache.signature, cache.documents, Files)'
  BY <1>2, <1>3 DEF OutlineInv, Taken
<1>5. asking = "scanning" => Taken(signature, scanned, Files \ unread)'
  BY <1>2, <1>3 DEF OutlineInv, Taken
<1>6. /\ \A g \in Files : since[g] \subseteq since'[g]
      /\ asking # "idle" => \A g \in Files : kb'[g] \in since'[g]
  <2>1. DOMAIN since = Files /\ DOMAIN kb = Files
    BY <1>1 DEF OutlineTypes, Bases
  <2>2. \A g \in Files : since'[g] = IF g = f THEN since[g] \cup {d} ELSE since[g]
    BY <1>2, <2>1
  <2>3. \A g \in Files : kb'[g] = IF g = f THEN d ELSE kb[g]
    BY <1>2, <2>1
  <2> QED
    BY <2>2, <2>3 DEF OutlineInv
<1> QED
  BY <1>1, <1>2, <1>4, <1>5, <1>6 DEF OutlineInv, Outlining!OutlineCurrent

\* What is taken now is taken.
LEMMA TakenNow ==
    ASSUME RulesAssumption, OutlineInv, NEW ds, NEW fs,
           \A f \in fs : ds[f] = kb[f] \/ ds[f] = Outlining!Skipped
    PROVE  Taken(SignatureIn(kb), ds, fs)
BY SignatureIs DEF OutlineInv, OutlineTypes, Taken

LEMMA AskKeeps ==
    ASSUME RulesAssumption, OutlineInv, Outlining!Ask
    PROVE  OutlineInv'
<1>1. /\ UNCHANGED <<kb, clock, cache>> /\ signature' = SignatureIn(kb)
      /\ since' = [f \in Files |-> {kb[f]}] /\ scanned' = Outlining!Nothing
  BY SignatureHere DEF Outlining!Ask
<1>2. \A f \in Files : kb'[f] \in since'[f]
  BY <1>1
<1>3. scanned' \in Scans
  BY <1>1 DEF Outlining!Nothing, Scans
<1>4. cache.signature # None => Taken(cache.signature, cache.documents, Files)'
  BY <1>1 DEF OutlineInv, Taken
<1>5. CASE cache.signature = signature' /\ asking' = "answered" /\ outline' = cache.documents /\ UNCHANGED unread
  <2>1. signature' # None
    BY <1>1, SignatureIs DEF OutlineInv, OutlineTypes, RulesAssumption
  <2>2. \A f \in Files : outline'[f] = kb[f] \/ outline'[f] = Outlining!Skipped
    BY <1>1, <1>5, <2>1 DEF OutlineInv, Taken
  <2> QED
    BY <1>1, <1>2, <1>3, <1>4, <1>5, <2>2 DEF OutlineInv, OutlineTypes, Outlining!OutlineCurrent
<1>6. CASE asking' = "scanning" /\ unread' = Files /\ UNCHANGED outline
  <2>1. Taken(signature, scanned, Files \ unread)'
    <3>1. Taken(SignatureIn(kb), scanned', {})
      BY TakenNow
    <3> QED
      BY <1>1, <1>6, <3>1 DEF Taken
  <2> QED
    BY <1>1, <1>2, <1>3, <1>4, <1>6, <2>1 DEF OutlineInv, OutlineTypes, Outlining!OutlineCurrent
<1> QED
  BY <1>5, <1>6 DEF Outlining!Ask

LEMMA ScanKeeps ==
    ASSUME RulesAssumption, OutlineInv, NEW f \in Files, Outlining!Scan(f)
    PROVE  OutlineInv'
<1> PICK d \in {kb[f], Outlining!Skipped} : scanned' = [scanned EXCEPT ![f] = d]
  BY DEF Outlining!Scan
<1>1. /\ UNCHANGED <<asking, kb, clock, cache, signature, outline, since>>
      /\ asking = "scanning" /\ unread' = unread \ {f}
  BY DEF Outlining!Scan
<1>2. /\ scanned' \in Scans
      /\ \A g \in Files : scanned'[g] = IF g = f THEN d ELSE scanned[g]
  BY <1>1 DEF OutlineInv, OutlineTypes, Bases, Scans
<1>3. OutlineTypes'
  BY <1>1, <1>2 DEF OutlineInv, OutlineTypes
<1>4. \A g \in Files \ unread' : g = f \/ g \in Files \ unread
  BY <1>1
<1>5. Taken(signature, scanned, Files \ unread)'
  BY <1>1, <1>2, <1>4 DEF OutlineInv, Taken
<1>6. \A g \in Files \ unread' : scanned'[g] \in since'[g] \cup {Outlining!Skipped}
  BY <1>1, <1>2, <1>4 DEF OutlineInv
<1>7. cache.signature # None => Taken(cache.signature, cache.documents, Files)'
  BY <1>1 DEF OutlineInv, Taken
<1> QED
  BY <1>1, <1>3, <1>5, <1>6, <1>7 DEF OutlineInv, Outlining!OutlineCurrent

LEMMA ScannedKeeps ==
    ASSUME RulesAssumption, OutlineInv, Outlining!Scanned
    PROVE  OutlineInv'
<1>1. /\ UNCHANGED <<kb, clock, unread, scanned, since>> /\ asking = "scanning" /\ unread = {}
      /\ cache' = [signature |-> signature, documents |-> scanned]
      /\ outline' = scanned /\ asking' = "answered"
  BY DEF Outlining!Scanned, Outlining!Kept
<1>2. OutlineTypes'
  BY <1>1 DEF OutlineInv, OutlineTypes
<1>3. Taken(signature, scanned, Files)
  BY <1>1 DEF OutlineInv
<1>4. Taken(cache.signature, cache.documents, Files)'
  BY <1>1, <1>3 DEF Taken
<1> QED
  BY <1>1, <1>2, <1>4 DEF OutlineInv, Outlining!OutlineCurrent

LEMMA OutlineInit ==
    ASSUME RulesAssumption, Outlining!Init PROVE OutlineInv
<1>1. kb \in Bases /\ scanned \in Scans /\ cache.documents \in Scans /\ cache.signature = None
  BY DEF Outlining!Init, Outlining!Document, Outlining!Nothing, Bases, Scans, Documents
<1>2. Stands(kb, clock)
  BY DEF Outlining!Init, Outlining!Document, Stands, PresentIn
<1> QED
  BY <1>1, <1>2 DEF Outlining!Init, OutlineInv, OutlineTypes, Outlining!OutlineCurrent

LEMMA OutlineStep ==
    ASSUME RulesAssumption, NewestStays, OutlineInv, [Outlining!Next]_(Outlining!vars)
    PROVE  OutlineInv'
<1>1. ASSUME UNCHANGED <<asking, kb, clock, cache, signature, unread, scanned, outline, since>>
      PROVE  OutlineInv'
  BY <1>1 DEF OutlineInv, OutlineTypes, Taken, Outlining!OutlineCurrent
<1>2. ASSUME NEW f \in Files, NEW t \in Titles, Outlining!Read(f, t) PROVE OutlineInv'
  BY <1>1, <1>2 DEF Outlining!Read
<1>3. CASE UNCHANGED Outlining!vars
  BY <1>1, <1>3 DEF Outlining!vars
<1> QED
  BY <1>2, <1>3, AskKeeps, ScanKeeps, ScannedKeeps, EditKeeps DEF Outlining!Next

\* A title that stands in a document is found where it stands.
LEMMA FindIsExact ==
    ASSUME NEW titles \in Seq(Titles), NEW t, NEW i \in DOMAIN titles, titles[i] = t
    PROVE  titles[Outlining!Find(titles, t)] = t
<1> DEFINE exact == Outlining!Where(titles, {t})
<1>1. exact \subseteq Nat /\ exact # {} /\ \A j \in exact : titles[j] = t
  BY DEF Outlining!Where
<1>2. Outlining!Find(titles, t) = Outlining!Min(exact)
  BY <1>1 DEF Outlining!Find
<1>3. Outlining!Min(exact) \in exact
  <2> HIDE DEF exact
  <2>1. \E x \in exact : \A y \in exact : x <= y
    BY <1>1, Least
  <2> QED
    BY <2>1 DEF Outlining!Min
<1> QED
  BY <1>1, <1>2, <1>3

\* What was read last is the section that was asked for, where there is one.
ReadExactly ==
    asked # None /\ asked.of # None =>
        \A i \in DOMAIN asked.of.titles :
            asked.of.titles[i] = asked.title => asked.of.titles[section] = asked.title

LEMMA ReadStep ==
    ASSUME RulesAssumption, OutlineInv, ReadExactly, [Outlining!Next]_(Outlining!vars)
    PROVE  ReadExactly'
<1>1. ASSUME NEW f \in Files, NEW t \in Titles, Outlining!Read(f, t) PROVE ReadExactly'
  <2> PICK d \in {kb[f], None} :
             /\ asked' = [file |-> f, title |-> t, of |-> d]
             /\ section' = IF d = None THEN 0 ELSE Outlining!Find(d.titles, t)
    BY <1>1 DEF Outlining!Read
  <2>1. /\ asked'.of = d /\ asked'.title = t
        /\ d # None => section' = Outlining!Find(d.titles, t)
    OBVIOUS
  <2>2. d # None => d.titles \in Seq(Titles)
    BY DEF OutlineInv, OutlineTypes, Bases, Documents, RulesAssumption
  <2> QED
    BY <2>1, <2>2, FindIsExact DEF ReadExactly
<1>2. CASE UNCHANGED <<asked, section>>
  BY <1>2 DEF ReadExactly
<1> QED
  BY <1>1, <1>2 DEF Outlining!Next, Outlining!vars, Outlining!Ask, Outlining!Scan,
                    Outlining!Scanned, Outlining!Edit

\* An outline lists every document as it was at some time since it was asked
\* for, or as one its scan could not read (kb_navigator.py:191-195), although it
\* may have been kept from long ago, if no edit takes the newest time away (:70);
\* and the section that is read under a title of the outline is the one with
\* that title (read_section).
THEOREM OutlinesAndSections == ASSUME NewestStays PROVE Outlining!Spec => []OutlineRight
<1>1. Outlining!Init => OutlineInv /\ ReadExactly
  BY RulesAssumption, OutlineInit DEF Outlining!Init, ReadExactly
<1>2. OutlineInv /\ ReadExactly /\ [Outlining!Next]_(Outlining!vars) => OutlineInv' /\ ReadExactly'
  BY RulesAssumption, OutlineStep, ReadStep
<1>3. OutlineInv /\ ReadExactly => OutlineRight
  BY DEF OutlineInv, ReadExactly, OutlineRight, Outlining!ReadsListed
<1> QED
  BY <1>1, <1>2, <1>3, PTL DEF Outlining!Spec

-----------------------------------------------------------------------------
(* The calls that are proposed: their arguments.                           *)

LEMMA WithIs ==
    ASSUME NEW as, NEW more
    PROVE  /\ DOMAIN Ruling!With(as, more) = DOMAIN as \cup DOMAIN more
           /\ \A k \in DOMAIN more : Ruling!With(as, more)[k] = more[k]
           /\ \A k \in DOMAIN as : k \notin DOMAIN more => Ruling!With(as, more)[k] = as[k]
BY DEF Ruling!With

LEMMA FieldIs ==
    ASSUME NEW key, NEW value
    PROVE  DOMAIN Ruling!Field(key, value) = {key} /\ Ruling!Field(key, value)[key] = value
BY DEF Ruling!Field

LEMMA NothingIs == DOMAIN Ruling!Nothing = {}
BY DEF Ruling!Nothing

LEMMA OnlyIs ==
    ASSUME NEW as, NEW keys
    PROVE  /\ DOMAIN Ruling!Only(as, keys) = DOMAIN as \cap keys
           /\ \A k \in DOMAIN as \cap keys : Ruling!Only(as, keys)[k] = as[k]
BY DEF Ruling!Only, Ruling!Restrict

LEMMA WithoutIs ==
    ASSUME NEW as, NEW keys
    PROVE  /\ DOMAIN Ruling!Without(as, keys) = DOMAIN as \ keys
           /\ \A k \in DOMAIN as \ keys : Ruling!Without(as, keys)[k] = as[k]
BY DEF Ruling!Without, Ruling!Restrict

LEMMA BetweenIs ==
    ASSUME NEW d, NEW e
    PROVE  /\ DOMAIN Ruling!Between(d, e) = {"start", "end"}
           /\ Ruling!Between(d, e)["start"] = d /\ Ruling!Between(d, e)["end"] = e
<1> DEFINE f == Ruling!Field("start", d)
<1> DEFINE g == Ruling!Field("end", e)
<1>1. DOMAIN f = {"start"} /\ f["start"] = d /\ DOMAIN g = {"end"} /\ g["end"] = e
  BY FieldIs
<1>2. Ruling!Between(d, e) = Ruling!With(f, g)
  BY DEF Ruling!Between
<1> HIDE DEF f, g
<1>3. /\ DOMAIN Ruling!With(f, g) = DOMAIN f \cup DOMAIN g
      /\ \A k \in DOMAIN g : Ruling!With(f, g)[k] = g[k]
      /\ \A k \in DOMAIN f : k \notin DOMAIN g => Ruling!With(f, g)[k] = f[k]
  BY WithIs
<1>4. DOMAIN Ruling!With(f, g) = {"start", "end"}
  BY <1>1, <1>3
<1>5. Ruling!With(f, g)["start"] = d /\ Ruling!With(f, g)["end"] = e
  BY <1>1, <1>3
<1> QED
  BY <1>2, <1>4, <1>5

LEMMA CallIs ==
    ASSUME NEW n, NEW as
    PROVE  Ruling!Call(n, as).name = n /\ Ruling!Call(n, as).args = as
BY DEF Ruling!Call

LEMMA StatisticsIs ==
    ASSUME NEW as
    PROVE  Ruling!Statistics(as).name = "compute_statistics" /\ Ruling!Statistics(as).args = as
BY CallIs DEF Ruling!Statistics

-----------------------------------------------------------------------------
(* The elements of a sequence at some of its places.                       *)

LEMMA SameCount == \A S : Ruling!Cardinality(S) = Cardinality(S)
BY DEF Ruling!Cardinality, Cardinality

\* Every place of a finite set has its number, and every number its place: the
\* places up to one are more than those up to an earlier one.
LEMMA NthIs ==
    ASSUME NEW K, K \subseteq Nat, IsFiniteSet(K)
    PROVE  /\ Cardinality(K) \in Nat
           /\ \A n \in 1..Cardinality(K) : Ruling!Nth(K, n) \in K
           /\ \A n, k \in 1..Cardinality(K) : Ruling!Nth(K, n) = Ruling!Nth(K, k) => n = k
           /\ \A i \in K : \E n \in 1..Cardinality(K) : Ruling!Nth(K, n) = i
<1> DEFINE N == Cardinality(K)
<1> DEFINE upTo(i) == {j \in K : j <= i}
<1> DEFINE rank == [i \in K |-> Cardinality(upTo(i))]
<1>1. N \in Nat
  BY FS_CardinalityType
<1>2. ASSUME NEW i \in K PROVE IsFiniteSet(upTo(i)) /\ Cardinality(upTo(i)) \in 1..N
  <2>1. IsFiniteSet(upTo(i)) /\ Cardinality(upTo(i)) <= N
    BY FS_Subset
  <2>2. Cardinality(upTo(i)) \in Nat /\ Cardinality(upTo(i)) # 0
    <3>1. i \in upTo(i)
      OBVIOUS
    <3> HIDE DEF upTo
    <3> QED
      BY <2>1, <3>1, FS_CardinalityType, FS_EmptySet
  <2> QED
    BY <1>1, <2>1, <2>2
<1>3. ASSUME NEW i \in K, NEW j \in K, i < j
      PROVE  Cardinality(upTo(i)) < Cardinality(upTo(j))
  <2>1. upTo(i) \cup {j} \subseteq upTo(j) /\ j \notin upTo(i)
    <3>1. i \in Nat /\ j \in Nat
      OBVIOUS
    <3>2. ASSUME NEW k \in K, k <= i PROVE k <= j
      <4>1. k \in Nat
        OBVIOUS
      <4> QED
        BY <1>3, <3>1, <3>2, <4>1
    <3>3. j \notin upTo(i)
      BY <1>3, <3>1
    <3>4. j \in upTo(j)
      BY <3>1
    <3>5. upTo(i) \subseteq upTo(j)
      BY <3>2
    <3> QED
      BY <3>3, <3>4, <3>5
  <2> HIDE DEF upTo
  <2>2. Cardinality(upTo(i) \cup {j}) = Cardinality(upTo(i)) + 1
    BY <1>2, <2>1, FS_AddElement
  <2>3. Cardinality(upTo(i) \cup {j}) <= Cardinality(upTo(j))
    BY <1>2, <2>1, FS_Subset
  <2>4. Cardinality(upTo(i)) \in Nat /\ Cardinality(upTo(j)) \in Nat
    BY <1>1, <1>2
  <2> QED
    BY <2>2, <2>3, <2>4
<1> HIDE DEF upTo
<1>4. rank \in [K -> 1..N]
  BY <1>2
<1>5. ASSUME NEW i \in K, NEW j \in K, rank[i] = rank[j] PROVE i = j
  <2>1. ~(i < j) /\ ~(j < i)
    BY <1>1, <1>2, <1>3, <1>5
  <2> QED
    BY <2>1
<1>6. ASSUME NEW n \in 1..N PROVE \E i \in K : rank[i] = n
  <2>1. rank \in Injection(K, 1..N)
    BY <1>4, <1>5 DEF Injection, IsInjective
  <2>2. IsFiniteSet(1..N) /\ Cardinality(1..N) = N
    BY <1>1, FS_Interval
  <2>3. rank \in Surjection(K, 1..N)
    BY <2>1, <2>2, FS_Injection
  <2> QED
    BY <2>3 DEF Surjection
<1>7. ASSUME NEW n \in 1..N PROVE Ruling!Nth(K, n) \in K /\ rank[Ruling!Nth(K, n)] = n
  <2>1. Ruling!Nth(K, n) = CHOOSE i \in K : rank[i] = n
    <3>1. \A i \in K : rank[i] = Ruling!Cardinality({j \in K : j <= i})
      BY SameCount DEF upTo
    <3> HIDE DEF rank
    <3> QED
      BY <3>1 DEF Ruling!Nth
  <2> QED
    BY <1>6, <2>1
<1>8. ASSUME NEW i \in K PROVE Ruling!Nth(K, rank[i]) = i /\ rank[i] \in 1..N
  BY <1>4, <1>5, <1>7
<1> HIDE DEF rank
<1> QED
  BY <1>1, <1>7, <1>8

\* A sequence of something.
IsList(s) == s \in Seq({s[i] : i \in DOMAIN s})

LEMMA ListIs ==
    ASSUME NEW s, IsList(s)
    PROVE  Len(s) \in Nat /\ DOMAIN s = 1..Len(s)
BY DEF IsList

LEMMA ListMade ==
    ASSUME NEW n \in Nat, NEW s, s = [i \in 1..n |-> s[i]]
    PROVE  IsList(s) /\ Len(s) = n /\ DOMAIN s = 1..n
<1> DEFINE S == {s[i] : i \in 1..n}
<1>1. DOMAIN s = 1..n
  OBVIOUS
<1>2. s \in [1..n -> S]
  OBVIOUS
<1>3. s \in Seq(S)
  BY <1>2
<1> QED
  BY <1>1, <1>2, <1>3 DEF IsList

LEMMA KeepIs ==
    ASSUME NEW s, NEW m \in Nat, NEW K, K \subseteq 1..m
    PROVE  LET k == Ruling!Keep(s, K)
           IN  /\ IsList(k) /\ Len(k) = Cardinality(K) /\ DOMAIN k = 1..Len(k) /\ IsFiniteSet(K)
               /\ \A n \in DOMAIN k : Ruling!Nth(K, n) \in K /\ k[n] = s[Ruling!Nth(K, n)]
               /\ \A n, p \in DOMAIN k : Ruling!Nth(K, n) = Ruling!Nth(K, p) => n = p
               /\ \A i \in K : \E n \in DOMAIN k : Ruling!Nth(K, n) = i
<1> DEFINE k == Ruling!Keep(s, K)
<1>1. IsFiniteSet(K) /\ K \subseteq Nat
  <2>1. IsFiniteSet(1..m)
    BY FS_Interval
  <2>2. K \in SUBSET (1..m)
    OBVIOUS
  <2>3. K \subseteq Nat
    OBVIOUS
  <2>4. IsFiniteSet(K)
    BY ONLY <2>1, <2>2, FS_Subset
  <2> QED
    BY <2>3, <2>4
<1>2. k = [n \in 1..Cardinality(K) |-> s[Ruling!Nth(K, n)]]
  BY SameCount DEF Ruling!Keep
<1>3. Cardinality(K) \in Nat
  BY <1>1, NthIs
<1> HIDE DEF k
<1>4. k = [n \in 1..Cardinality(K) |-> k[n]]
  BY <1>2
<1>5. IsList(k) /\ Len(k) = Cardinality(K) /\ DOMAIN k = 1..Cardinality(K)
  BY <1>3, <1>4, ListMade
<1>6. \A n \in 1..Cardinality(K) : k[n] = s[Ruling!Nth(K, n)]
  BY <1>2
<1> QED
  BY <1>1, <1>5, <1>6, NthIs DEF k

\* The first of equal calls stays: no call twice, and none is lost.
LEMMA UniqueIs ==
    ASSUME NEW cs, IsList(cs)
    PROVE  LET u == Ruling!Unique(cs)
           IN  /\ IsList(u)
               /\ \A n \in DOMAIN u : \E i \in DOMAIN cs : u[n] = cs[i]
               /\ \A i \in DOMAIN cs : \E n \in DOMAIN u : u[n] = cs[i]
               /\ \A n, p \in DOMAIN u : u[n] = u[p] => n = p
<1> DEFINE K == {i \in DOMAIN cs : \A j \in 1..(i - 1) : ~Ruling!Same(cs[j], cs[i])}
<1> DEFINE u == Ruling!Keep(cs, K)
<1>1. Len(cs) \in Nat /\ DOMAIN cs = 1..Len(cs)
  BY ListIs
<1>2. Len(cs) \in Nat /\ K \subseteq 1..Len(cs)
  BY <1>1
<1>3. \A i \in K : i \in DOMAIN cs /\ \A j \in 1..(i - 1) : cs[j] # cs[i]
  BY DEF Ruling!Same
<1>4. \A i \in DOMAIN cs : (\A j \in 1..(i - 1) : cs[j] # cs[i]) => i \in K
  BY DEF Ruling!Same
<1>5. Ruling!Unique(cs) = u
  BY DEF Ruling!Unique
<1> HIDE DEF K
<1>6. /\ IsList(u)
      /\ \A n \in DOMAIN u : Ruling!Nth(K, n) \in K /\ u[n] = cs[Ruling!Nth(K, n)]
      /\ \A n, p \in DOMAIN u : Ruling!Nth(K, n) = Ruling!Nth(K, p) => n = p
      /\ \A i \in K : \E n \in DOMAIN u : Ruling!Nth(K, n) = i
  BY <1>2, KeepIs
<1> HIDE DEF u
<1>7. ASSUME NEW i \in DOMAIN cs PROVE \E n \in DOMAIN u : u[n] = cs[i]
  <2> DEFINE T == {j \in DOMAIN cs : cs[j] = cs[i]}
  <2>1. T \subseteq Nat /\ i \in T
    BY <1>1
  <2> HIDE DEF T
  <2>2. PICK j \in T : \A p \in T : j <= p
    BY <2>1, Least
  <2>3. j \in DOMAIN cs /\ cs[j] = cs[i]
    BY <2>2 DEF T
  <2>4. ASSUME NEW p \in 1..(j - 1) PROVE cs[p] # cs[j]
    <3>1. p \in DOMAIN cs /\ p \in Nat /\ j \in Nat /\ p < j
      BY <1>1, <2>3
    <3>2. p \notin T
      BY <2>2, <3>1
    <3> QED
      BY <2>3, <3>1, <3>2 DEF T
  <2>5. j \in K
    BY <1>4, <2>3, <2>4
  <2> QED
    BY <1>6, <2>3, <2>5
<1>8. ASSUME NEW n \in DOMAIN u, NEW p \in DOMAIN u, u[n] = u[p] PROVE n = p
  <2> DEFINE i == Ruling!Nth(K, n)
  <2> DEFINE j == Ruling!Nth(K, p)
  <2>1. i \in K /\ j \in K /\ cs[i] = cs[j]
    BY <1>6, <1>8
  <2> HIDE DEF i, j
  <2>2. i \in Nat /\ j \in Nat /\ i >= 1 /\ j >= 1
    BY <1>1, <1>3, <2>1
  <2>3. ~(i < j) /\ ~(j < i)
    BY <1>3, <2>1, <2>2
  <2>4. i = j
    BY <2>2, <2>3
  <2> QED
    BY <1>6, <2>4 DEF i, j
<1>9. \A n \in DOMAIN u : \E i \in DOMAIN cs : u[n] = cs[i]
  BY <1>3, <1>6
<1> QED
  BY <1>5, <1>6, <1>7, <1>8, <1>9

\* The places of the statistics.
StatsIn(cs) == {i \in DOMAIN cs : cs[i].name = "compute_statistics"}

LEMMA ThoseIs ==
    ASSUME NEW cs, IsList(cs)
    PROVE  LET stats == Ruling!Those(cs, "compute_statistics")
           IN  /\ IsList(stats) /\ Len(stats) = Cardinality(StatsIn(cs)) /\ IsFiniteSet(StatsIn(cs))
               /\ \A n \in DOMAIN stats : \E i \in StatsIn(cs) : stats[n] = cs[i]
               /\ \A i \in StatsIn(cs) : \E n \in DOMAIN stats : stats[n] = cs[i]
               /\ \A n, p \in DOMAIN stats : n # p =>
                    \E i, j \in StatsIn(cs) : i # j /\ stats[n] = cs[i] /\ stats[p] = cs[j]
<1> DEFINE K == StatsIn(cs)
<1>1. Len(cs) \in Nat /\ K \subseteq 1..Len(cs)
  BY ListIs DEF StatsIn
<1>2. Ruling!Those(cs, "compute_statistics") = Ruling!Keep(cs, K)
  BY DEF Ruling!Those, Ruling!Is, StatsIn
<1> HIDE DEF K
<1> DEFINE k == Ruling!Keep(cs, K)
<1> DEFINE stats == Ruling!Those(cs, "compute_statistics")
<1>3. /\ IsList(k) /\ Len(k) = Cardinality(K) /\ IsFiniteSet(K)
      /\ \A n \in DOMAIN k : Ruling!Nth(K, n) \in K /\ k[n] = cs[Ruling!Nth(K, n)]
      /\ \A n, p \in DOMAIN k : Ruling!Nth(K, n) = Ruling!Nth(K, p) => n = p
      /\ \A i \in K : \E n \in DOMAIN k : Ruling!Nth(K, n) = i
  BY <1>1, KeepIs
<1>4. stats = k
  BY <1>2
<1> HIDE DEF k, stats
<1>5. \A n \in DOMAIN k : \E i \in K : k[n] = cs[i]
  BY <1>3
<1>6. \A i \in K : \E n \in DOMAIN k : k[n] = cs[i]
  BY <1>3
<1>7. \A n, p \in DOMAIN k : n # p => \E i, j \in K : i # j /\ k[n] = cs[i] /\ k[p] = cs[j]
  BY <1>3
<1>8. /\ IsList(stats) /\ Len(stats) = Cardinality(K) /\ IsFiniteSet(K)
      /\ \A n \in DOMAIN stats : \E i \in K : stats[n] = cs[i]
      /\ \A i \in K : \E n \in DOMAIN stats : stats[n] = cs[i]
      /\ \A n, p \in DOMAIN stats : n # p => \E i, j \in K : i # j /\ stats[n] = cs[i] /\ stats[p] = cs[j]
  BY <1>3, <1>4, <1>5, <1>6, <1>7
<1> QED
  BY <1>8 DEF K, stats

\* None, one or two calls of statistics.
LEMMA NoStatistics ==
    ASSUME NEW cs, IsList(cs), StatsIn(cs) = {}
    PROVE  Len(Ruling!Those(cs, "compute_statistics")) = 0
BY ThoseIs, FS_EmptySet

LEMMA OneStatistics ==
    ASSUME NEW cs, IsList(cs), Len(Ruling!Those(cs, "compute_statistics")) = 1
    PROVE  \E i : StatsIn(cs) = {i} /\ Ruling!Those(cs, "compute_statistics")[1] = cs[i]
<1> DEFINE K == StatsIn(cs)
<1> DEFINE stats == Ruling!Those(cs, "compute_statistics")
<1>1. /\ IsList(stats) /\ Len(stats) = Cardinality(K) /\ IsFiniteSet(K)
      /\ \A n \in DOMAIN stats : \E i \in K : stats[n] = cs[i]
  BY ThoseIs
<1> HIDE DEF K
<1>2. Len(stats) = 1
  OBVIOUS
<1> HIDE DEF stats
<1>3. \E i : K = {i}
  BY <1>1, <1>2, FS_Singleton
<1>4. 1 \in DOMAIN stats
  BY <1>1, <1>2, ListIs
<1> QED
  BY <1>1, <1>3, <1>4 DEF K, stats

LEMMA TwoStatistics ==
    ASSUME NEW cs, IsList(cs), NEW i \in DOMAIN cs, NEW j \in DOMAIN cs, i # j, StatsIn(cs) = {i, j}
    PROVE  LET stats == Ruling!Those(cs, "compute_statistics")
           IN  /\ Len(stats) = 2
               /\ \/ stats[1] = cs[i] /\ stats[2] = cs[j]
                  \/ stats[1] = cs[j] /\ stats[2] = cs[i]
<1> DEFINE K == StatsIn(cs)
<1> DEFINE stats == Ruling!Those(cs, "compute_statistics")
<1>1. /\ IsList(stats) /\ Len(stats) = Cardinality(K)
      /\ \A n, p \in DOMAIN stats : n # p => \E x, y \in K : x # y /\ stats[n] = cs[x] /\ stats[p] = cs[y]
  BY ThoseIs
<1>2. K = {i, j}
  OBVIOUS
<1>3. Cardinality(K) = 2
  <2>1. IsFiniteSet({i}) /\ Cardinality({i}) = 1
    BY FS_Singleton
  <2>2. Cardinality({i} \cup {j}) = Cardinality({i}) + 1
    BY <2>1, FS_AddElement
  <2>3. K = {i} \cup {j}
    BY <1>2
  <2> QED
    BY <2>1, <2>2, <2>3
<1> HIDE DEF K, stats
<1>4. 1 \in DOMAIN stats /\ 2 \in DOMAIN stats
  BY <1>1, <1>3, ListIs
<1>5. PICK x \in K, y \in K : x # y /\ stats[1] = cs[x] /\ stats[2] = cs[y]
  BY <1>1, <1>4
<1> QED
  BY <1>1, <1>2, <1>3, <1>5 DEF stats

LEMMA JoinIs ==
    ASSUME NEW s, IsList(s), NEW t, IsList(t)
    PROVE  s \o t = [n \in 1..(Len(s) + Len(t)) |-> IF n <= Len(s) THEN s[n] ELSE t[n - Len(s)]]
<1> DEFINE S == {s[n] : n \in DOMAIN s} \cup {t[n] : n \in DOMAIN t}
<1>1. s \in Seq(S)
  <2>1. s \in [1..Len(s) -> S] /\ Len(s) \in Nat
    BY DEF IsList
  <2> QED
    BY <2>1
<1>2. t \in Seq(S)
  <2>1. t \in [1..Len(t) -> S] /\ Len(t) \in Nat
    BY DEF IsList
  <2> QED
    BY <2>1
<1> HIDE DEF S
<1>3. /\ s \o t \in Seq(S) /\ Len(s \o t) = Len(s) + Len(t)
      /\ \A n \in 1..(Len(s) + Len(t)) : (s \o t)[n] = IF n <= Len(s) THEN s[n] ELSE t[n - Len(s)]
  BY <1>1, <1>2, ConcatProperties
<1> DEFINE r == s \o t
<1>4. r = [n \in 1..Len(r) |-> r[n]]
  <2>1. r \in Seq(S)
    BY <1>3
  <2> HIDE DEF r
  <2> QED
    BY <2>1
<1> QED
  BY <1>3, <1>4

Before(cs) == Len(Ruling!Others(cs, "compute_statistics"))
Replaced(cs, parts) == Ruling!Others(cs, "compute_statistics") \o parts
After(n, parts) == {n + k : k \in DOMAIN parts}
AllStatistics(parts) == \A k \in DOMAIN parts : parts[k].name = "compute_statistics"

\* Other calls in the place of the statistics.
LEMMA ReplacedIs ==
    ASSUME NEW cs, IsList(cs), NEW parts, IsList(parts), AllStatistics(parts)
    PROVE  LET L == Before(cs)
               r == Replaced(cs, parts)
           IN  /\ L \in Nat /\ IsList(r) /\ DOMAIN r = 1..(L + Len(parts))
               /\ \A k \in 1..L : r[k].name # "compute_statistics" /\ \E i \in DOMAIN cs : r[k] = cs[i]
               /\ \A k \in DOMAIN parts : L + k \in DOMAIN r /\ r[L + k] = parts[k]
               /\ StatsIn(r) = After(L, parts)
<1> DEFINE K == {i \in DOMAIN cs : cs[i].name # "compute_statistics"}
<1> DEFINE o == Ruling!Others(cs, "compute_statistics")
<1> DEFINE L == Len(o)
<1> DEFINE r == o \o parts
<1>1. Len(cs) \in Nat /\ K \subseteq 1..Len(cs)
  BY ListIs
<1>2. o = Ruling!Keep(cs, K)
  BY DEF Ruling!Others, Ruling!Is
<1>3. /\ IsList(Ruling!Keep(cs, K))
      /\ \A n \in DOMAIN Ruling!Keep(cs, K) :
           Ruling!Nth(K, n) \in K /\ Ruling!Keep(cs, K)[n] = cs[Ruling!Nth(K, n)]
  BY <1>1, KeepIs
<1>4. \A i \in K : i \in DOMAIN cs /\ cs[i].name # "compute_statistics"
  OBVIOUS
<1> HIDE DEF K, o
<1>5. IsList(o) /\ \A n \in DOMAIN o : o[n].name # "compute_statistics" /\ \E i \in DOMAIN cs : o[n] = cs[i]
  BY <1>2, <1>3, <1>4
<1>6. /\ L \in Nat /\ DOMAIN o = 1..L
      /\ Len(parts) \in Nat /\ DOMAIN parts = 1..Len(parts)
  BY <1>5, ListIs
<1>7. r = [n \in 1..(L + Len(parts)) |-> IF n <= L THEN o[n] ELSE parts[n - L]]
  BY <1>5, JoinIs
<1> HIDE DEF r, L
<1>8. DOMAIN r = 1..(L + Len(parts)) /\ L + Len(parts) \in Nat
  BY <1>6, <1>7
<1>9. IsList(r)
  <2>1. r = [n \in 1..(L + Len(parts)) |-> r[n]]
    BY <1>7
  <2> QED
    BY <1>8, <2>1, ListMade
<1>10. \A k \in 1..L : r[k] = o[k]
  BY <1>6, <1>7
<1>11. \A k \in DOMAIN parts : L + k \in DOMAIN r /\ r[L + k] = parts[k]
  BY <1>6, <1>7
<1>12. \A k \in 1..L : r[k].name # "compute_statistics" /\ \E i \in DOMAIN cs : r[k] = cs[i]
  BY <1>5, <1>6, <1>10
<1>13. ASSUME NEW n \in StatsIn(r) PROVE \E k \in DOMAIN parts : n = L + k
  <2>1. n \in 1..(L + Len(parts)) /\ n \notin 1..L
    BY <1>8, <1>12 DEF StatsIn
  <2>2. n - L \in DOMAIN parts /\ n = L + (n - L)
    BY <1>6, <2>1
  <2> QED
    BY <2>2
<1>14. \A k \in DOMAIN parts : L + k \in StatsIn(r)
  BY <1>11 DEF StatsIn, AllStatistics
<1>15. StatsIn(r) = {L + k : k \in DOMAIN parts}
  BY <1>13, <1>14
<1> QED
  BY <1>6, <1>8, <1>9, <1>11, <1>12, <1>15 DEF r, o, L, Before, Replaced, After

-----------------------------------------------------------------------------
(* What becomes of one call.                                               *)

Goes(m, c, weekly) == Ruling!Routed(m, Ruling!Followed(m, c), weekly)
Treated(m, c, weekly) == Ruling!OnlyAllowed(Ruling!Completed(m, Ruling!About(m, Goes(m, c, weekly))))

LEMMA NormalizedIs ==
    ASSUME NEW m, NEW cs, IsList(cs)
    PROVE  \E weekly \in BOOLEAN :
             LET n == Ruling!Normalized(m, cs)
             IN  /\ IsList(n)
                 /\ \A k \in DOMAIN n : \E i \in DOMAIN cs :
                      Goes(m, cs[i], weekly) # None /\ n[k] = Treated(m, cs[i], weekly)
                 /\ \A i \in DOMAIN cs : Goes(m, cs[i], weekly) # None =>
                      \E k \in DOMAIN n : n[k] = Treated(m, cs[i], weekly)
                 /\ \A k, p \in DOMAIN n : n[k] = n[p] => k = p
<1> DEFINE weekly == \E i \in DOMAIN cs : Ruling!Is(cs[i], "generate_weekly_report")
<1> DEFINE routed == [i \in DOMAIN cs |-> Goes(m, cs[i], weekly)]
<1> DEFINE K == {i \in DOMAIN cs : routed[i] # None}
<1> DEFINE left == Ruling!Keep(routed, K)
<1> DEFINE done == [k \in DOMAIN left |-> Ruling!OnlyAllowed(Ruling!Completed(m, Ruling!About(m, left[k])))]
<1> DEFINE n == Ruling!Normalized(m, cs)
<1>1. n = Ruling!Unique(done)
  BY DEF Ruling!Normalized, Goes
<1>2. weekly \in BOOLEAN
  OBVIOUS
<1> HIDE DEF n, weekly
<1>3. Len(cs) \in Nat /\ K \subseteq 1..Len(cs)
  BY ListIs
<1>4. \A i \in K : i \in DOMAIN cs /\ routed[i] = Goes(m, cs[i], weekly) /\ routed[i] # None
  OBVIOUS
<1>5. \A i \in DOMAIN cs : Goes(m, cs[i], weekly) # None => i \in K
  OBVIOUS
<1> HIDE DEF K, routed
<1>6. /\ IsList(left)
      /\ \A k \in DOMAIN left : Ruling!Nth(K, k) \in K /\ left[k] = routed[Ruling!Nth(K, k)]
      /\ \A i \in K : \E k \in DOMAIN left : Ruling!Nth(K, k) = i
  BY <1>3, KeepIs
<1> HIDE DEF left
<1>7. IsList(done) /\ DOMAIN done = DOMAIN left
  <2>1. Len(left) \in Nat /\ DOMAIN left = 1..Len(left)
    BY <1>6, ListIs
  <2>2. done = [k \in 1..Len(left) |-> done[k]]
    BY <2>1
  <2> QED
    BY <2>1, <2>2, ListMade
<1>8. ASSUME NEW k \in DOMAIN done
      PROVE  \E i \in DOMAIN cs : Goes(m, cs[i], weekly) # None /\ done[k] = Treated(m, cs[i], weekly)
  <2> DEFINE i == Ruling!Nth(K, k)
  <2>1. i \in K /\ left[k] = routed[i]
    BY <1>6, <1>7
  <2>2. i \in DOMAIN cs /\ Goes(m, cs[i], weekly) # None /\ left[k] = Goes(m, cs[i], weekly)
    BY <1>4, <2>1
  <2> HIDE DEF i
  <2>3. done[k] = Ruling!OnlyAllowed(Ruling!Completed(m, Ruling!About(m, left[k])))
    BY <1>7
  <2> QED
    BY <2>2, <2>3 DEF Treated
<1>9. ASSUME NEW i \in DOMAIN cs, Goes(m, cs[i], weekly) # None
      PROVE  \E k \in DOMAIN done : done[k] = Treated(m, cs[i], weekly)
  <2>1. i \in K
    BY <1>5, <1>9
  <2>2. PICK k \in DOMAIN left : Ruling!Nth(K, k) = i
    BY <1>6, <2>1
  <2>3. left[k] = Goes(m, cs[i], weekly)
    BY <1>4, <1>6, <2>1, <2>2
  <2>4. done[k] = Ruling!OnlyAllowed(Ruling!Completed(m, Ruling!About(m, left[k])))
    OBVIOUS
  <2> QED
    BY <1>7, <2>3, <2>4 DEF Treated
<1> HIDE DEF done
<1>10. /\ IsList(n)
       /\ \A k \in DOMAIN n : \E i \in DOMAIN done : n[k] = done[i]
       /\ \A i \in DOMAIN done : \E k \in DOMAIN n : n[k] = done[i]
       /\ \A k, p \in DOMAIN n : n[k] = n[p] => k = p
  BY <1>1, <1>7, UniqueIs
<1>11. \A k \in DOMAIN n : \E i \in DOMAIN cs :
         Goes(m, cs[i], weekly) # None /\ n[k] = Treated(m, cs[i], weekly)
  BY <1>8, <1>10
<1>12. \A i \in DOMAIN cs : Goes(m, cs[i], weekly) # None =>
         \E k \in DOMAIN n : n[k] = Treated(m, cs[i], weekly)
  BY <1>9, <1>10
<1> QED
  BY <1>2, <1>10, <1>11, <1>12 DEF n

\* The asker and a colleague are not both in a call, and no call writes.
Unjoined(as) == ~("user" \in DOMAIN as /\ "member" \in DOMAIN as)
Proper(c) == c.name # "save_workhour" /\ Unjoined(c.args)

\* The same value of an argument, or none, in both.
Alike(as, bs, key) ==
    /\ key \in DOMAIN as <=> key \in DOMAIN bs
    /\ key \in DOMAIN as => as[key] = bs[key]

LEMMA FollowedIs ==
    ASSUME NEW m, NEW c
    PROVE  LET f == Ruling!Followed(m, c)
           IN  /\ f.name = c.name
               /\ \A k \in DOMAIN c.args : k \in DOMAIN f.args /\ f.args[k] = c.args[k]
               /\ \A k \in DOMAIN f.args : k \notin DOMAIN c.args =>
                    "follow" \in m /\ last # None /\ k \in DOMAIN last.args /\ k # "user"
<1> DEFINE keys == {"member", "project", "dept"}
                     \cup (IF Ruling!HasDateEvidence(m) THEN {} ELSE {"start", "end", "week"})
<1> DEFINE o == Ruling!Only(last.args, keys)
<1> DEFINE w == Ruling!With(o, c.args)
<1> DEFINE f == Ruling!Followed(m, c)
<1>1. DOMAIN o = DOMAIN last.args \cap keys
  BY OnlyIs
<1>2. "user" \notin keys
  OBVIOUS
<1> HIDE DEF o, keys
<1>3. /\ DOMAIN w = DOMAIN o \cup DOMAIN c.args
      /\ \A k \in DOMAIN c.args : w[k] = c.args[k]
      /\ \A k \in DOMAIN o : k \notin DOMAIN c.args => w[k] = o[k]
  BY WithIs
<1>4. f = IF "follow" \in m /\ last # None /\ c.name = last.name
          THEN Ruling!Call(c.name, w) ELSE c
  BY DEF Ruling!Followed, o, keys
<1>5. Ruling!Call(c.name, w).name = c.name /\ Ruling!Call(c.name, w).args = w
  BY CallIs
<1> HIDE DEF w, f
<1>6. CASE "follow" \in m /\ last # None /\ c.name = last.name
  <2>1. f.name = c.name /\ f.args = w
    BY <1>4, <1>5, <1>6
  <2>2. \A k \in DOMAIN w : k \notin DOMAIN c.args => k \in DOMAIN last.args /\ k # "user"
    BY <1>1, <1>2, <1>3
  <2> QED
    BY <1>3, <1>6, <2>1, <2>2 DEF f
<1>7. CASE ~("follow" \in m /\ last # None /\ c.name = last.name)
  <2>1. f = c
    BY <1>4, <1>7
  <2> QED
    BY <2>1 DEF f
<1> QED
  BY <1>6, <1>7

LEMMA RoutedIs ==
    ASSUME NEW m, NEW c, NEW weekly \in BOOLEAN, Ruling!Routed(m, c, weekly) # None
    PROVE  LET r == Ruling!Routed(m, c, weekly)
           IN  /\ r.name \in {c.name, "generate_weekly_report", "compute_statistics", "query_timesheet"}
               /\ r.name = "compute_statistics" => c.name \in {"compute_statistics", "query_timesheet"}
               /\ \A k \in DOMAIN r.args : k \in DOMAIN c.args /\ r.args[k] = c.args[k]
               /\ c.name = "compute_statistics" /\ "detail" \notin m => r = c
<1> DEFINE r == Ruling!Routed(m, c, weekly)
<1> DEFINE o == Ruling!Only(c.args, {"user", "member"})
<1> DEFINE w == Ruling!Without(c.args, {"type", "dept"})
<1>1. \/ r = c
      \/ r = Ruling!Call("generate_weekly_report", o) /\ c.name = "query_timesheet"
      \/ r = Ruling!Statistics(c.args) /\ c.name = "query_timesheet"
      \/ r = Ruling!Call("query_timesheet", w) /\ c.name = "compute_statistics" /\ "detail" \in m
  BY DEF Ruling!Routed, Ruling!Is
<1>2. /\ DOMAIN o = DOMAIN c.args \cap {"user", "member"}
      /\ \A k \in DOMAIN c.args \cap {"user", "member"} : o[k] = c.args[k]
  BY OnlyIs
<1>3. /\ DOMAIN w = DOMAIN c.args \ {"type", "dept"}
      /\ \A k \in DOMAIN c.args \ {"type", "dept"} : w[k] = c.args[k]
  BY WithoutIs
<1> HIDE DEF r, o, w
<1>4. CASE r = c
  BY <1>4 DEF r
<1>5. CASE r = Ruling!Call("generate_weekly_report", o) /\ c.name = "query_timesheet"
  <2>1. r.name = "generate_weekly_report" /\ r.args = o
    BY <1>5, CallIs
  <2> QED
    BY <1>2, <1>5, <2>1 DEF r
<1>6. CASE r = Ruling!Statistics(c.args) /\ c.name = "query_timesheet"
  <2>1. r.name = "compute_statistics" /\ r.args = c.args
    BY <1>6, StatisticsIs
  <2> QED
    BY <1>6, <2>1 DEF r
<1>7. CASE r = Ruling!Call("query_timesheet", w) /\ c.name = "compute_statistics" /\ "detail" \in m
  <2>1. r.name = "query_timesheet" /\ r.args = w
    BY <1>7, CallIs
  <2> QED
    BY <1>3, <1>7, <2>1 DEF r
<1> QED
  BY <1>1, <1>4, <1>5, <1>6, <1>7

\* A call about somebody is about the colleague, if there is one.
LEMMA AboutIs ==
    ASSUME NEW m, NEW c
    PROVE  LET a == Ruling!About(m, c)
           IN  /\ a.name = c.name
               /\ Ruling!Colleague(m) = None \/ c.name \notin Ruling!PersonTools => a = c
               /\ Ruling!Colleague(m) # None /\ c.name \in Ruling!PersonTools =>
                    /\ "user" \notin DOMAIN a.args
                    /\ "member" \in DOMAIN a.args /\ a.args["member"] = Ruling!Colleague(m)
                    /\ \A k : k \notin {"user", "member"} => Alike(a.args, c.args, k)
<1> DEFINE o == Ruling!Without(c.args, {"user"})
<1> DEFINE f == Ruling!Field("member", Ruling!Colleague(m))
<1> DEFINE w == Ruling!With(o, f)
<1>1. DOMAIN o = DOMAIN c.args \ {"user"} /\ \A k \in DOMAIN c.args \ {"user"} : o[k] = c.args[k]
  BY WithoutIs
<1>2. DOMAIN f = {"member"} /\ f["member"] = Ruling!Colleague(m)
  BY FieldIs
<1>3. /\ DOMAIN w = DOMAIN o \cup DOMAIN f
      /\ \A k \in DOMAIN f : w[k] = f[k]
      /\ \A k \in DOMAIN o : k \notin DOMAIN f => w[k] = o[k]
  BY WithIs
<1> DEFINE a == Ruling!About(m, c)
<1>4. a = IF c.name \in Ruling!PersonTools /\ Ruling!Colleague(m) # None
          THEN Ruling!Call(c.name, w) ELSE c
  BY DEF Ruling!About
<1>5. Ruling!Call(c.name, w).name = c.name /\ Ruling!Call(c.name, w).args = w
  BY CallIs
<1> HIDE DEF w, o, f, a
<1>6. "user" \notin DOMAIN w /\ "member" \in DOMAIN w /\ w["member"] = Ruling!Colleague(m)
  BY <1>1, <1>2, <1>3
<1>7. ASSUME NEW k, k \notin {"user", "member"} PROVE Alike(w, c.args, k)
  BY <1>1, <1>2, <1>3, <1>7 DEF Alike
<1>8. CASE c.name \in Ruling!PersonTools /\ Ruling!Colleague(m) # None
  <2>1. a.name = c.name /\ a.args = w
    BY <1>4, <1>5, <1>8
  <2>2. \A k : k \notin {"user", "member"} => Alike(a.args, c.args, k)
    BY <1>7, <2>1
  <2> QED
    BY <1>6, <1>8, <2>1, <2>2 DEF a
<1>9. CASE ~(c.name \in Ruling!PersonTools /\ Ruling!Colleague(m) # None)
  <2>1. a = c
    BY <1>4, <1>9
  <2> QED
    BY <1>9, <2>1 DEF a
<1> QED
  BY <1>8, <1>9

LEMMA AlikeIs ==
    ASSUME NEW as, NEW bs, NEW cs, NEW key, Alike(as, bs, key), Alike(bs, cs, key)
    PROVE  Alike(as, cs, key) /\ Alike(bs, as, key)
BY DEF Alike

LEMMA WithAlike ==
    ASSUME NEW as, NEW more
    PROVE  \A k : k \notin DOMAIN more => Alike(Ruling!With(as, more), as, k)
<1> DEFINE w == Ruling!With(as, more)
<1>1. /\ DOMAIN w = DOMAIN as \cup DOMAIN more
      /\ \A k \in DOMAIN more : w[k] = more[k]
      /\ \A k \in DOMAIN as : k \notin DOMAIN more => w[k] = as[k]
  BY WithIs
<1> HIDE DEF w
<1>2. \A k : k \notin DOMAIN more => Alike(w, as, k)
  BY <1>1 DEF Alike
<1> QED
  BY <1>2 DEF w

LEMMA WithField ==
    ASSUME NEW as, NEW key, NEW value
    PROVE  LET w == Ruling!With(as, Ruling!Field(key, value))
           IN  key \in DOMAIN w /\ w[key] = value /\ \A k : k # key => Alike(w, as, k)
<1> DEFINE f == Ruling!Field(key, value)
<1> DEFINE w == Ruling!With(as, f)
<1>1. DOMAIN f = {key} /\ f[key] = value
  BY FieldIs
<1> HIDE DEF f
<1>2. /\ DOMAIN w = DOMAIN as \cup DOMAIN f
      /\ \A k \in DOMAIN f : w[k] = f[k]
      /\ \A k \in DOMAIN as : k \notin DOMAIN f => w[k] = as[k]
  BY WithIs
<1>3. \A k : k \notin DOMAIN f => Alike(w, as, k)
  BY WithAlike
<1> HIDE DEF w
<1>4. key \in DOMAIN w /\ w[key] = value
  BY <1>1, <1>2
<1>5. \A k : k # key => Alike(w, as, k)
  BY <1>1, <1>3
<1> QED
  BY <1>4, <1>5 DEF w, f

LEMMA WithDays ==
    ASSUME NEW as, NEW x, NEW y
    PROVE  LET w == Ruling!With(as, Ruling!Between(x, y))
           IN  /\ {"start", "end"} \subseteq DOMAIN w /\ w["start"] = x /\ w["end"] = y
               /\ \A k : k \notin {"start", "end"} => Alike(w, as, k)
<1> DEFINE f == Ruling!Between(x, y)
<1> DEFINE w == Ruling!With(as, f)
<1>1. DOMAIN f = {"start", "end"} /\ f["start"] = x /\ f["end"] = y
  BY BetweenIs
<1> HIDE DEF f
<1>2. /\ DOMAIN w = DOMAIN as \cup DOMAIN f
      /\ \A k \in DOMAIN f : w[k] = f[k]
      /\ \A k \in DOMAIN as : k \notin DOMAIN f => w[k] = as[k]
  BY WithIs
<1>3. \A k : k \notin DOMAIN f => Alike(w, as, k)
  BY WithAlike
<1> HIDE DEF w
<1>4. {"start", "end"} \subseteq DOMAIN w /\ w["start"] = x /\ w["end"] = y
  BY <1>1, <1>2
<1>5. \A k : k \notin {"start", "end"} => Alike(w, as, k)
  BY <1>1, <1>3
<1> QED
  BY <1>4, <1>5 DEF w, f

LEMMA WithoutAlike ==
    ASSUME NEW as, NEW keys
    PROVE  /\ \A k \in keys : k \notin DOMAIN Ruling!Without(as, keys)
           /\ \A k : k \notin keys => Alike(Ruling!Without(as, keys), as, k)
<1> DEFINE w == Ruling!Without(as, keys)
<1>1. DOMAIN w = DOMAIN as \ keys /\ \A k \in DOMAIN as \ keys : w[k] = as[k]
  BY WithoutIs
<1> HIDE DEF w
<1>2. \A k : k \notin keys => Alike(w, as, k)
  BY <1>1 DEF Alike
<1> QED
  BY <1>1, <1>2 DEF w

LEMMA OnlyAlike ==
    ASSUME NEW as, NEW keys
    PROVE  /\ \A k \in keys : Alike(Ruling!Only(as, keys), as, k)
           /\ \A k : k \notin keys => k \notin DOMAIN Ruling!Only(as, keys)
<1> DEFINE w == Ruling!Only(as, keys)
<1>1. DOMAIN w = DOMAIN as \cap keys /\ \A k \in DOMAIN as \cap keys : w[k] = as[k]
  BY OnlyIs
<1> HIDE DEF w
<1>2. \A k \in keys : Alike(w, as, k)
  BY <1>1 DEF Alike
<1> QED
  BY <1>1, <1>2 DEF w

\* The days the words of a message give are the same for every call.
LEMMA DatedIs ==
    ASSUME NEW m, NEW as
    PROVE  /\ \A k : k \notin {"start", "end"} => Alike(Ruling!Dated(m, as), as, k)
           /\ \A bs : \A k \in {"start", "end"} : Alike(as, bs, k) =>
                Alike(Ruling!Dated(m, as), Ruling!Dated(m, bs), k)
<1>1. \/ \A bs : Ruling!Dated(m, bs) = bs
      \/ \E x, y : \A bs : Ruling!Dated(m, bs) = Ruling!With(bs, Ruling!Between(x, y))
  <2>1. CASE "thisMonth" \in m
    <3> DEFINE x == Ruling!First(Ruling!CurrentMonth)
    <3>1. \A bs : Ruling!Dated(m, bs) = Ruling!With(bs, Ruling!Between(x, Today))
      BY <2>1 DEF Ruling!Dated
    <3> QED
      BY <3>1
  <2>2. CASE "thisMonth" \notin m /\ "ratio" \in m /\ ~Ruling!HasDateEvidence(m)
    <3> DEFINE y == Ruling!Len(Ruling!MonthNames) * MonthDays
    <3>1. \A bs : Ruling!Dated(m, bs) = Ruling!With(bs, Ruling!Between(1, y))
      BY <2>2 DEF Ruling!Dated, Ruling!ThisYear
    <3> QED
      BY <3>1
  <2>3. CASE "thisMonth" \notin m /\ ~("ratio" \in m /\ ~Ruling!HasDateEvidence(m))
    BY <2>3 DEF Ruling!Dated
  <2> QED
    BY <2>1, <2>2, <2>3
<1>2. CASE \A bs : Ruling!Dated(m, bs) = bs
  <2>1. \A k : Alike(as, as, k)
    BY DEF Alike
  <2>2. Ruling!Dated(m, as) = as
    BY <1>2
  <2>3. \A k : k \notin {"start", "end"} => Alike(Ruling!Dated(m, as), as, k)
    BY <2>1, <2>2
  <2>4. ASSUME NEW bs, NEW k \in {"start", "end"}, Alike(as, bs, k)
        PROVE  Alike(Ruling!Dated(m, as), Ruling!Dated(m, bs), k)
    <3>1. Ruling!Dated(m, bs) = bs
      BY <1>2
    <3> QED
      BY <2>2, <2>4, <3>1
  <2> QED
    BY <2>3, <2>4
<1>3. CASE \E x, y : \A bs : Ruling!Dated(m, bs) = Ruling!With(bs, Ruling!Between(x, y))
  <2>1. PICK x, y : \A bs : Ruling!Dated(m, bs) = Ruling!With(bs, Ruling!Between(x, y))
    BY <1>3
  <2>2. ASSUME NEW bs
        PROVE  /\ {"start", "end"} \subseteq DOMAIN Ruling!Dated(m, bs)
               /\ Ruling!Dated(m, bs)["start"] = x /\ Ruling!Dated(m, bs)["end"] = y
               /\ \A k : k \notin {"start", "end"} => Alike(Ruling!Dated(m, bs), bs, k)
    BY <2>1, WithDays
  <2>3. \A bs : \A k \in {"start", "end"} : Alike(Ruling!Dated(m, as), Ruling!Dated(m, bs), k)
    BY <2>2 DEF Alike
  <2> QED
    BY <2>2, <2>3
<1> QED
  BY <1>1, <1>2, <1>3

LEMMA WeekIs == \A m : DOMAIN Ruling!Week(m) \subseteq {"week"}
<1>1. ASSUME NEW x PROVE DOMAIN Ruling!Field("week", x) = {"week"}
  BY FieldIs
<1> QED
  BY <1>1, NothingIs DEF Ruling!Week

LEMMA CompletedIs ==
    ASSUME NEW m, NEW c
    PROVE  LET d == Ruling!Completed(m, c)
           IN  /\ d.name = c.name
               /\ Alike(d.args, c.args, "user") /\ Alike(d.args, c.args, "project")
               /\ "dept" \notin m => Alike(d.args, c.args, "member")
               /\ c.name # "compute_statistics" => Alike(d.args, c.args, "member")
<1> DEFINE d == Ruling!Completed(m, c)
<1>0. \A k : Alike(c.args, c.args, k)
  BY DEF Alike
<1>1. CASE c.name = "compute_statistics"
  <2> DEFINE o == Ruling!Without(c.args, {"member"})
  <2> DEFINE w == Ruling!With(o, Ruling!Field("dept", 1))
  <2> DEFINE as == IF "dept" \in m THEN w ELSE c.args
  <2> DEFINE t == Ruling!Inferred(m, as)
  <2> DEFINE bs == Ruling!With(as, Ruling!Field("type", t))
  <2>1. d = Ruling!Statistics(Ruling!Dated(m, bs))
    BY <1>1 DEF Ruling!Completed, Ruling!Type, Ruling!Is
  <2>2. \A k : k \notin {"member"} => Alike(o, c.args, k)
    BY WithoutAlike
  <2> HIDE DEF o
  <2>3. \A k : k # "dept" => Alike(w, o, k)
    BY WithField
  <2> HIDE DEF w
  <2>4. \A k : k \notin {"member", "dept"} => Alike(w, c.args, k)
    BY <2>2, <2>3, AlikeIs
  <2>5. \A k : k \notin {"member", "dept"} => Alike(as, c.args, k)
    BY <1>0, <2>4
  <2>6. "dept" \notin m => as = c.args
    OBVIOUS
  <2> HIDE DEF as, t
  <2>7. \A k : k # "type" => Alike(bs, as, k)
    BY WithField
  <2> HIDE DEF bs
  <2>8. \A k : k \notin {"start", "end"} => Alike(Ruling!Dated(m, bs), bs, k)
    BY DatedIs
  <2>9. d.name = c.name /\ d.args = Ruling!Dated(m, bs)
    BY <1>1, <2>1, StatisticsIs
  <2> HIDE DEF d
  <2>10. \A k : k \notin {"start", "end", "type"} => Alike(d.args, as, k)
    BY <2>7, <2>8, <2>9, AlikeIs
  <2>11. \A k : k \notin {"start", "end", "type", "member", "dept"} => Alike(d.args, c.args, k)
    BY <2>5, <2>10, AlikeIs
  <2>12. "dept" \notin m => Alike(d.args, c.args, "member")
    BY <2>6, <2>10
  <2> QED
    BY <1>1, <2>9, <2>11, <2>12 DEF d
<1>2. CASE c.name = "generate_weekly_report"
  <2> DEFINE w == Ruling!With(c.args, Ruling!Week(m))
  <2>1. d = Ruling!Call(c.name, w)
    BY <1>2 DEF Ruling!Completed, Ruling!Is
  <2>2. \A k : k \notin DOMAIN Ruling!Week(m) => Alike(w, c.args, k)
    BY WithAlike
  <2>3. \A k : k # "week" => Alike(w, c.args, k)
    BY <2>2, WeekIs
  <2> HIDE DEF w
  <2>4. d.name = c.name /\ d.args = w
    BY <2>1, CallIs
  <2> HIDE DEF d
  <2> QED
    BY <2>3, <2>4 DEF d
<1>3. CASE c.name \notin {"compute_statistics", "generate_weekly_report"}
  <2>1. d = c
    BY <1>3 DEF Ruling!Completed, Ruling!Is
  <2> HIDE DEF d
  <2> QED
    BY <1>0, <2>1 DEF d
<1> QED
  BY <1>1, <1>2, <1>3

\* Two statistics for the same days stay statistics for the same days.
LEMMA CompletedDays ==
    ASSUME NEW m, NEW c, NEW d, c.name = "compute_statistics", d.name = "compute_statistics",
           NEW key \in {"start", "end"}, Alike(c.args, d.args, key)
    PROVE  Alike(Ruling!Completed(m, c).args, Ruling!Completed(m, d).args, key)
<1> DEFINE o(e) == Ruling!Without(e.args, {"member"})
<1> DEFINE w(e) == Ruling!With(o(e), Ruling!Field("dept", 1))
<1> DEFINE as(e) == IF "dept" \in m THEN w(e) ELSE e.args
<1> DEFINE bs(e) == Ruling!With(as(e), Ruling!Field("type", Ruling!Inferred(m, as(e))))
<1>1. ASSUME NEW e, e.name = "compute_statistics"
      PROVE  Ruling!Completed(m, e).args = Ruling!Dated(m, bs(e)) /\ Alike(bs(e), e.args, key)
  <2>1. Ruling!Completed(m, e) = Ruling!Statistics(Ruling!Dated(m, bs(e)))
    BY <1>1 DEF Ruling!Completed, Ruling!Type, Ruling!Is
  <2>2. Ruling!Completed(m, e).args = Ruling!Dated(m, bs(e))
    BY <2>1, StatisticsIs
  <2>3. Alike(o(e), e.args, key)
    BY WithoutAlike
  <2> HIDE DEF o
  <2>4. Alike(w(e), o(e), key)
    BY WithField
  <2> HIDE DEF w
  <2>5. Alike(w(e), e.args, key)
    BY <2>3, <2>4, AlikeIs
  <2>6. Alike(as(e), e.args, key)
    <3>1. Alike(e.args, e.args, key)
      BY DEF Alike
    <3> QED
      BY <2>5, <3>1
  <2> HIDE DEF as
  <2>7. Alike(bs(e), as(e), key)
    BY WithField
  <2> HIDE DEF bs
  <2> QED
    BY <2>2, <2>6, <2>7, AlikeIs
<1> HIDE DEF bs
<1>2. Alike(bs(c), c.args, key) /\ Alike(bs(d), d.args, key)
  BY <1>1
<1>3. Alike(bs(c), bs(d), key)
  <2>1. Alike(c.args, d.args, key)
    OBVIOUS
  <2> QED
    BY <1>2, <2>1 DEF Alike
<1>4. Alike(Ruling!Dated(m, bs(c)), Ruling!Dated(m, bs(d)), key)
  BY <1>3, DatedIs
<1> QED
  BY <1>1, <1>4

LEMMA AllowedIs ==
    ASSUME NEW c
    PROVE  LET a == Ruling!OnlyAllowed(c)
           IN  /\ a.name = c.name
               /\ \A k \in Ruling!Allowed(c.name) : Alike(a.args, c.args, k)
               /\ \A k : k \notin Ruling!Allowed(c.name) => k \notin DOMAIN a.args
<1> DEFINE o == Ruling!Only(c.args, Ruling!Allowed(c.name))
<1> DEFINE a == Ruling!OnlyAllowed(c)
<1>1. a.name = c.name /\ a.args = o
  BY CallIs DEF Ruling!OnlyAllowed
<1>2. /\ \A k \in Ruling!Allowed(c.name) : Alike(o, c.args, k)
      /\ \A k : k \notin Ruling!Allowed(c.name) => k \notin DOMAIN o
  BY OnlyAlike
<1> HIDE DEF a, o
<1> QED
  BY <1>1, <1>2 DEF a

\* What a call asks, and of whom.
Right(colleague, c) ==
    /\ Unjoined(c.args)
    /\ colleague # None /\ c.name \in Ruling!PersonTools =>
         "member" \in DOMAIN c.args /\ c.args["member"] = colleague

\* The last call, if it is about a person.
LastIs(c) == c # None /\ "member" \in DOMAIN c.args => c.args["member"] # None

\* Messages whose calls RightPerson and PartiesOnce are about, and EachDayOnce.
Personal(m) == m \cap {"dept", "people", "company", "first", "pair", "self"} = {}
Compares(m) ==
    /\ "people" \notin m
    /\ \/ m \cap {"pair", "projects"} # {} /\ "versus" \notin m
       \/ {"versus", "colleague", "dept"} \subseteq m
ByMonths(m) ==
    /\ "each" \in m /\ Ruling!Len(Ruling!Months(m)) >= 2
    /\ m \cap {"pair", "projects", "versus", "company", "people", "unowned"} = {}

LEMMA GoesIs ==
    ASSUME NEW m, NEW c, NEW weekly \in BOOLEAN, Goes(m, c, weekly) # None
    PROVE  LET g == Goes(m, c, weekly)
           IN  /\ g.name \in {c.name, "generate_weekly_report", "compute_statistics", "query_timesheet"}
               /\ g.name = "compute_statistics" => c.name \in {"compute_statistics", "query_timesheet"}
               /\ \A k \in DOMAIN g.args : k \notin DOMAIN c.args =>
                    "follow" \in m /\ last # None /\ k \in DOMAIN last.args /\ k # "user"
               /\ c.name = "compute_statistics" /\ "detail" \notin m =>
                    \A k \in DOMAIN c.args : k \in DOMAIN g.args /\ g.args[k] = c.args[k]
<1> DEFINE f == Ruling!Followed(m, c)
<1> DEFINE g == Ruling!Routed(m, f, weekly)
<1>1. /\ f.name = c.name
      /\ \A k \in DOMAIN c.args : k \in DOMAIN f.args /\ f.args[k] = c.args[k]
      /\ \A k \in DOMAIN f.args : k \notin DOMAIN c.args =>
           "follow" \in m /\ last # None /\ k \in DOMAIN last.args /\ k # "user"
  BY FollowedIs
<1> HIDE DEF f
<1>2. g # None
  BY DEF Goes, f
<1>3. /\ g.name \in {f.name, "generate_weekly_report", "compute_statistics", "query_timesheet"}
      /\ g.name = "compute_statistics" => f.name \in {"compute_statistics", "query_timesheet"}
      /\ \A k \in DOMAIN g.args : k \in DOMAIN f.args /\ g.args[k] = f.args[k]
      /\ f.name = "compute_statistics" /\ "detail" \notin m => g = f
  BY <1>2, RoutedIs
<1>4. Goes(m, c, weekly) = g
  BY DEF Goes, f
<1> HIDE DEF g
<1>5. ASSUME NEW k \in DOMAIN g.args, k \notin DOMAIN c.args
      PROVE  "follow" \in m /\ last # None /\ k \in DOMAIN last.args /\ k # "user"
  BY <1>1, <1>3, <1>5
<1>6. ASSUME c.name = "compute_statistics", "detail" \notin m, NEW k \in DOMAIN c.args
      PROVE  k \in DOMAIN g.args /\ g.args[k] = c.args[k]
  BY <1>1, <1>3, <1>6
<1>7. /\ g.name \in {c.name, "generate_weekly_report", "compute_statistics", "query_timesheet"}
      /\ g.name = "compute_statistics" => c.name \in {"compute_statistics", "query_timesheet"}
  BY <1>1, <1>3
<1> QED
  BY <1>4, <1>5, <1>6, <1>7

LEMMA TreatedName ==
    ASSUME NEW m, NEW c, NEW weekly \in BOOLEAN, Goes(m, c, weekly) # None
    PROVE  /\ Treated(m, c, weekly).name = Goes(m, c, weekly).name
           /\ Treated(m, c, weekly).name = "compute_statistics" =>
                c.name \in {"compute_statistics", "query_timesheet"}
<1> DEFINE g == Goes(m, c, weekly)
<1> DEFINE a == Ruling!About(m, g)
<1> DEFINE d == Ruling!Completed(m, a)
<1>1. g.name = "compute_statistics" => c.name \in {"compute_statistics", "query_timesheet"}
  BY GoesIs
<1> HIDE DEF g
<1>2. a.name = g.name
  BY AboutIs
<1> HIDE DEF a
<1>3. d.name = a.name
  BY CompletedIs
<1> HIDE DEF d
<1>4. Ruling!OnlyAllowed(d).name = d.name
  BY AllowedIs
<1>5. Treated(m, c, weekly) = Ruling!OnlyAllowed(d)
  BY DEF Treated, d, a, g
<1> QED
  BY <1>1, <1>2, <1>3, <1>4, <1>5 DEF g

\* The call that takes the place of another asks of the right person.
LEMMA TreatedRight ==
    ASSUME NEW m, NEW c, NEW weekly \in BOOLEAN, Goes(m, c, weekly) # None,
           Proper(c), LastIs(last), Personal(m)
    PROVE  Right(Ruling!Colleague(m), Treated(m, c, weekly))
<1> DEFINE g == Goes(m, c, weekly)
<1> DEFINE a == Ruling!About(m, g)
<1> DEFINE d == Ruling!Completed(m, a)
<1> DEFINE r == Ruling!OnlyAllowed(d)
<1> DEFINE col == Ruling!Colleague(m)
<1>1. /\ g.name \in {c.name, "generate_weekly_report", "compute_statistics", "query_timesheet"}
      /\ \A k \in DOMAIN g.args : k \notin DOMAIN c.args =>
           "follow" \in m /\ last # None /\ k \in DOMAIN last.args /\ k # "user"
  BY GoesIs
<1> HIDE DEF g
<1>2. /\ a.name = g.name
      /\ col = None \/ g.name \notin Ruling!PersonTools => a = g
      /\ col # None /\ g.name \in Ruling!PersonTools =>
           /\ "user" \notin DOMAIN a.args
           /\ "member" \in DOMAIN a.args /\ a.args["member"] = col
  BY AboutIs
<1> HIDE DEF a
<1>3. /\ d.name = a.name
      /\ Alike(d.args, a.args, "user")
      /\ "dept" \notin m => Alike(d.args, a.args, "member")
  BY CompletedIs
<1> HIDE DEF d
<1>4. /\ r.name = d.name
      /\ \A k \in Ruling!Allowed(d.name) : Alike(r.args, d.args, k)
      /\ \A k : k \notin Ruling!Allowed(d.name) => k \notin DOMAIN r.args
  BY AllowedIs
<1>5. Treated(m, c, weekly) = r
  BY DEF Treated, d, a, g
<1>6. "dept" \notin m /\ "self" \notin m
  BY DEF Personal
<1>7. col = None => ~("follow" \in m /\ last # None /\ "member" \in DOMAIN last.args)
  <2>1. ASSUME "follow" \in m, last # None, "member" \in DOMAIN last.args PROVE col # None
    <3>1. last.args["member"] # None
      BY <2>1 DEF LastIs
    <3>2. {"follow", "self"} \cap m = {"follow"}
      BY <1>6, <2>1
    <3>3. CASE "colleague" \in m
      <4>1. col = 1
        BY <3>3 DEF Ruling!Colleague
      <4>2. None # 1
        BY RulesAssumption
      <4> QED
        BY <4>1, <4>2
    <3>4. CASE "colleague" \notin m
      <4>1. col = last.args["member"]
        BY <2>1, <3>2, <3>4 DEF Ruling!Colleague, Ruling!Has
      <4> QED
        BY <3>1, <4>1
    <3> QED
      BY <3>3, <3>4
  <2> QED
    BY <2>1
<1> HIDE DEF r, col
<1>8. g.name # "save_workhour"
  BY <1>1 DEF Proper
<1>9. r.name = g.name
  BY <1>2, <1>3, <1>4
<1>10. \A k \in {"user", "member"} : k \in DOMAIN r.args => Alike(r.args, a.args, k)
  <2>1. Alike(d.args, a.args, "user") /\ Alike(d.args, a.args, "member")
    BY <1>3, <1>6
  <2>2. \A k \in {"user", "member"} : k \in DOMAIN r.args => Alike(r.args, d.args, k)
    BY <1>4
  <2> QED
    BY <2>1, <2>2, AlikeIs
<1>11. CASE col = None
  <2>1. a = g
    BY <1>2, <1>11
  <2>2. ~("user" \in DOMAIN g.args /\ "member" \in DOMAIN g.args)
    <3>1. "member" \in DOMAIN g.args => "member" \in DOMAIN c.args
      BY <1>1, <1>7, <1>11
    <3>2. "user" \in DOMAIN g.args => "user" \in DOMAIN c.args
      BY <1>1
    <3> QED
      BY <3>1, <3>2 DEF Proper, Unjoined
  <2>3. Unjoined(r.args)
    BY <1>10, <2>1, <2>2 DEF Alike, Unjoined
  <2> QED
    BY <1>5, <1>11, <2>3 DEF Right, col
<1>12. CASE col # None /\ g.name \in Ruling!PersonTools
  <2>1. Unjoined(r.args)
    BY <1>2, <1>10, <1>12 DEF Alike, Unjoined
  <2>2. g.name \in {"query_timesheet", "compute_statistics", "generate_weekly_report"}
    BY <1>8, <1>12 DEF Ruling!PersonTools
  <2>3. "member" \in Ruling!Allowed(d.name)
    BY <1>2, <1>3, <2>2 DEF Ruling!Allowed
  <2>4. Alike(r.args, a.args, "member")
    <3>1. Alike(r.args, d.args, "member")
      BY <1>4, <2>3
    <3>2. Alike(d.args, a.args, "member")
      BY <1>3, <1>6
    <3> QED
      BY <3>1, <3>2, AlikeIs
  <2>5. "member" \in DOMAIN r.args /\ r.args["member"] = col
    BY <1>2, <1>12, <2>4 DEF Alike
  <2> QED
    BY <1>5, <2>1, <2>5 DEF Right, col
<1>13. CASE col # None /\ g.name \notin Ruling!PersonTools
  <2>1. "user" \notin Ruling!Allowed(d.name)
    BY <1>2, <1>3, <1>13 DEF Ruling!Allowed, Ruling!PersonTools
  <2>2. "user" \notin DOMAIN r.args
    BY <1>4, <2>1
  <2> QED
    BY <1>5, <1>9, <1>13, <2>2 DEF Right, Unjoined, col
<1> QED
  BY <1>11, <1>12, <1>13

\* Statistics about two projects for the same days, and about two parties.
Aligned(as, bs) ==
    /\ {"project", "start", "end"} \subseteq DOMAIN as \cap DOMAIN bs
    /\ as["project"] # bs["project"]
    /\ as["start"] = bs["start"] /\ as["end"] = bs["end"]
Apart(as, bs) ==
    /\ \E k \in {"member", "project", "dept"} : ~Alike(as, bs, k)
    /\ Alike(as, bs, "start") /\ Alike(as, bs, "end")

LEMMA TreatedApart ==
    ASSUME NEW m, NEW c, NEW d, NEW weekly \in BOOLEAN,
           Goes(m, c, weekly) # None, Goes(m, d, weekly) # None, "detail" \notin m,
           c.name = "compute_statistics", d.name = "compute_statistics", Aligned(c.args, d.args)
    PROVE  Apart(Treated(m, c, weekly).args, Treated(m, d, weekly).args)
<1> DEFINE g(e) == Goes(m, e, weekly)
<1> DEFINE a(e) == Ruling!About(m, g(e))
<1> DEFINE b(e) == Ruling!Completed(m, a(e))
<1> DEFINE r(e) == Ruling!OnlyAllowed(b(e))
<1>1. ASSUME NEW e, g(e) # None, e.name = "compute_statistics"
      PROVE  /\ a(e).name = "compute_statistics"
             /\ \A k \in {"project", "start", "end"} : k \in DOMAIN e.args =>
                  k \in DOMAIN a(e).args /\ a(e).args[k] = e.args[k]
             /\ Alike(b(e).args, a(e).args, "project")
             /\ \A k \in {"project", "start", "end"} : Alike(r(e).args, b(e).args, k)
             /\ Treated(m, e, weekly) = r(e)
  <2>1. g(e).name \in {e.name, "generate_weekly_report", "compute_statistics", "query_timesheet"}
    BY <1>1, GoesIs
  <2>2. \A k \in DOMAIN e.args : k \in DOMAIN g(e).args /\ g(e).args[k] = e.args[k]
    BY <1>1, GoesIs
  <2>3. g(e).name = "compute_statistics"
    <3> DEFINE f == Ruling!Followed(m, e)
    <3>1. f.name = e.name
      BY FollowedIs
    <3>2. g(e) = Ruling!Routed(m, f, weekly)
      BY DEF Goes
    <3> HIDE DEF f, g
    <3>3. f.name = "compute_statistics" /\ "detail" \notin m => g(e) = f
      BY <1>1, <3>2, RoutedIs
    <3> QED
      BY <1>1, <3>1, <3>3
  <2>4. Treated(m, e, weekly) = r(e)
    BY DEF Treated
  <2> DEFINE h == g(e)
  <2> HIDE DEF g, h
  <2> DEFINE x == Ruling!About(m, h)
  <2>5. /\ x.name = h.name
        /\ Ruling!Colleague(m) = None \/ h.name \notin Ruling!PersonTools => x = h
        /\ Ruling!Colleague(m) # None /\ h.name \in Ruling!PersonTools =>
             \A k : k \notin {"user", "member"} => Alike(x.args, h.args, k)
    BY AboutIs
  <2>6. a(e) = x
    BY DEF h
  <2> HIDE DEF a, x
  <2>7. a(e).name = "compute_statistics"
    BY <2>3, <2>5, <2>6 DEF h
  <2>8. \A k \in {"project", "start", "end"} : Alike(a(e).args, g(e).args, k)
    <3>1. \A k : Alike(h.args, h.args, k)
      BY DEF Alike
    <3> QED
      BY <2>5, <2>6, <3>1 DEF h
  <2>9. \A k \in {"project", "start", "end"} : k \in DOMAIN e.args =>
          k \in DOMAIN a(e).args /\ a(e).args[k] = e.args[k]
    BY <2>2, <2>8 DEF Alike
  <2>10. b(e).name = a(e).name /\ Alike(b(e).args, a(e).args, "project")
    BY CompletedIs
  <2> HIDE DEF b
  <2>11. \A k \in Ruling!Allowed(b(e).name) : Alike(r(e).args, b(e).args, k)
    BY AllowedIs
  <2>12. {"project", "start", "end"} \subseteq Ruling!Allowed(b(e).name)
    BY <2>7, <2>10 DEF Ruling!Allowed
  <2> HIDE DEF r
  <2> QED
    BY <2>4, <2>7, <2>9, <2>10, <2>11, <2>12
<1>2. g(c) # None /\ g(d) # None
  OBVIOUS
<1> DEFINE p == Treated(m, c, weekly)
<1> DEFINE q == Treated(m, d, weekly)
<1>3. a(c).name = "compute_statistics" /\ a(d).name = "compute_statistics"
  BY <1>1, <1>2
<1>4. \A k \in {"project", "start", "end"} :
        /\ k \in DOMAIN a(c).args /\ a(c).args[k] = c.args[k]
        /\ k \in DOMAIN a(d).args /\ a(d).args[k] = d.args[k]
  BY <1>1, <1>2 DEF Aligned
<1>5. Alike(b(c).args, a(c).args, "project") /\ Alike(b(d).args, a(d).args, "project")
  BY <1>1, <1>2
<1>6. \A k \in {"project", "start", "end"} :
        Alike(p.args, b(c).args, k) /\ Alike(q.args, b(d).args, k)
  BY <1>1, <1>2
<1> HIDE DEF g, a, p, q
<1>7. \A k \in {"start", "end"} : Alike(a(c).args, a(d).args, k)
  BY <1>4 DEF Aligned, Alike
<1>8. \A k \in {"start", "end"} : Alike(b(c).args, b(d).args, k)
  BY <1>3, <1>7, CompletedDays
<1> HIDE DEF b
<1>9. \A k \in {"start", "end"} : Alike(p.args, q.args, k)
  BY <1>6, <1>8 DEF Alike
<1>10. ~Alike(p.args, q.args, "project")
  BY <1>4, <1>5, <1>6 DEF Aligned, Alike
<1> QED
  BY <1>9, <1>10 DEF Apart, p, q

-----------------------------------------------------------------------------
(* What becomes of the calls together.                                     *)

\* One call of statistics at most, or two that are about two parties.
Alone(cs) == \A i, j \in StatsIn(cs) : i = j
Twins(cs) == \E i, j \in DOMAIN cs : i # j /\ StatsIn(cs) = {i, j} /\ Apart(cs[i].args, cs[j].args)

\* One call for hours at most, or two statistics about two projects.
HourTools == {"compute_statistics", "query_timesheet"}
Plain(cs) == \A i, j \in DOMAIN cs : cs[i].name \in HourTools /\ cs[j].name \in HourTools => i = j
NamesTwo(m) == m \cap {"pair", "projects"} # {}
Pairs(m, cs) ==
    /\ NamesTwo(m)
    /\ IsList(cs) /\ DOMAIN cs = {1, 2} /\ \A i \in {1, 2} : cs[i].name = "compute_statistics"
    /\ Aligned(cs[1].args, cs[2].args)

LEMMA DetailIs ==
    ASSUME NEW m, NEW c, NEW weekly \in BOOLEAN, "detail" \in m, c.name = "compute_statistics"
    PROVE  Goes(m, c, weekly).name = "query_timesheet"
<1> DEFINE f == Ruling!Followed(m, c)
<1>1. f.name = "compute_statistics"
  BY FollowedIs
<1>2. Goes(m, c, weekly) = Ruling!Routed(m, f, weekly)
  BY DEF Goes
<1> HIDE DEF f
<1> DEFINE w == Ruling!Without(f.args, {"type", "dept"})
<1>3. Ruling!Routed(m, f, weekly) = Ruling!Call("query_timesheet", w)
  BY <1>1 DEF Ruling!Routed, Ruling!Is, Ruling!Aggregate
<1>4. Ruling!Call("query_timesheet", w).name = "query_timesheet"
  BY CallIs
<1> QED
  BY <1>2, <1>3, <1>4

LEMMA NormalizedStats ==
    ASSUME NEW m, NEW cs, IsList(cs), Plain(cs) \/ Pairs(m, cs)
    PROVE  Alone(Ruling!Normalized(m, cs)) \/ (NamesTwo(m) /\ Twins(Ruling!Normalized(m, cs)))
<1> DEFINE n == Ruling!Normalized(m, cs)
<1>1. PICK weekly \in BOOLEAN :
        /\ IsList(n)
        /\ \A k \in DOMAIN n : \E i \in DOMAIN cs :
             Goes(m, cs[i], weekly) # None /\ n[k] = Treated(m, cs[i], weekly)
        /\ \A i \in DOMAIN cs : Goes(m, cs[i], weekly) # None =>
             \E k \in DOMAIN n : n[k] = Treated(m, cs[i], weekly)
        /\ \A k, p \in DOMAIN n : n[k] = n[p] => k = p
  BY NormalizedIs
<1> HIDE DEF n
<1>2. ASSUME NEW k \in StatsIn(n)
      PROVE  \E i \in DOMAIN cs :
               /\ Goes(m, cs[i], weekly) # None /\ n[k] = Treated(m, cs[i], weekly)
               /\ cs[i].name \in HourTools /\ Goes(m, cs[i], weekly).name = "compute_statistics"
  <2>1. k \in DOMAIN n /\ n[k].name = "compute_statistics"
    BY DEF StatsIn
  <2>2. PICK i \in DOMAIN cs : Goes(m, cs[i], weekly) # None /\ n[k] = Treated(m, cs[i], weekly)
    BY <1>1, <2>1
  <2>3. Treated(m, cs[i], weekly).name = "compute_statistics"
    BY <2>1, <2>2
  <2>4. cs[i].name \in HourTools /\ Goes(m, cs[i], weekly).name = "compute_statistics"
    BY <2>2, <2>3, TreatedName DEF HourTools
  <2> QED
    BY <2>2, <2>4
\* If the statistics come from one call, they are one.
<1> DEFINE makes(i) ==
      /\ Goes(m, cs[i], weekly) # None /\ cs[i].name \in HourTools
      /\ Goes(m, cs[i], weekly).name = "compute_statistics"
<1>3. ASSUME \A i, j \in DOMAIN cs : makes(i) /\ makes(j) => i = j PROVE Alone(n)
  <2>1. ASSUME NEW k \in StatsIn(n), NEW p \in StatsIn(n) PROVE k = p
    <3>1. PICK i \in DOMAIN cs : makes(i) /\ n[k] = Treated(m, cs[i], weekly)
      BY <1>2
    <3>2. PICK j \in DOMAIN cs : makes(j) /\ n[p] = Treated(m, cs[j], weekly)
      BY <1>2
    <3> HIDE DEF makes
    <3>3. i = j
      BY <1>3, <3>1, <3>2
    <3>4. k \in DOMAIN n /\ p \in DOMAIN n /\ n[k] = n[p]
      BY <3>1, <3>2, <3>3 DEF StatsIn
    <3> QED
      BY <1>1, <3>4
  <2> QED
    BY <2>1 DEF Alone
<1>4. CASE Plain(cs)
  <2>1. \A i, j \in DOMAIN cs : makes(i) /\ makes(j) => i = j
    BY <1>4 DEF Plain
  <2> HIDE DEF makes
  <2>2. Alone(n)
    BY <1>3, <2>1
  <2> QED
    BY <2>2 DEF n
<1>5. CASE Pairs(m, cs)
  <2>1. /\ NamesTwo(m) /\ DOMAIN cs = {1, 2}
        /\ cs[1].name = "compute_statistics" /\ cs[2].name = "compute_statistics"
        /\ Aligned(cs[1].args, cs[2].args)
    BY <1>5 DEF Pairs
  <2>2. CASE "detail" \in m
    <3>1. \A i \in DOMAIN cs : Goes(m, cs[i], weekly).name = "query_timesheet"
      BY <2>1, <2>2, DetailIs
    <3>2. \A i \in DOMAIN cs : ~makes(i)
      BY <3>1
    <3> HIDE DEF makes
    <3>3. Alone(n)
      BY <1>3, <3>2
    <3> QED
      BY <3>3 DEF n
  <2>3. CASE Goes(m, cs[1], weekly) = None \/ Goes(m, cs[2], weekly) = None
    <3>1. ~makes(1) \/ ~makes(2)
      BY <2>3
    <3> HIDE DEF makes
    <3>2. \A i, j \in DOMAIN cs : makes(i) /\ makes(j) => i = j
      BY <2>1, <3>1
    <3>3. Alone(n)
      BY <1>3, <3>2
    <3> QED
      BY <3>3 DEF n
  <2>4. CASE "detail" \notin m /\ Goes(m, cs[1], weekly) # None /\ Goes(m, cs[2], weekly) # None
    <3> DEFINE x == Treated(m, cs[1], weekly)
    <3> DEFINE y == Treated(m, cs[2], weekly)
    <3>1. PICK k \in DOMAIN n : n[k] = x
      BY <1>1, <2>1, <2>4
    <3>2. PICK p \in DOMAIN n : n[p] = y
      BY <1>1, <2>1, <2>4
    <3>3. Apart(x.args, y.args)
      BY <2>1, <2>4, TreatedApart
    <3>4. \A q \in DOMAIN n : n[q] = x \/ n[q] = y
      BY <1>1, <2>1
    <3>5. x.name = "compute_statistics" /\ y.name = "compute_statistics"
      <4>1. ASSUME NEW i \in {1, 2} PROVE Treated(m, cs[i], weekly).name = "compute_statistics"
        <5> DEFINE f == Ruling!Followed(m, cs[i])
        <5>1. f.name = "compute_statistics"
          BY <2>1, FollowedIs
        <5>2. Goes(m, cs[i], weekly) = Ruling!Routed(m, f, weekly)
          BY DEF Goes
        <5>3. Goes(m, cs[i], weekly) # None
          BY <2>4
        <5> HIDE DEF f
        <5>4. Ruling!Routed(m, f, weekly) = f
          BY <2>4, <5>1, <5>2, <5>3, RoutedIs
        <5> QED
          BY <5>1, <5>2, <5>3, <5>4, TreatedName
      <4> QED
        BY <4>1
    <3> HIDE DEF x, y
    <3>6. x # y
      <4>1. \A z : Alike(z, z, "member") /\ Alike(z, z, "project") /\ Alike(z, z, "dept")
        BY DEF Alike
      <4> QED
        BY <3>3, <4>1 DEF Apart
    <3>7. k # p /\ Apart(n[k].args, n[p].args)
      BY <3>1, <3>2, <3>3, <3>6
    <3>8. StatsIn(n) = {k, p}
      <4>1. k \in StatsIn(n) /\ p \in StatsIn(n)
        BY <3>1, <3>2, <3>5 DEF StatsIn
      <4>2. ASSUME NEW q \in StatsIn(n) PROVE q = k \/ q = p
        <5>1. q \in DOMAIN n
          BY DEF StatsIn
        <5> QED
          BY <1>1, <3>1, <3>2, <3>4, <5>1
      <4> QED
        BY <4>1, <4>2
    <3>9. Twins(n)
      BY <3>7, <3>8 DEF Twins
    <3> QED
      BY <2>1, <3>9 DEF n
  <2> QED
    BY <2>2, <2>3, <2>4 DEF n
<1> QED
  BY <1>4, <1>5 DEF n

LEMMA NormalizedRight ==
    ASSUME NEW m, NEW cs, IsList(cs), \A i \in DOMAIN cs : Proper(cs[i]), LastIs(last), Personal(m)
    PROVE  LET n == Ruling!Normalized(m, cs)
           IN  \A k \in DOMAIN n : Right(Ruling!Colleague(m), n[k])
<1> DEFINE n == Ruling!Normalized(m, cs)
<1>1. PICK weekly \in BOOLEAN : \A k \in DOMAIN n : \E i \in DOMAIN cs :
        Goes(m, cs[i], weekly) # None /\ n[k] = Treated(m, cs[i], weekly)
  BY NormalizedIs
<1> HIDE DEF n
<1>2. ASSUME NEW k \in DOMAIN n PROVE Right(Ruling!Colleague(m), n[k])
  <2>1. PICK i \in DOMAIN cs : Goes(m, cs[i], weekly) # None /\ n[k] = Treated(m, cs[i], weekly)
    BY <1>1
  <2>2. Proper(cs[i])
    OBVIOUS
  <2> QED
    BY <2>1, <2>2, TreatedRight
<1> QED
  BY <1>2 DEF n

-----------------------------------------------------------------------------
(* The calls the words of a message force.                                 *)

\* Arguments for nobody in particular.
Bare(as) == "user" \notin DOMAIN as /\ "member" \notin DOMAIN as

LEMMA BareWith ==
    ASSUME NEW as, NEW more, Bare(as), Bare(more)
    PROVE  Bare(Ruling!With(as, more))
<1>1. DOMAIN Ruling!With(as, more) = DOMAIN as \cup DOMAIN more
  BY WithIs
<1> QED
  BY <1>1 DEF Bare

LEMMA BareField ==
    ASSUME NEW key, NEW value, key # "user", key # "member"
    PROVE  Bare(Ruling!Field(key, value))
<1>1. DOMAIN Ruling!Field(key, value) = {key}
  BY FieldIs
<1> QED
  BY <1>1 DEF Bare

LEMMA BareDays == \A x, y : Bare(Ruling!Between(x, y))
<1>1. ASSUME NEW x, NEW y PROVE Bare(Ruling!Between(x, y))
  <2>1. DOMAIN Ruling!Between(x, y) = {"start", "end"}
    BY BetweenIs
  <2> QED
    BY <2>1 DEF Bare
<1> QED
  BY <1>1

\* A week, a year, a kind: nobody in particular.
LEMMA BareIs ==
    /\ Bare(Ruling!Nothing) /\ Bare(Ruling!ThisWeek) /\ Bare(Ruling!ThisYear)
    /\ \A m : Bare(Ruling!Week(m))
    /\ \A t : Bare(Ruling!Type(t))
<1>1. Bare(Ruling!Nothing)
  BY NothingIs DEF Bare
<1>2. Bare(Ruling!ThisWeek)
  BY BareDays DEF Ruling!ThisWeek
<1>3. Bare(Ruling!ThisYear)
  BY BareDays DEF Ruling!ThisYear
<1>4. \A m : Bare(Ruling!Week(m))
  BY WeekIs DEF Bare
<1>5. \A t : Bare(Ruling!Type(t))
  BY BareField DEF Ruling!Type
<1> QED
  BY <1>1, <1>2, <1>3, <1>4, <1>5

LEMMA OneCallIs ==
    ASSUME NEW c
    PROVE  IsList(<<c>>) /\ DOMAIN <<c>> = {1} /\ <<c>>[1] = c /\ Plain(<<c>>)
<1> DEFINE s == <<c>>
<1>1. DOMAIN s = 1..1 /\ s[1] = c
  OBVIOUS
<1>2. s = [i \in 1..1 |-> s[i]]
  OBVIOUS
<1> HIDE DEF s
<1>3. IsList(s)
  BY <1>2, ListMade
<1>4. DOMAIN s = {1}
  BY <1>1
<1> QED
  BY <1>1, <1>3, <1>4 DEF s, Plain

LEMMA TwoCallsAre ==
    ASSUME NEW c, NEW d
    PROVE  IsList(<<c, d>>) /\ DOMAIN <<c, d>> = {1, 2} /\ <<c, d>>[1] = c /\ <<c, d>>[2] = d
<1> DEFINE s == <<c, d>>
<1>1. DOMAIN s = 1..2 /\ s[1] = c /\ s[2] = d
  OBVIOUS
<1>2. s = [i \in 1..2 |-> s[i]]
  OBVIOUS
<1> HIDE DEF s
<1>3. IsList(s)
  BY <1>2, ListMade
<1>4. DOMAIN s = {1, 2}
  BY <1>1
<1> QED
  BY <1>1, <1>3, <1>4 DEF s

\* Calls a turn may begin with.
Begun(m, cs) == IsList(cs) /\ \A i \in DOMAIN cs : Proper(cs[i])
Counted(m, cs) == Plain(cs) \/ Pairs(m, cs)

LEMMA OneBegun ==
    ASSUME NEW m, NEW n, NEW as, n # "save_workhour", Bare(as)
    PROVE  Begun(m, <<Ruling!Call(n, as)>>) /\ Counted(m, <<Ruling!Call(n, as)>>)
<1> DEFINE c == Ruling!Call(n, as)
<1>1. c.name = n /\ c.args = as
  BY CallIs
<1> HIDE DEF c
<1>2. Proper(c)
  BY <1>1 DEF Proper, Unjoined, Bare
<1>3. IsList(<<c>>) /\ DOMAIN <<c>> = {1} /\ <<c>>[1] = c /\ Plain(<<c>>)
  BY OneCallIs
<1>4. Begun(m, <<c>>) /\ Counted(m, <<c>>)
  BY <1>2, <1>3 DEF Begun, Counted
<1> QED
  BY <1>4 DEF c

LEMMA TwoBegun ==
    ASSUME NEW m, NEW n, NEW k, NEW as, NEW bs, Bare(as), Bare(bs),
           n \notin {"save_workhour", "compute_statistics", "query_timesheet"}, k # "save_workhour"
    PROVE  LET cs == <<Ruling!Call(n, as), Ruling!Call(k, bs)>> IN Begun(m, cs) /\ Counted(m, cs)
<1> DEFINE c == Ruling!Call(n, as)
<1> DEFINE d == Ruling!Call(k, bs)
<1>1. c.name = n /\ c.args = as /\ d.name = k /\ d.args = bs
  BY CallIs
<1> HIDE DEF c, d
<1> DEFINE cs == <<c, d>>
<1>2. Proper(c) /\ Proper(d)
  BY <1>1 DEF Proper, Unjoined, Bare
<1>3. IsList(cs) /\ DOMAIN cs = {1, 2} /\ cs[1] = c /\ cs[2] = d
  BY TwoCallsAre
<1> HIDE DEF cs
<1>4. Begun(m, cs)
  BY <1>2, <1>3 DEF Begun
<1>5. Plain(cs)
  BY <1>1, <1>3 DEF Plain, HourTools
<1> QED
  BY <1>4, <1>5 DEF c, d, cs, Counted

LEMMA PairBegun ==
    ASSUME NEW m, NamesTwo(m), NEW as, Bare(as), {"start", "end"} \subseteq DOMAIN as
    PROVE  LET cs == [i \in 1..2 |-> Ruling!Statistics(Ruling!With(as, Ruling!Field("project", i)))]
           IN  Begun(m, cs) /\ Counted(m, cs)
<1> DEFINE a(i) == Ruling!With(as, Ruling!Field("project", i))
<1> DEFINE cs == [i \in 1..2 |-> Ruling!Statistics(a(i))]
<1>1. ASSUME NEW i \in 1..2
      PROVE  /\ "project" \in DOMAIN a(i) /\ a(i)["project"] = i
             /\ \A k : k # "project" => Alike(a(i), as, k)
             /\ Bare(a(i))
  <2>1. Bare(Ruling!Field("project", i))
    BY BareField
  <2>2. Bare(a(i))
    BY <2>1, BareWith
  <2>3. /\ "project" \in DOMAIN a(i) /\ a(i)["project"] = i
        /\ \A k : k # "project" => Alike(a(i), as, k)
    BY WithField
  <2> QED
    BY <2>2, <2>3
<1> HIDE DEF a
<1>2. \A i \in 1..2 : cs[i].name = "compute_statistics" /\ cs[i].args = a(i)
  BY StatisticsIs
<1>3. IsList(cs) /\ DOMAIN cs = 1..2
  <2>1. cs = [i \in 1..2 |-> cs[i]]
    OBVIOUS
  <2> HIDE DEF cs
  <2> QED
    BY <2>1, ListMade
<1> HIDE DEF cs
<1>4. Begun(m, cs)
  BY <1>1, <1>2, <1>3 DEF Begun, Proper, Unjoined, Bare
<1>5. Aligned(a(1), a(2))
  <2>0. 1 \in 1..2 /\ 2 \in 1..2
    OBVIOUS
  <2>1. \A i \in 1..2 : Alike(a(i), as, "start") /\ Alike(a(i), as, "end")
    BY <1>1
  <2>2. a(1)["project"] # a(2)["project"] /\ "project" \in DOMAIN a(1) /\ "project" \in DOMAIN a(2)
    BY <1>1
  <2> QED
    BY <2>0, <2>1, <2>2 DEF Aligned, Alike
<1>6. Pairs(m, cs)
  BY <1>2, <1>3, <1>5 DEF Pairs
<1> QED
  BY <1>4, <1>6 DEF cs, Counted, a

\* The calls the words force.
LEMMA ForcedIs ==
    ASSUME NEW m, Ruling!Forced(m) # None
    PROVE  Begun(m, Ruling!Forced(m)) /\ Counted(m, Ruling!Forced(m))
<1> DEFINE F == Ruling!Forced(m)
<1> DEFINE week == "weekly" \in m /\ Ruling!Week(m) # Ruling!Nothing
<1> DEFINE as1 == Ruling!Field("fill", Today)
<1> DEFINE as2 == Ruling!With(Ruling!Type("project_hours"), Ruling!ThisWeek)
<1> DEFINE days == Ruling!Between(Ruling!First(Ruling!Months(m)[1]), Ruling!LastDay(Ruling!Months(m)[1]))
<1> DEFINE as3 == Ruling!With(Ruling!With(Ruling!Type("user_hours"), Ruling!Field("project", 0)), days)
<1> DEFINE type == Ruling!With(Ruling!Type(Ruling!Inferred(m, Ruling!Nothing)), Ruling!ThisYear)
<1> DEFINE project == IF "project" \in m THEN Ruling!Field("project", 1) ELSE Ruling!Nothing
<1> DEFINE dept == IF "dept" \in m THEN Ruling!Field("dept", 1) ELSE Ruling!Nothing
<1> DEFINE as4 == Ruling!With(Ruling!With(type, project), dept)
<1> DEFINE as5 == Ruling!Field("project", 1)
<1> DEFINE as6 == Ruling!With(Ruling!Type("user_hours"), Ruling!ThisWeek)
<1>1. Bare(as1) /\ Bare(as5) /\ Bare(Ruling!Field("project", 0)) /\ Bare(Ruling!Field("dept", 1))
  BY BareField
<1>2. Bare(as2) /\ Bare(as6)
  BY BareIs, BareWith
<1>3. Bare(as3)
  <2>1. Bare(days)
    BY BareDays
  <2> HIDE DEF days
  <2>2. Bare(Ruling!With(Ruling!Type("user_hours"), Ruling!Field("project", 0)))
    BY <1>1, BareIs, BareWith
  <2> QED
    BY <2>1, <2>2, BareWith
<1>4. Bare(type)
  BY BareIs, BareWith
<1>5. Bare(as4)
  <2>1. Bare(project) /\ Bare(dept)
    BY <1>1, BareIs
  <2> HIDE DEF type, project, dept
  <2>2. Bare(Ruling!With(type, project))
    BY <1>4, <2>1, BareWith
  <2> QED
    BY <2>1, <2>2, BareWith
<1>6. Bare(Ruling!Week(m))
  BY BareIs
<1>7. {"start", "end"} \subseteq DOMAIN as2
  <2>1. \A x, y : {"start", "end"} \subseteq DOMAIN Ruling!With(Ruling!Type("project_hours"), Ruling!Between(x, y))
    BY WithDays
  <2> QED
    BY <2>1 DEF Ruling!ThisWeek
<1> DEFINE pair == [i \in 1..2 |-> Ruling!Statistics(Ruling!With(as2, Ruling!Field("project", i)))]
<1>8. \/ F = <<Ruling!Call("suggest_workhour", as1)>>
      \/ NamesTwo(m) /\ F = pair
      \/ F = <<Ruling!Call("compute_statistics", as3)>>
      \/ F = <<Ruling!Call("compute_statistics", as4)>>
      \/ F = <<Ruling!Call("query_project", as5), Ruling!Call("compute_statistics", as6)>>
      \/ F = <<Ruling!Call("query_project", as5), Ruling!Call("generate_weekly_report", Ruling!Week(m))>>
      \/ F = <<Ruling!Call("generate_weekly_report", Ruling!Week(m))>>
      \/ F = <<Ruling!Call("compute_statistics", type)>>
  <2> DEFINE Q == "ratio" \in m /\ ~Ruling!HasDateEvidence(m)
  <2> HIDE DEF as1, as3, as4, as5, type, Q
  <2>1. F = IF "suggest" \in m THEN <<Ruling!Call("suggest_workhour", as1)>>
            ELSE IF NamesTwo(m) /\ "aggregate" \in m THEN pair
            ELSE IF {"aggregate", "unowned"} \subseteq m /\ Ruling!Months(m) # <<>> THEN
                <<Ruling!Call("compute_statistics", as3)>>
            ELSE IF Q THEN <<Ruling!Call("compute_statistics", as4)>>
            ELSE IF week /\ {"project", "people"} \subseteq m THEN
                <<Ruling!Call("query_project", as5), Ruling!Call("compute_statistics", as6)>>
            ELSE IF week /\ {"project", "first"} \subseteq m THEN
                <<Ruling!Call("query_project", as5), Ruling!Call("generate_weekly_report", Ruling!Week(m))>>
            ELSE IF week /\ "projectId" \in m THEN
                <<Ruling!Call("generate_weekly_report", Ruling!Week(m))>>
            ELSE IF {"aggregate", "thisYear"} \subseteq m THEN <<Ruling!Call("compute_statistics", type)>>
            ELSE None
    BY DEF Ruling!Forced, Ruling!Statistics, NamesTwo, as1, as3, as4, as5, type, Q
  <2>2. F # None
    OBVIOUS
  <2> HIDE DEF F, pair, as6, week
  <2> QED
    BY <2>1, <2>2
<1> HIDE DEF F, as1, as2, as3, as4, as5, as6, type
<1>9. NamesTwo(m) => Begun(m, pair) /\ Counted(m, pair)
  BY <1>2, <1>7, PairBegun
<1> HIDE DEF pair
<1>10. Begun(m, F) /\ Counted(m, F)
  <2>1. CASE F = <<Ruling!Call("suggest_workhour", as1)>>
    BY <1>1, <2>1, OneBegun
  <2>2. CASE NamesTwo(m) /\ F = pair
    BY <1>9, <2>2
  <2>3. CASE F = <<Ruling!Call("compute_statistics", as3)>>
    BY <1>3, <2>3, OneBegun
  <2>4. CASE F = <<Ruling!Call("compute_statistics", as4)>>
    BY <1>5, <2>4, OneBegun
  <2>5. CASE F = <<Ruling!Call("query_project", as5), Ruling!Call("compute_statistics", as6)>>
    BY <1>1, <1>2, <2>5, TwoBegun
  <2>6. CASE F = <<Ruling!Call("query_project", as5), Ruling!Call("generate_weekly_report", Ruling!Week(m))>>
    BY <1>1, <1>6, <2>6, TwoBegun
  <2>7. CASE F = <<Ruling!Call("generate_weekly_report", Ruling!Week(m))>>
    BY <1>6, <2>7, OneBegun
  <2>8. CASE F = <<Ruling!Call("compute_statistics", type)>>
    BY <1>4, <2>8, OneBegun
  <2> QED
    BY <1>8, <2>1, <2>2, <2>3, <2>4, <2>5, <2>6, <2>7, <2>8
<1> QED
  BY <1>10 DEF F

\* The calls the model proposes.
LEMMA ProposedIs ==
    ASSUME NEW m, NEW cs \in ModelCalls
    PROVE  Begun(m, cs) /\ (Ruling!Len(cs) = 1 => Counted(m, cs))
<1>1. /\ cs \in Seq({cs[i] : i \in DOMAIN cs})
      /\ \A i \in DOMAIN cs :
           cs[i].name # "save_workhour" /\ ~({"user", "member"} \subseteq DOMAIN cs[i].args)
  BY RulesAssumption
<1>2. IsList(cs)
  BY <1>1 DEF IsList
<1>3. Begun(m, cs)
  BY <1>1, <1>2 DEF Begun, Proper, Unjoined
<1>4. ASSUME Len(cs) = 1 PROVE Plain(cs)
  <2>1. DOMAIN cs = 1..1
    BY <1>2, <1>4, ListIs
  <2> QED
    BY <2>1 DEF Plain
<1>5. Ruling!Len(cs) = Len(cs)
  OBVIOUS
<1> QED
  BY <1>3, <1>4, <1>5 DEF Counted

-----------------------------------------------------------------------------
(* A report completed, and parties compared.                               *)

LEMMA AppendIs ==
    ASSUME NEW cs, IsList(cs), NEW c
    PROVE  LET r == Append(cs, c)
           IN  /\ IsList(r) /\ DOMAIN r = 1..(Len(cs) + 1) /\ r[Len(cs) + 1] = c
               /\ \A i \in DOMAIN cs : i \in DOMAIN r /\ r[i] = cs[i]
<1> DEFINE S == {cs[i] : i \in DOMAIN cs} \cup {c}
<1> DEFINE r == Append(cs, c)
<1>1. Len(cs) \in Nat /\ DOMAIN cs = 1..Len(cs)
  BY ListIs
<1>2. cs \in Seq(S) /\ c \in S
  <2>1. cs \in [1..Len(cs) -> S]
    BY <1>1 DEF IsList
  <2> QED
    BY <1>1, <2>1
<1> HIDE DEF S
<1>3. /\ r \in Seq(S) /\ Len(r) = Len(cs) + 1
      /\ \A i \in 1..Len(cs) : r[i] = cs[i]
      /\ r[Len(cs) + 1] = c
  BY <1>2, AppendProperties
<1> HIDE DEF r
<1>4. DOMAIN r = 1..(Len(cs) + 1)
  BY <1>3
<1>5. r = [i \in 1..(Len(cs) + 1) |-> r[i]]
  BY <1>3
<1>6. IsList(r)
  BY <1>1, <1>5, ListMade
<1>7. \A i \in DOMAIN cs : i \in DOMAIN r /\ r[i] = cs[i]
  BY <1>1, <1>3, <1>4
<1> QED
  BY <1>3, <1>4, <1>6, <1>7 DEF r

\* The statistics stay when a report is added.
LEMMA CompletedStats ==
    ASSUME NEW m, NEW cs, IsList(cs), "people" \notin m
    PROVE  LET r == Ruling!WeeklyCompleted(m, cs)
           IN  /\ IsList(r) /\ StatsIn(r) = StatsIn(cs)
               /\ \A i \in StatsIn(cs) : i \in DOMAIN r /\ r[i] = cs[i]
               /\ "first" \notin m => r = cs
<1> DEFINE r == Ruling!WeeklyCompleted(m, cs)
<1> DEFINE c == Ruling!Call("generate_weekly_report", Ruling!Week(m))
<1> DEFINE a == Append(cs, c)
<1>1. r = cs \/ (r = a /\ "first" \in m)
  BY DEF Ruling!WeeklyCompleted
<1>2. c.name = "generate_weekly_report"
  BY CallIs
<1> HIDE DEF c
<1>3. /\ IsList(a) /\ DOMAIN a = 1..(Len(cs) + 1) /\ a[Len(cs) + 1] = c
      /\ \A i \in DOMAIN cs : i \in DOMAIN a /\ a[i] = cs[i]
  BY AppendIs
<1>4. Len(cs) \in Nat /\ DOMAIN cs = 1..Len(cs)
  BY ListIs
<1> HIDE DEF a, r
<1>5. StatsIn(a) = StatsIn(cs)
  <2>1. ASSUME NEW i \in StatsIn(a) PROVE i \in StatsIn(cs)
    <3>1. i \in 1..(Len(cs) + 1) /\ a[i].name = "compute_statistics"
      BY <1>3 DEF StatsIn
    <3>2. i # Len(cs) + 1
      BY <1>2, <1>3, <3>1
    <3>3. i \in DOMAIN cs
      BY <1>4, <3>1, <3>2
    <3> QED
      BY <1>3, <3>1, <3>3 DEF StatsIn
  <2>2. ASSUME NEW i \in StatsIn(cs) PROVE i \in StatsIn(a)
    BY <1>3 DEF StatsIn
  <2> QED
    BY <2>1, <2>2
<1>6. \A i \in StatsIn(cs) : i \in DOMAIN cs
  BY DEF StatsIn
<1>7. CASE r = cs
  BY <1>6, <1>7 DEF r
<1>8. CASE r = a /\ "first" \in m
  BY <1>3, <1>5, <1>6, <1>8 DEF r
<1> QED
  BY <1>1, <1>7, <1>8

LEMMA TwinsStay ==
    ASSUME NEW cs, NEW r, StatsIn(r) = StatsIn(cs), \A i \in StatsIn(cs) : i \in DOMAIN r /\ r[i] = cs[i]
    PROVE  (Alone(cs) => Alone(r)) /\ (Twins(cs) => Twins(r))
<1>1. ASSUME Twins(cs) PROVE Twins(r)
  <2>1. PICK i \in DOMAIN cs, j \in DOMAIN cs :
          i # j /\ StatsIn(cs) = {i, j} /\ Apart(cs[i].args, cs[j].args)
    BY <1>1 DEF Twins
  <2>2. i \in DOMAIN r /\ r[i] = cs[i] /\ j \in DOMAIN r /\ r[j] = cs[j]
    BY <2>1
  <2> QED
    BY <2>1, <2>2 DEF Twins
<1>2. Alone(cs) => Alone(r)
  BY DEF Alone
<1> QED
  BY <1>1, <1>2

\* Statistics of one kind about one party.
Party(as, gone, t, key, value) ==
    Ruling!With(Ruling!Without(as, gone), Ruling!With(Ruling!Type(t), Ruling!Field(key, value)))

\* What tells the parties apart is no part of the kind or the days.
Telling(gone, key) == key \notin {"type", "start", "end"} /\ gone \cap {"type", "start", "end"} = {}

LEMMA PartyIs ==
    ASSUME NEW as, NEW gone, NEW t, NEW key, NEW value, Telling(gone, key)
    PROVE  LET p == Party(as, gone, t, key, value)
           IN  /\ key \in DOMAIN p /\ p[key] = value
               /\ Alike(p, as, "start") /\ Alike(p, as, "end")
               /\ \A k \in gone : k # key => k \notin DOMAIN p
               /\ \A k : k \notin gone \cup {key, "type"} => Alike(p, as, k)
<1> DEFINE f == Ruling!Type(t)
<1> DEFINE w == Ruling!With(f, Ruling!Field(key, value))
<1> DEFINE o == Ruling!Without(as, gone)
<1> DEFINE p == Ruling!With(o, w)
<1>0. key \notin {"type", "start", "end"} /\ gone \cap {"type", "start", "end"} = {}
  BY DEF Telling
<1>1. DOMAIN f = {"type"}
  BY FieldIs DEF Ruling!Type
<1> HIDE DEF f
<1>2. key \in DOMAIN w /\ w[key] = value /\ \A k : k # key => Alike(w, f, k)
  BY WithField
<1> HIDE DEF w
<1>3. DOMAIN w = {key, "type"}
  <2>1. \A k : k # key => (k \in DOMAIN w <=> k \in DOMAIN f)
    BY <1>2 DEF Alike
  <2> QED
    BY <1>1, <1>2, <2>1
<1>4. /\ \A k \in gone : k \notin DOMAIN o
      /\ \A k : k \notin gone => Alike(o, as, k)
  BY WithoutAlike
<1> HIDE DEF o
<1>5. /\ DOMAIN p = DOMAIN o \cup DOMAIN w
      /\ \A k \in DOMAIN w : p[k] = w[k]
      /\ \A k \in DOMAIN o : k \notin DOMAIN w => p[k] = o[k]
  BY WithIs
<1>6. \A k : k \notin DOMAIN w => Alike(p, o, k)
  BY WithAlike
<1> HIDE DEF p
<1>7. key \in DOMAIN p /\ p[key] = value
  BY <1>2, <1>5
<1>8. \A k : k \notin gone \cup {key, "type"} => Alike(p, as, k)
  BY <1>3, <1>4, <1>6, AlikeIs
<1>9. \A k \in gone : k # key => k \notin DOMAIN p
  BY <1>0, <1>3, <1>4, <1>5
<1>10. Alike(p, as, "start") /\ Alike(p, as, "end")
  BY <1>0, <1>8
<1>11. p = Party(as, gone, t, key, value)
  BY DEF p, o, w, f, Party
<1> QED
  BY <1>7, <1>8, <1>9, <1>10, <1>11

\* Whoever is compared, the two are not the same, and their days are.
LEMMA PartiesAre ==
    ASSUME NEW m, Compares(m), NEW as
    PROVE  LET ps == Ruling!Parties(m, as)
           IN  IsList(ps) /\ Len(ps) = 2 /\ DOMAIN ps = {1, 2} /\ Apart(ps[1], ps[2])
<1> DEFINE ps == Ruling!Parties(m, as)
<1>1. CASE {"versus", "colleague", "dept"} \subseteq m
  <2> DEFINE x == Party(as, {"user", "dept"}, "user_hours", "member", 1)
  <2> DEFINE y == Party(as, {"user", "member"}, "department_hours", "dept", 1)
  <2>1. ps = <<x, y>>
    BY <1>1 DEF Ruling!Parties, Party
  <2>2. "member" \in DOMAIN x /\ Alike(x, as, "start") /\ Alike(x, as, "end")
    <3> DEFINE gone == {"user", "dept"}
    <3>1. Telling(gone, "member")
      BY DEF Telling
    <3> DEFINE z == Party(as, gone, "user_hours", "member", 1)
    <3>2. x = z
      OBVIOUS
    <3> HIDE DEF gone
    <3>3. /\ "member" \in DOMAIN z /\ z["member"] = 1
          /\ Alike(z, as, "start") /\ Alike(z, as, "end")
          /\ \A k \in gone : k # "member" => k \notin DOMAIN z
          /\ \A k : k \notin gone \cup {"member", "type"} => Alike(z, as, k)
      BY <3>1, PartyIs
    <3> HIDE DEF x, z
    <3> QED
      BY <3>2, <3>3
  <2>3. Alike(y, as, "start") /\ Alike(y, as, "end") /\ "member" \notin DOMAIN y
    <3> DEFINE gone == {"user", "member"}
    <3>1. Telling(gone, "dept") /\ "member" \in gone
      BY DEF Telling
    <3> DEFINE z == Party(as, gone, "department_hours", "dept", 1)
    <3>2. y = z
      OBVIOUS
    <3> HIDE DEF gone
    <3>3. /\ "dept" \in DOMAIN z /\ z["dept"] = 1
          /\ Alike(z, as, "start") /\ Alike(z, as, "end")
          /\ \A k \in gone : k # "dept" => k \notin DOMAIN z
          /\ \A k : k \notin gone \cup {"dept", "type"} => Alike(z, as, k)
      BY <3>1, PartyIs
    <3> HIDE DEF y, z
    <3> QED
      BY <3>1, <3>2, <3>3
  <2> HIDE DEF x, y, ps
  <2>4. ~Alike(x, y, "member")
    BY <2>2, <2>3 DEF Alike
  <2>5. Alike(x, y, "start") /\ Alike(x, y, "end")
    BY <2>2, <2>3 DEF Alike
  <2>6. IsList(ps) /\ DOMAIN ps = {1, 2} /\ ps[1] = x /\ ps[2] = y
    BY <2>1, TwoCallsAre
  <2>7. Len(ps) = 2
    BY <2>1
  <2> QED
    BY <2>4, <2>5, <2>6, <2>7 DEF Apart, ps
<1>2. ASSUME NEW t, NEW key \in {"member", "project"},
             ps = [i \in 1..2 |-> Party(as, {"user"}, t, key, i)]
      PROVE  IsList(ps) /\ Len(ps) = 2 /\ DOMAIN ps = {1, 2} /\ Apart(ps[1], ps[2])
  <2>1. ASSUME NEW i \in 1..2
        PROVE  LET x == Party(as, {"user"}, t, key, i)
               IN key \in DOMAIN x /\ x[key] = i /\ Alike(x, as, "start") /\ Alike(x, as, "end")
    <3> DEFINE gone == {"user"}
    <3> DEFINE x == Party(as, gone, t, key, i)
    <3>1. Telling(gone, key)
      BY DEF Telling
    <3> HIDE DEF gone
    <3>2. /\ key \in DOMAIN x /\ x[key] = i
          /\ Alike(x, as, "start") /\ Alike(x, as, "end")
          /\ \A k \in gone : k # key => k \notin DOMAIN x
          /\ \A k : k \notin gone \cup {key, "type"} => Alike(x, as, k)
      BY <3>1, PartyIs
    <3> QED
      BY <3>2 DEF gone
  <2> HIDE DEF ps
  <2>2. \A i \in 1..2 : ps[i] = Party(as, {"user"}, t, key, i)
    BY <1>2
  <2>3. ps = [i \in 1..2 |-> ps[i]]
    BY <1>2
  <2>4. IsList(ps) /\ Len(ps) = 2 /\ DOMAIN ps = 1..2
    BY <2>3, ListMade
  <2>5. 1 \in 1..2 /\ 2 \in 1..2
    OBVIOUS
  <2> DEFINE x == ps[1]
  <2> DEFINE y == ps[2]
  <2>6. \A i \in 1..2 : key \in DOMAIN ps[i] /\ ps[i][key] = i /\ Alike(ps[i], as, "start") /\ Alike(ps[i], as, "end")
    BY <2>1, <2>2
  <2>7. /\ key \in DOMAIN x /\ x[key] = 1 /\ Alike(x, as, "start") /\ Alike(x, as, "end")
        /\ key \in DOMAIN y /\ y[key] = 2 /\ Alike(y, as, "start") /\ Alike(y, as, "end")
    BY <2>5, <2>6
  <2> HIDE DEF x, y
  <2>8. ~Alike(x, y, key)
    BY <2>7 DEF Alike
  <2>9. Alike(x, y, "start") /\ Alike(x, y, "end")
    BY <2>7 DEF Alike
  <2>10. Apart(x, y)
    BY <2>8, <2>9 DEF Apart
  <2>11. DOMAIN ps = {1, 2}
    BY <2>4
  <2> QED
    BY <2>4, <2>10, <2>11 DEF x, y
<1>3. CASE "versus" \notin m /\ "pair" \in m
  <2>1. ps = [i \in 1..2 |-> Party(as, {"user"}, "user_hours", "member", i)]
    BY <1>3 DEF Ruling!Parties, Party
  <2> HIDE DEF ps
  <2> QED
    BY <1>2, <2>1 DEF ps
<1>4. CASE "versus" \notin m /\ "pair" \notin m /\ "projects" \in m
  <2>1. ps = [i \in 1..2 |-> Party(as, {"user"}, "project_hours", "project", i)]
    BY <1>4 DEF Ruling!Parties, Party
  <2> HIDE DEF ps
  <2> QED
    BY <1>2, <2>1 DEF ps
<1> QED
  BY <1>1, <1>3, <1>4 DEF Compares

LEMMA OneIs ==
    ASSUME NEW cs, IsList(cs), NEW i, StatsIn(cs) = {i}
    PROVE  LET stats == Ruling!Those(cs, "compute_statistics") IN Len(stats) = 1 /\ stats[1] = cs[i]
<1> DEFINE stats == Ruling!Those(cs, "compute_statistics")
<1> DEFINE K == StatsIn(cs)
<1>1. /\ IsList(stats) /\ Len(stats) = Cardinality(K)
      /\ \A n \in DOMAIN stats : \E j \in K : stats[n] = cs[j]
  BY ThoseIs
<1>2. K = {i} /\ Cardinality(K) = 1
  BY FS_Singleton
<1> HIDE DEF stats, K
<1>3. DOMAIN stats = 1..1
  BY <1>1, <1>2, ListIs
<1>4. stats[1] = cs[i]
  BY <1>1, <1>2, <1>3
<1> QED
  BY <1>1, <1>2, <1>4 DEF stats

\* How many statistics there are.
LEMMA HowMany ==
    ASSUME NEW cs, IsList(cs), Alone(cs) \/ Twins(cs)
    PROVE  LET stats == Ruling!Those(cs, "compute_statistics")
           IN  \/ StatsIn(cs) = {} /\ Len(stats) = 0
               \/ \E i \in DOMAIN cs : StatsIn(cs) = {i} /\ Len(stats) = 1 /\ stats[1] = cs[i]
               \/ Twins(cs) /\ Len(stats) = 2
<1> DEFINE stats == Ruling!Those(cs, "compute_statistics")
<1>1. CASE StatsIn(cs) = {}
  <2>1. Len(stats) = 0
    BY <1>1, NoStatistics
  <2> QED
    BY <1>1, <2>1
<1>2. CASE Twins(cs)
  <2>1. PICK i \in DOMAIN cs, j \in DOMAIN cs : i # j /\ StatsIn(cs) = {i, j}
    BY <1>2 DEF Twins
  <2>2. Len(stats) = 2
    BY <2>1, TwoStatistics
  <2> QED
    BY <1>2, <2>2
<1>3. CASE Alone(cs) /\ StatsIn(cs) # {}
  <2>1. PICK i : StatsIn(cs) = {i}
    <3>1. PICK i \in StatsIn(cs) : TRUE
      BY <1>3
    <3>2. \A j \in StatsIn(cs) : j = i
      BY <1>3 DEF Alone
    <3>3. StatsIn(cs) = {i}
      BY <3>1, <3>2
    <3> QED
      BY <3>3
  <2>2. Len(stats) = 1 /\ stats[1] = cs[i]
    BY <2>1, OneIs
  <2>3. i \in DOMAIN cs
    BY <2>1 DEF StatsIn
  <2> HIDE DEF stats
  <2> QED
    BY <2>1, <2>2, <2>3 DEF stats
<1> QED
  BY <1>1, <1>2, <1>3

\* The parts that take the place of one call of statistics.
LEMMA StatisticsOf ==
    ASSUME NEW ps, IsList(ps)
    PROVE  LET r == [i \in DOMAIN ps |-> Ruling!Statistics(ps[i])]
           IN  /\ IsList(r) /\ Len(r) = Len(ps) /\ DOMAIN r = DOMAIN ps
               /\ \A i \in DOMAIN r : r[i].name = "compute_statistics" /\ r[i].args = ps[i]
<1> DEFINE r == [i \in DOMAIN ps |-> Ruling!Statistics(ps[i])]
<1>1. Len(ps) \in Nat /\ DOMAIN ps = 1..Len(ps)
  BY ListIs
<1>2. \A i \in DOMAIN ps : r[i].name = "compute_statistics" /\ r[i].args = ps[i]
  BY StatisticsIs
<1>3. r = [i \in 1..Len(ps) |-> r[i]]
  BY <1>1
<1>4. DOMAIN r = DOMAIN ps
  OBVIOUS
<1> HIDE DEF r
<1>5. IsList(r) /\ Len(r) = Len(ps)
  BY <1>1, <1>3, ListMade
<1> QED
  BY <1>2, <1>4, <1>5 DEF r

LEMMA ComparedIs ==
    ASSUME NEW m, NEW cs, IsList(cs), NEW i \in DOMAIN cs, StatsIn(cs) = {i}
    PROVE  LET ps == Ruling!Parties(m, cs[i].args)
           IN  Ruling!Compared(m, cs) =
                 IF Len(ps) > 1
                 THEN Ruling!Others(cs, "compute_statistics") \o [k \in DOMAIN ps |-> Ruling!Statistics(ps[k])]
                 ELSE cs
<1> DEFINE stats == Ruling!Those(cs, "compute_statistics")
<1>1. Len(stats) = 1 /\ stats[1] = cs[i]
  BY OneIs
<1> QED
  BY <1>1 DEF Ruling!Compared

LEMMA ComparedNot ==
    ASSUME NEW m, NEW cs, Len(Ruling!Those(cs, "compute_statistics")) # 1
    PROVE  Ruling!Compared(m, cs) = cs
BY DEF Ruling!Compared

\* A comparison has no statistics, or those of two parties.
LEMMA ComparedTwins ==
    ASSUME NEW m, NEW cs, IsList(cs), Alone(cs) \/ Twins(cs), Compares(m)
    PROVE  LET r == Ruling!Compared(m, cs) IN IsList(r) /\ (StatsIn(r) = {} \/ Twins(r))
<1> DEFINE stats == Ruling!Those(cs, "compute_statistics")
<1> DEFINE r == Ruling!Compared(m, cs)
<1>1. \/ StatsIn(cs) = {} /\ Len(stats) = 0
      \/ \E i \in DOMAIN cs : StatsIn(cs) = {i} /\ Len(stats) = 1 /\ stats[1] = cs[i]
      \/ Twins(cs) /\ Len(stats) = 2
  BY HowMany
<1>2. Len(stats) # 1 => r = cs
  BY ComparedNot
<1> HIDE DEF stats, r
<1>3. CASE StatsIn(cs) = {} /\ Len(stats) = 0
  BY <1>2, <1>3 DEF r
<1>4. CASE Twins(cs) /\ Len(stats) = 2
  BY <1>2, <1>4 DEF r
<1>5. ASSUME NEW i \in DOMAIN cs, StatsIn(cs) = {i} PROVE IsList(r) /\ Twins(r)
  <2> DEFINE ps == Ruling!Parties(m, cs[i].args)
  <2> DEFINE parts == [k \in DOMAIN ps |-> Ruling!Statistics(ps[k])]
  <2>1. IsList(ps) /\ Len(ps) = 2 /\ DOMAIN ps = {1, 2} /\ Apart(ps[1], ps[2])
    BY PartiesAre
  <2>2. r = IF Len(ps) > 1 THEN Ruling!Others(cs, "compute_statistics") \o parts ELSE cs
    BY <1>5, ComparedIs DEF r
  <2> HIDE DEF ps
  <2>3. /\ IsList(parts) /\ Len(parts) = Len(ps) /\ DOMAIN parts = DOMAIN ps
        /\ \A k \in DOMAIN parts : parts[k].name = "compute_statistics" /\ parts[k].args = ps[k]
    BY <2>1, StatisticsOf
  <2> HIDE DEF parts
  <2>0. AllStatistics(parts) /\ IsList(parts) /\ IsList(cs)
    BY <2>3 DEF AllStatistics
  <2> DEFINE q == Replaced(cs, parts)
  <2> DEFINE L == Before(cs)
  <2>4. /\ L \in Nat /\ IsList(q) /\ DOMAIN q = 1..(L + Len(parts))
        /\ \A k \in 1..L : q[k].name # "compute_statistics" /\ \E j \in DOMAIN cs : q[k] = cs[j]
        /\ \A k \in DOMAIN parts : L + k \in DOMAIN q /\ q[L + k] = parts[k]
        /\ StatsIn(q) = After(L, parts)
    BY <2>0, ReplacedIs
  <2>5. r = q
    BY <2>1, <2>2 DEF Replaced
  <2> HIDE DEF q, L
  <2>6. L + 1 \in DOMAIN q /\ q[L + 1] = parts[1] /\ L + 2 \in DOMAIN q /\ q[L + 2] = parts[2]
    BY <2>1, <2>3, <2>4
  <2>7. StatsIn(q) = {L + 1, L + 2} /\ L + 1 # L + 2
    BY <2>1, <2>3, <2>4 DEF After
  <2>8. parts[1].args = ps[1] /\ parts[2].args = ps[2]
    BY <2>1, <2>3
  <2>9. Apart(q[L + 1].args, q[L + 2].args)
    BY <2>1, <2>6, <2>8
  <2>10. Twins(q)
    BY <2>6, <2>7, <2>9 DEF Twins
  <2> QED
    BY <2>4, <2>5, <2>10
<1> QED
  BY <1>1, <1>3, <1>4, <1>5 DEF r

LEMMA ComparedRight ==
    ASSUME NEW m, NEW cs, IsList(cs), Personal(m), NEW col, \A i \in DOMAIN cs : Right(col, cs[i])
    PROVE  LET r == Ruling!Compared(m, cs) IN IsList(r) /\ \A k \in DOMAIN r : Right(col, r[k])
<1> DEFINE stats == Ruling!Those(cs, "compute_statistics")
<1> DEFINE r == Ruling!Compared(m, cs)
<1>1. CASE Len(stats) # 1
  <2>1. r = cs
    BY <1>1, ComparedNot
  <2> HIDE DEF r
  <2> QED
    BY <2>1 DEF r
<1>2. CASE Len(stats) = 1
  <2>1. PICK i : StatsIn(cs) = {i}
    BY <1>2, OneStatistics
  <2>2. i \in DOMAIN cs /\ cs[i].name = "compute_statistics"
    BY <2>1 DEF StatsIn
  <2> DEFINE as == cs[i].args
  <2> DEFINE ps == Ruling!Parties(m, as)
  <2> DEFINE parts == [k \in DOMAIN ps |-> Ruling!Statistics(ps[k])]
  <2>3. r = IF Len(ps) > 1 THEN Ruling!Others(cs, "compute_statistics") \o parts ELSE cs
    BY <2>1, <2>2, ComparedIs
  <2>4. Right(col, cs[i])
    BY <2>2
  <2> DEFINE p(k) == Party(as, {"user"}, "project_hours", "project", k)
  <2>5. ps = <<as>> \/ ps = [k \in 1..2 |-> p(k)]
    BY DEF Ruling!Parties, Ruling!Has, Party, Personal
  <2>6. \A k : "user" \notin DOMAIN p(k) /\ Alike(p(k), as, "member")
    <3> DEFINE gone == {"user"}
    <3>1. ASSUME NEW k PROVE "user" \notin DOMAIN p(k) /\ Alike(p(k), as, "member")
      <4>1. Telling(gone, "project")
        BY DEF Telling
      <4> DEFINE x == Party(as, gone, "project_hours", "project", k)
      <4> HIDE DEF gone
      <4>2. /\ "project" \in DOMAIN x /\ x["project"] = k
            /\ Alike(x, as, "start") /\ Alike(x, as, "end")
            /\ \A y \in gone : y # "project" => y \notin DOMAIN x
            /\ \A y : y \notin gone \cup {"project", "type"} => Alike(x, as, y)
        BY <4>1, PartyIs
      <4>3. x = p(k)
        BY DEF gone
      <4> HIDE DEF x, p
      <4> QED
        BY <4>2, <4>3 DEF gone
    <3> QED
      BY <3>1
  <2> HIDE DEF as, r
  <2>7. CASE ps = <<as>>
    <3>1. Len(ps) = 1
      BY <2>7
    <3>2. r = cs
      BY <2>3, <3>1
    <3> QED
      BY <3>2 DEF r
  <2>8. CASE ps = [k \in 1..2 |-> p(k)]
    <3>1. ps = [k \in 1..2 |-> ps[k]] /\ \A k \in 1..2 : ps[k] = p(k)
      BY <2>8
    <3> HIDE DEF ps, p
    <3>2. IsList(ps) /\ Len(ps) = 2 /\ DOMAIN ps = 1..2
      BY <3>1, ListMade
    <3>3. /\ IsList(parts) /\ Len(parts) = Len(ps) /\ DOMAIN parts = DOMAIN ps
          /\ \A k \in DOMAIN parts : parts[k].name = "compute_statistics" /\ parts[k].args = ps[k]
      BY <3>2, StatisticsOf
    <3> HIDE DEF parts
    <3>4. AllStatistics(parts)
      BY <3>3 DEF AllStatistics
    <3> DEFINE q == Replaced(cs, parts)
    <3> DEFINE L == Before(cs)
    <3>5. /\ L \in Nat /\ IsList(q) /\ DOMAIN q = 1..(L + Len(parts))
          /\ \A k \in 1..L : q[k].name # "compute_statistics" /\ \E j \in DOMAIN cs : q[k] = cs[j]
          /\ \A k \in DOMAIN parts : L + k \in DOMAIN q /\ q[L + k] = parts[k]
          /\ StatsIn(q) = After(L, parts)
      BY <3>3, <3>4, ReplacedIs
    <3>6. r = q
      BY <2>3, <3>2 DEF Replaced
    <3> HIDE DEF q, L
    <3>7. ASSUME NEW k \in DOMAIN parts PROVE Right(col, parts[k])
      <4>1. parts[k].name = "compute_statistics" /\ parts[k].args = p(k)
        BY <3>1, <3>2, <3>3
      <4>2. "user" \notin DOMAIN p(k) /\ Alike(p(k), as, "member")
        BY <2>6
      <4>3. col # None => "member" \in DOMAIN as /\ as["member"] = col
        BY <2>2, <2>4 DEF Right, Ruling!PersonTools, as
      <4>4. col # None => "member" \in DOMAIN p(k) /\ p(k)["member"] = col
        BY <4>2, <4>3 DEF Alike
      <4> QED
        BY <4>1, <4>2, <4>4 DEF Right, Unjoined
    <3>8. ASSUME NEW k \in DOMAIN q PROVE Right(col, q[k])
      <4>1. CASE k \in 1..L
        BY <3>5, <4>1
      <4>2. CASE k \notin 1..L
        <5>1. k - L \in 1..2 /\ k = L + (k - L)
          BY <3>2, <3>3, <3>5, <4>2
        <5> DEFINE n == k - L
        <5>2. n \in DOMAIN parts /\ k = L + n
          BY <3>2, <3>3, <5>1
        <5> HIDE DEF n
        <5>3. q[k] = parts[n]
          BY <3>5, <5>2
        <5> QED
          BY <3>7, <5>2, <5>3
      <4> QED
        BY <4>1, <4>2
    <3> QED
      BY <3>5, <3>6, <3>8 DEF r
  <2> QED
    BY <2>5, <2>7, <2>8
<1> QED
  BY <1>1, <1>2

\* Who asks month by month compares nobody.
LEMMA ComparedMonths ==
    ASSUME NEW m, NEW cs, IsList(cs), ByMonths(m)
    PROVE  Ruling!Compared(m, cs) = cs
<1> DEFINE stats == Ruling!Those(cs, "compute_statistics")
<1>1. CASE Len(stats) # 1
  BY <1>1, ComparedNot
<1>2. CASE Len(stats) = 1
  <2>1. PICK i : StatsIn(cs) = {i}
    BY <1>2, OneStatistics
  <2>2. i \in DOMAIN cs
    BY <2>1 DEF StatsIn
  <2>3. Ruling!Parties(m, cs[i].args) = <<cs[i].args>>
    BY DEF Ruling!Parties, ByMonths
  <2> DEFINE ps == Ruling!Parties(m, cs[i].args)
  <2> DEFINE parts == [k \in DOMAIN ps |-> Ruling!Statistics(ps[k])]
  <2>4. Ruling!Compared(m, cs) =
          IF Len(ps) > 1 THEN Ruling!Others(cs, "compute_statistics") \o parts ELSE cs
    BY <2>1, <2>2, ComparedIs
  <2>5. Len(ps) = 1
    BY <2>3
  <2> HIDE DEF ps, parts
  <2> QED
    BY <2>4, <2>5
<1> QED
  BY <1>1, <1>2

-----------------------------------------------------------------------------
(* Months.                                                                 *)

\* The months a message names.
Named(m) == {k \in 1..3 : Ruling!MonthNames[k] \in m}

Join(x, y) == x \o y

LEMMA JoinHas ==
    ASSUME NEW x, IsList(x), NEW y, IsList(y)
    PROVE  LET z == Join(x, y)
           IN  /\ IsList(z)
               /\ \A i \in DOMAIN z :
                    (\E j \in DOMAIN x : z[i] = x[j]) \/ (\E j \in DOMAIN y : z[i] = y[j])
               /\ \A j \in DOMAIN x : \E i \in DOMAIN z : z[i] = x[j]
               /\ \A j \in DOMAIN y : \E i \in DOMAIN z : z[i] = y[j]
<1> DEFINE z == Join(x, y)
<1>1. z = [n \in 1..(Len(x) + Len(y)) |-> IF n <= Len(x) THEN x[n] ELSE y[n - Len(x)]]
  BY JoinIs DEF Join
<1>2. Len(x) \in Nat /\ DOMAIN x = 1..Len(x) /\ Len(y) \in Nat /\ DOMAIN y = 1..Len(y)
  BY ListIs
<1> HIDE DEF z
<1>3. IsList(z) /\ DOMAIN z = 1..(Len(x) + Len(y))
  <2>1. z = [n \in 1..(Len(x) + Len(y)) |-> z[n]] /\ Len(x) + Len(y) \in Nat
    BY <1>1, <1>2
  <2> QED
    BY <2>1, ListMade
<1>4. ASSUME NEW i \in DOMAIN z
      PROVE  (\E j \in DOMAIN x : z[i] = x[j]) \/ (\E j \in DOMAIN y : z[i] = y[j])
  <2>1. CASE i <= Len(x)
    <3>1. i \in DOMAIN x /\ z[i] = x[i]
      BY <1>1, <1>2, <1>3, <2>1
    <3> QED
      BY <3>1
  <2>2. CASE ~(i <= Len(x))
    <3>1. i - Len(x) \in DOMAIN y /\ z[i] = y[i - Len(x)]
      BY <1>1, <1>2, <1>3, <2>2
    <3> QED
      BY <3>1
  <2> QED
    BY <2>1, <2>2
<1>5. ASSUME NEW j \in DOMAIN x PROVE \E i \in DOMAIN z : z[i] = x[j]
  <2>1. j \in DOMAIN z /\ z[j] = x[j]
    BY <1>1, <1>2, <1>3
  <2> QED
    BY <2>1
<1>6. ASSUME NEW j \in DOMAIN y PROVE \E i \in DOMAIN z : z[i] = y[j]
  <2>1. Len(x) + j \in DOMAIN z /\ z[Len(x) + j] = y[j]
    BY <1>1, <1>2, <1>3
  <2> QED
    BY <2>1
<1> QED
  BY <1>3, <1>4, <1>5, <1>6 DEF z

LEMMA MonthsAre ==
    ASSUME NEW m
    PROVE  LET s == Ruling!Months(m)
           IN  /\ IsList(s) /\ Len(s) = Ruling!Len(s)
               /\ \A i \in DOMAIN s : s[i] \in Named(m)
               /\ \A k \in Named(m) : \E i \in DOMAIN s : s[i] = k
<1> DEFINE s == Ruling!Months(m)
<1> DEFINE one(k) == IF Ruling!MonthNames[k] \in m THEN <<k>> ELSE <<>>
<1> DEFINE b == one(1) \o one(2)
<1>1. ASSUME NEW k PROVE /\ IsList(one(k))
                         /\ \A i \in DOMAIN one(k) : one(k)[i] = k /\ Ruling!MonthNames[k] \in m
                         /\ Ruling!MonthNames[k] \in m => \E i \in DOMAIN one(k) : one(k)[i] = k
  <2>1. CASE Ruling!MonthNames[k] \in m
    <3>1. one(k) = <<k>>
      BY <2>1
    <3>2. IsList(<<k>>) /\ DOMAIN <<k>> = {1} /\ <<k>>[1] = k
      BY OneCallIs
    <3> HIDE DEF one
    <3> QED
      BY <2>1, <3>1, <3>2
  <2>2. CASE Ruling!MonthNames[k] \notin m
    <3>1. one(k) = <<>>
      BY <2>2
    <3>2. IsList(<<>>) /\ DOMAIN <<>> = {}
      BY DEF IsList
    <3> HIDE DEF one
    <3> QED
      BY <2>2, <3>1, <3>2
  <2> QED
    BY <2>1, <2>2
<1>2. s = one(1) \o one(2) \o one(3)
  BY DEF Ruling!Months
<1>3. s = b \o one(3)
  BY <1>2
<1> HIDE DEF one, b, s
<1>5. /\ IsList(b)
      /\ \A i \in DOMAIN b : b[i] \in {1, 2} /\ Ruling!MonthNames[b[i]] \in m
      /\ \A k \in {1, 2} : Ruling!MonthNames[k] \in m => \E i \in DOMAIN b : b[i] = k
  <2> DEFINE x == one(1)
  <2> DEFINE y == one(2)
  <2>1. /\ IsList(x) /\ \A i \in DOMAIN x : x[i] = 1 /\ Ruling!MonthNames[1] \in m
        /\ Ruling!MonthNames[1] \in m => \E i \in DOMAIN x : x[i] = 1
    BY <1>1
  <2>2. /\ IsList(y) /\ \A i \in DOMAIN y : y[i] = 2 /\ Ruling!MonthNames[2] \in m
        /\ Ruling!MonthNames[2] \in m => \E i \in DOMAIN y : y[i] = 2
    BY <1>1
  <2>3. b = Join(x, y)
    BY DEF b, Join
  <2> HIDE DEF x, y
  <2>4. /\ IsList(b)
        /\ \A i \in DOMAIN b : (\E j \in DOMAIN x : b[i] = x[j]) \/ (\E j \in DOMAIN y : b[i] = y[j])
        /\ \A j \in DOMAIN x : \E i \in DOMAIN b : b[i] = x[j]
        /\ \A j \in DOMAIN y : \E i \in DOMAIN b : b[i] = y[j]
    BY JoinHas, <2>1, <2>2, <2>3
  <2> QED
    BY <2>1, <2>2, <2>4
<1>6. /\ IsList(s)
      /\ \A i \in DOMAIN s : s[i] \in {1, 2, 3} /\ Ruling!MonthNames[s[i]] \in m
      /\ \A k \in {1, 2, 3} : Ruling!MonthNames[k] \in m => \E i \in DOMAIN s : s[i] = k
  <2> DEFINE y == one(3)
  <2>2. /\ IsList(y) /\ \A i \in DOMAIN y : y[i] = 3 /\ Ruling!MonthNames[3] \in m
        /\ Ruling!MonthNames[3] \in m => \E i \in DOMAIN y : y[i] = 3
    BY <1>1
  <2>3. s = Join(b, y)
    BY <1>3 DEF Join
  <2> HIDE DEF y
  <2>4. /\ IsList(s)
        /\ \A i \in DOMAIN s : (\E j \in DOMAIN b : s[i] = b[j]) \/ (\E j \in DOMAIN y : s[i] = y[j])
        /\ \A j \in DOMAIN b : \E i \in DOMAIN s : s[i] = b[j]
        /\ \A j \in DOMAIN y : \E i \in DOMAIN s : s[i] = y[j]
    BY JoinHas, <1>5, <2>2, <2>3
  <2> QED
    BY <1>5, <2>2, <2>4
<1>7. Named(m) = {k \in {1, 2, 3} : Ruling!MonthNames[k] \in m}
  BY DEF Named
<1>8. Len(s) = Ruling!Len(s)
  OBVIOUS
<1>9. /\ \A i \in DOMAIN s : s[i] \in Named(m)
      /\ \A k \in Named(m) : \E i \in DOMAIN s : s[i] = k
  BY <1>6, <1>7
<1> QED
  BY <1>6, <1>8, <1>9 DEF s

MonthCall(as, k) == Ruling!Statistics(Ruling!With(as, Ruling!MonthRange(k)))

\* One call for each month that is named.
Spread(m, as, cs) ==
    /\ \A i \in StatsIn(cs) : \E k \in Named(m) : cs[i] = MonthCall(as, k)
    /\ \A k \in Named(m) : \E i \in StatsIn(cs) : cs[i] = MonthCall(as, k)

LEMMA ByMonthNot ==
    ASSUME NEW m, NEW cs, Len(Ruling!Those(cs, "compute_statistics")) # 1
    PROVE  Ruling!ByMonth(m, cs) = cs
BY DEF Ruling!ByMonth

\* Not month by month, or month by month.
LEMMA ByMonthIs ==
    ASSUME NEW m, NEW cs, IsList(cs), NEW i \in DOMAIN cs, StatsIn(cs) = {i}
    PROVE  LET r == Ruling!ByMonth(m, cs)
               as == cs[i].args
           IN  /\ r = cs \/ Spread(m, as, r)
               /\ ByMonths(m) => Spread(m, as, r)
               /\ IsList(r)
               /\ \A k \in DOMAIN r : (\E j \in DOMAIN cs : r[k] = cs[j])
                                      \/ (\E n \in Named(m) : r[k] = MonthCall(as, n))
<1> DEFINE stats == Ruling!Those(cs, "compute_statistics")
<1> DEFINE as == cs[i].args
<1> DEFINE s == Ruling!Months(m)
<1> DEFINE parts == [k \in DOMAIN s |-> MonthCall(as, s[k])]
<1> DEFINE r == Ruling!ByMonth(m, cs)
<1>1. Len(stats) = 1 /\ stats[1] = cs[i]
  BY OneIs
<1>2. r = IF Len(s) >= 2 /\ "each" \in m THEN Replaced(cs, parts) ELSE cs
  BY <1>1 DEF Ruling!ByMonth, MonthCall, Replaced
<1>3. /\ IsList(s) /\ Len(s) = Ruling!Len(s)
      /\ \A k \in DOMAIN s : s[k] \in Named(m)
      /\ \A k \in Named(m) : \E n \in DOMAIN s : s[n] = k
  BY MonthsAre
<1>4. ByMonths(m) => "each" \in m /\ Len(s) >= 2
  BY <1>3 DEF ByMonths
<1> HIDE DEF stats, s, r
<1>5. Len(s) \in Nat /\ DOMAIN s = 1..Len(s)
  BY <1>3, ListIs
<1>6. \A k \in DOMAIN s : parts[k] = MonthCall(as, s[k])
  OBVIOUS
<1>7. parts = [k \in 1..Len(s) |-> parts[k]]
  BY <1>5
<1> HIDE DEF parts
<1>8. IsList(parts) /\ Len(parts) = Len(s) /\ DOMAIN parts = DOMAIN s
  BY <1>5, <1>7, ListMade
<1>9. \A k : MonthCall(as, k).name = "compute_statistics"
  BY StatisticsIs DEF MonthCall
<1>10. AllStatistics(parts)
  BY <1>6, <1>8, <1>9 DEF AllStatistics
<1> DEFINE q == Replaced(cs, parts)
<1> DEFINE L == Before(cs)
<1>11. /\ L \in Nat /\ IsList(q) /\ DOMAIN q = 1..(L + Len(parts))
       /\ \A k \in 1..L : q[k].name # "compute_statistics" /\ \E j \in DOMAIN cs : q[k] = cs[j]
       /\ \A k \in DOMAIN parts : L + k \in DOMAIN q /\ q[L + k] = parts[k]
       /\ StatsIn(q) = After(L, parts)
  BY <1>8, <1>10, ReplacedIs
<1> HIDE DEF q, L, as
<1>12. ASSUME NEW n \in DOMAIN q
       PROVE  (\E j \in DOMAIN cs : q[n] = cs[j]) \/ (\E k \in Named(m) : q[n] = MonthCall(as, k))
  <2>1. CASE n \in 1..L
    BY <1>11, <2>1
  <2>2. CASE n \notin 1..L
    <3> DEFINE k == n - L
    <3>1. k \in DOMAIN parts /\ n = L + k
      BY <1>5, <1>8, <1>11, <2>2
    <3> HIDE DEF k
    <3>2. q[n] = MonthCall(as, s[k]) /\ s[k] \in Named(m)
      BY <1>3, <1>6, <1>8, <1>11, <3>1
    <3> QED
      BY <3>2
  <2> QED
    BY <2>1, <2>2
<1>13. Spread(m, as, q)
  <2>1. ASSUME NEW n \in StatsIn(q) PROVE \E k \in Named(m) : q[n] = MonthCall(as, k)
    <3>1. PICK k \in DOMAIN parts : n = L + k
      BY <1>11 DEF After
    <3>2. q[n] = MonthCall(as, s[k]) /\ s[k] \in Named(m)
      BY <1>3, <1>6, <1>8, <1>11, <3>1
    <3> QED
      BY <3>2
  <2>2. ASSUME NEW k \in Named(m) PROVE \E n \in StatsIn(q) : q[n] = MonthCall(as, k)
    <3>1. PICK j \in DOMAIN s : s[j] = k
      BY <1>3
    <3>2. L + j \in StatsIn(q) /\ q[L + j] = MonthCall(as, k)
      BY <1>6, <1>8, <1>11, <3>1 DEF After
    <3> QED
      BY <3>2
  <2> QED
    BY <2>1, <2>2 DEF Spread
<1>14. \A n \in DOMAIN cs : \E j \in DOMAIN cs : cs[n] = cs[j]
  OBVIOUS
<1>15. r = IF Len(s) >= 2 /\ "each" \in m THEN q ELSE cs
  BY <1>2 DEF q
<1>16. CASE Len(s) >= 2 /\ "each" \in m
  <2>1. r = q
    BY <1>15, <1>16
  <2> QED
    BY <1>11, <1>12, <1>13, <2>1 DEF r, as
<1>17. CASE ~(Len(s) >= 2 /\ "each" \in m)
  <2>1. r = cs
    BY <1>15, <1>17
  <2> QED
    BY <1>4, <1>14, <1>17, <2>1 DEF r, as
<1> QED
  BY <1>16, <1>17

-----------------------------------------------------------------------------
(* Capped at today, and once each.                                         *)

LEMMA CappedIs ==
    ASSUME NEW m, NEW c
    PROVE  LET d == Ruling!Capped(m, c)
           IN  /\ d.name = c.name
               /\ \A k : k # "end" => Alike(d.args, c.args, k)
               /\ c.name # "compute_statistics" => d = c
<1> DEFINE d == Ruling!Capped(m, c)
<1> DEFINE w == Ruling!With(c.args, Ruling!Field("end", Today))
<1>1. d = c \/ (c.name = "compute_statistics" /\ d = Ruling!Call(c.name, w))
  BY DEF Ruling!Capped, Ruling!Is
<1>2. "end" \in DOMAIN w /\ w["end"] = Today /\ \A k : k # "end" => Alike(w, c.args, k)
  BY WithField
<1>3. \A k : Alike(c.args, c.args, k)
  BY DEF Alike
<1>4. Ruling!Call(c.name, w).name = c.name /\ Ruling!Call(c.name, w).args = w
  BY CallIs
<1> HIDE DEF d, w
<1>5. CASE d = c
  BY <1>3, <1>5 DEF d
<1>6. CASE c.name = "compute_statistics" /\ d = Ruling!Call(c.name, w)
  <2>1. d.name = c.name /\ d.args = w
    BY <1>4, <1>6
  <2> QED
    BY <1>2, <1>6, <2>1 DEF d
<1> QED
  BY <1>1, <1>5, <1>6

LEMMA CappedDays ==
    ASSUME NEW m, NEW c, NEW d, c.name = "compute_statistics", d.name = "compute_statistics",
           Alike(c.args, d.args, "start"), Alike(c.args, d.args, "end")
    PROVE  Alike(Ruling!Capped(m, c).args, Ruling!Capped(m, d).args, "end")
<1> DEFINE capped(e) ==
      /\ {"start", "end"} \subseteq DOMAIN e.args
      /\ "thisMonth" \in m \/ Ruling!Months(m) # <<>>
      /\ m \cap {"thisWeek", "pair", "projects"} = {}
      /\ Ruling!First(Ruling!CurrentMonth) <= e.args["start"]
      /\ e.args["start"] <= Ruling!LastDay(Ruling!CurrentMonth)
      /\ e.args["end"] > Today
<1> DEFINE w(e) == Ruling!With(e.args, Ruling!Field("end", Today))
<1>1. ASSUME NEW e, e.name = "compute_statistics"
      PROVE  Ruling!Capped(m, e).args = IF capped(e) THEN w(e) ELSE e.args
  <2>1. Ruling!Capped(m, e) = IF capped(e) THEN Ruling!Call(e.name, w(e)) ELSE e
    BY <1>1 DEF Ruling!Capped, Ruling!Is
  <2> HIDE DEF capped, w
  <2>2. Ruling!Call(e.name, w(e)).args = w(e)
    BY CallIs
  <2> QED
    BY <2>1, <2>2
<1>2. capped(c) <=> capped(d)
  <2>1. "start" \in DOMAIN c.args <=> "start" \in DOMAIN d.args
    BY DEF Alike
  <2>2. "end" \in DOMAIN c.args <=> "end" \in DOMAIN d.args
    BY DEF Alike
  <2>3. CASE {"start", "end"} \subseteq DOMAIN c.args
    <3>1. c.args["start"] = d.args["start"] /\ c.args["end"] = d.args["end"]
      BY <2>3 DEF Alike
    <3> QED
      BY <2>1, <2>2, <3>1
  <2>4. CASE ~({"start", "end"} \subseteq DOMAIN c.args)
    BY <2>1, <2>2, <2>4
  <2> QED
    BY <2>3, <2>4
<1>3. \A e : "end" \in DOMAIN w(e) /\ w(e)["end"] = Today
  BY WithField
<1> HIDE DEF capped, w
<1>4. CASE capped(c)
  BY <1>1, <1>2, <1>3, <1>4 DEF Alike
<1>5. CASE ~capped(c)
  BY <1>1, <1>2, <1>5 DEF Alike
<1> QED
  BY <1>4, <1>5

\* The last day of a month that is asked for.
To(k) ==
    IF k = Ruling!CurrentMonth /\ Today < Ruling!LastDay(k) THEN Today ELSE Ruling!LastDay(k)

LEMMA MonthCallIs ==
    ASSUME NEW as, NEW k
    PROVE  LET c == MonthCall(as, k)
           IN  /\ c.name = "compute_statistics"
               /\ {"start", "end"} \subseteq DOMAIN c.args
               /\ c.args["start"] = Ruling!First(k) /\ c.args["end"] = To(k)
               /\ \A key : key \notin {"start", "end"} => Alike(c.args, as, key)
<1> DEFINE c == MonthCall(as, k)
<1> DEFINE w == Ruling!With(as, Ruling!Between(Ruling!First(k), To(k)))
<1>1. c.name = "compute_statistics" /\ c.args = w
  BY StatisticsIs DEF MonthCall, Ruling!MonthRange, To
<1>2. /\ {"start", "end"} \subseteq DOMAIN w /\ w["start"] = Ruling!First(k) /\ w["end"] = To(k)
      /\ \A key : key \notin {"start", "end"} => Alike(w, as, key)
  BY WithDays
<1> HIDE DEF c, w
<1> QED
  BY <1>1, <1>2 DEF c

\* The days of a month, as numbers.
LEMMA MonthIs ==
    ASSUME NEW k \in 1..3
    PROVE  /\ Ruling!CurrentMonth \in Int
           /\ Ruling!First(k) \in Int /\ To(k) \in Int
           /\ Ruling!First(k) = MonthDays * (k - 1) + 1
           /\ Ruling!LastDay(k) = MonthDays * (k - 1) + MonthDays
           /\ k = Ruling!CurrentMonth => To(k) <= Today
           /\ Ruling!First(Ruling!CurrentMonth) <= Ruling!First(k)
              /\ Ruling!First(k) <= Ruling!LastDay(Ruling!CurrentMonth) => k = Ruling!CurrentMonth
<1> DEFINE q == (Today - 1) \div MonthDays
<1> DEFINE p == k - 1
<1>1. MonthDays \in Nat \ {0} /\ Today \in Nat \ {0}
  BY RulesAssumption
<1>2. q \in Int
  BY <1>1, DivMod
<1>3. Ruling!CurrentMonth = q + 1
  BY DEF Ruling!CurrentMonth
<1>4. p \in Int /\ k = p + 1
  OBVIOUS
<1> HIDE DEF q, p
<1>5. ASSUME NEW n \in Int
      PROVE  /\ MonthDays * n \in Int
             /\ Ruling!First(n + 1) = MonthDays * n + 1
             /\ Ruling!LastDay(n + 1) = MonthDays * n + MonthDays
  <2>1. MonthDays * n \in Int /\ n * MonthDays = MonthDays * n
    BY <1>1
  <2>2. (n + 1) * MonthDays = n * MonthDays + MonthDays
    BY <1>1
  <2>3. (n + 1) - 1 = n
    OBVIOUS
  <2>4. Ruling!First(n + 1) = n * MonthDays + 1
    BY <2>3 DEF Ruling!First
  <2>5. Ruling!LastDay(n + 1) = (n + 1) * MonthDays
    BY DEF Ruling!LastDay
  <2> QED
    BY <2>1, <2>2, <2>4, <2>5
<1>6. /\ Ruling!First(k) = MonthDays * p + 1 /\ Ruling!LastDay(k) = MonthDays * p + MonthDays
      /\ MonthDays * p \in Int
  BY <1>4, <1>5
<1>7. /\ Ruling!First(Ruling!CurrentMonth) = MonthDays * q + 1
      /\ Ruling!LastDay(Ruling!CurrentMonth) = MonthDays * q + MonthDays
      /\ MonthDays * q \in Int
  BY <1>2, <1>3, <1>5
<1>8. ASSUME Ruling!First(Ruling!CurrentMonth) <= Ruling!First(k),
             Ruling!First(k) <= Ruling!LastDay(Ruling!CurrentMonth)
      PROVE  k = Ruling!CurrentMonth
  <2> DEFINE d == MonthDays * p
  <2>1. d \in Int /\ d = MonthDays * p + 0 /\ 0 \in 0..(MonthDays - 1)
    BY <1>1, <1>6
  <2>2. MonthDays * q <= d /\ d <= MonthDays * q + MonthDays - 1
    BY <1>1, <1>6, <1>7, <1>8
  <2> HIDE DEF d
  <2>3. p = q
    BY <1>1, <1>2, <1>4, <2>1, <2>2, SameQuotient
  <2> QED
    BY <1>3, <1>4, <2>3
<1>9. To(k) \in Int /\ (k = Ruling!CurrentMonth => To(k) <= Today)
  BY <1>1, <1>6 DEF To
<1>10. Ruling!CurrentMonth \in Int /\ Ruling!First(k) \in Int
  BY <1>2, <1>3, <1>6
<1>11. MonthDays * (k - 1) = MonthDays * p
  BY DEF p
<1> QED
  BY <1>6, <1>8, <1>9, <1>10, <1>11

\* A day is in the range of a month if it is a day of that month, and not past today.
LEMMA DayIs ==
    ASSUME NEW k \in 1..3, NEW d \in Int
    PROVE  Ruling!First(k) <= d /\ d <= To(k) <=>
             /\ (d - 1) \div MonthDays = k - 1
             /\ (d - 1) \div MonthDays = Ruling!CurrentMonth - 1 => d <= Today
<1> DEFINE M == MonthDays
<1> DEFINE p == k - 1
<1> DEFINE q == (d - 1) \div M
<1> DEFINE r == (d - 1) % M
<1>1. M \in Nat \ {0} /\ Today \in Nat \ {0}
  BY RulesAssumption
<1>2. q \in Int /\ r \in 0..(M - 1) /\ d - 1 = M * q + r
  BY <1>1, DivMod
<1>3. p \in Int /\ k = p + 1 /\ M * p \in Int
  BY <1>1
<1>4. /\ Ruling!CurrentMonth \in Int
      /\ Ruling!First(k) \in Int /\ To(k) \in Int
      /\ Ruling!First(k) = M * p + 1 /\ Ruling!LastDay(k) = M * p + M
      /\ k = Ruling!CurrentMonth => To(k) <= Today
  BY MonthIs
<1> HIDE DEF M, p, q, r
<1>5. To(k) <= M * p + M
  BY <1>1, <1>3, <1>4 DEF To
<1>6. ASSUME Ruling!First(k) <= d, d <= To(k)
      PROVE  q = p /\ (q = Ruling!CurrentMonth - 1 => d <= Today)
  <2> DEFINE e == d - 1
  <2>1. e \in Int /\ e = M * q + r
    BY <1>2
  <2>2. M * p <= e /\ e <= M * p + M - 1
    BY <1>1, <1>3, <1>4, <1>5, <1>6
  <2> HIDE DEF e
  <2>3. q = p
    BY <1>1, <1>2, <1>3, <2>1, <2>2, SameQuotient
  <2>4. q = Ruling!CurrentMonth - 1 => d <= Today
    BY <1>1, <1>3, <1>4, <1>6, <2>3
  <2> QED
    BY <2>3, <2>4
<1>7. ASSUME q = p, q = Ruling!CurrentMonth - 1 => d <= Today
      PROVE  Ruling!First(k) <= d /\ d <= To(k)
  <2>1. d = M * p + r + 1
    BY <1>2, <1>3, <1>7
  <2>2. Ruling!First(k) <= d /\ d <= Ruling!LastDay(k)
    BY <1>1, <1>2, <1>3, <1>4, <2>1
  <2>3. d <= To(k)
    BY <1>3, <1>4, <1>7, <2>2 DEF To
  <2> QED
    BY <2>2, <2>3
<1> QED
  BY <1>6, <1>7 DEF p, q, M

\* What is asked for a month is asked up to today already.
LEMMA CappedMonth ==
    ASSUME NEW m, NEW as, NEW k \in 1..3
    PROVE  Ruling!Capped(m, MonthCall(as, k)) = MonthCall(as, k)
<1> DEFINE c == MonthCall(as, k)
<1>1. c.args["start"] = Ruling!First(k) /\ c.args["end"] = To(k)
  BY MonthCallIs
<1>2. Today \in Nat \ {0}
  BY RulesAssumption
<1> HIDE DEF c
<1>3. ~(/\ Ruling!First(Ruling!CurrentMonth) <= c.args["start"]
        /\ c.args["start"] <= Ruling!LastDay(Ruling!CurrentMonth)
        /\ c.args["end"] > Today)
  BY <1>1, <1>2, MonthIs
<1>4. Ruling!Capped(m, c) = c
  BY <1>3 DEF Ruling!Capped
<1> QED
  BY <1>4 DEF c

CapEach(m, cs) == [i \in DOMAIN cs |-> Ruling!Capped(m, cs[i])]

\* Calls changed one by one, who keep what they are about.
LEMMA EachIs ==
    ASSUME NEW cs, IsList(cs), NEW r, r = [i \in DOMAIN cs |-> r[i]],
           \A i \in DOMAIN cs : r[i].name = cs[i].name
    PROVE  IsList(r) /\ DOMAIN r = DOMAIN cs /\ StatsIn(r) = StatsIn(cs)
<1>1. Len(cs) \in Nat /\ DOMAIN cs = 1..Len(cs)
  BY ListIs
<1>2. DOMAIN r = DOMAIN cs
  OBVIOUS
<1>3. IsList(r)
  BY <1>1, ListMade
<1>4. StatsIn(r) = StatsIn(cs)
  BY <1>2 DEF StatsIn
<1> QED
  BY <1>2, <1>3, <1>4

LEMMA CapIs ==
    ASSUME NEW m, NEW cs, IsList(cs)
    PROVE  LET r == CapEach(m, cs)
           IN  /\ IsList(r) /\ DOMAIN r = DOMAIN cs /\ StatsIn(r) = StatsIn(cs)
               /\ \A i \in DOMAIN cs : r[i] = Ruling!Capped(m, cs[i])
               /\ Twins(cs) => Twins(r)
               /\ \A as : Spread(m, as, cs) => Spread(m, as, r)
<1> DEFINE r == CapEach(m, cs)
<1>1. \A i \in DOMAIN cs : r[i] = Ruling!Capped(m, cs[i])
  BY DEF CapEach
<1>2. r = [i \in DOMAIN cs |-> r[i]]
  BY DEF CapEach
<1> HIDE DEF r
<1>3. \A i \in DOMAIN cs : r[i].name = cs[i].name
  BY <1>1, CappedIs
<1>4. IsList(r) /\ DOMAIN r = DOMAIN cs /\ StatsIn(r) = StatsIn(cs)
  BY <1>2, <1>3, EachIs
<1>5. ASSUME Twins(cs) PROVE Twins(r)
  <2>1. PICK i \in DOMAIN cs, j \in DOMAIN cs :
          i # j /\ StatsIn(cs) = {i, j} /\ Apart(cs[i].args, cs[j].args)
    BY <1>5 DEF Twins
  <2> DEFINE c == cs[i]
  <2> DEFINE d == cs[j]
  <2> DEFINE x == Ruling!Capped(m, c)
  <2> DEFINE y == Ruling!Capped(m, d)
  <2>2. i \in StatsIn(cs) /\ j \in StatsIn(cs)
    BY <2>1
  <2>3. c.name = "compute_statistics" /\ d.name = "compute_statistics"
    BY <2>2 DEF StatsIn
  <2>4. Apart(c.args, d.args)
    BY <2>1
  <2>5. r[i] = x /\ r[j] = y
    BY <1>1
  <2> HIDE DEF c, d
  <2>6. Alike(x.args, y.args, "end")
    BY <2>3, <2>4, CappedDays DEF Apart
  <2>7. \A k : k # "end" => Alike(x.args, c.args, k)
    BY CappedIs
  <2>8. \A k : k # "end" => Alike(y.args, d.args, k)
    BY CappedIs
  <2> HIDE DEF x, y
  <2>9. Alike(x.args, y.args, "start")
    <3>1. Alike(x.args, c.args, "start") /\ Alike(y.args, d.args, "start") /\ Alike(c.args, d.args, "start")
      BY <2>4, <2>7, <2>8 DEF Apart
    <3> QED
      BY <3>1 DEF Alike
  <2>10. \E k \in {"member", "project", "dept"} : ~Alike(x.args, y.args, k)
    <3>1. PICK k \in {"member", "project", "dept"} : ~Alike(c.args, d.args, k)
      BY <2>4 DEF Apart
    <3>2. Alike(x.args, c.args, k) /\ Alike(y.args, d.args, k)
      BY <2>7, <2>8, <3>1
    <3>3. ~Alike(x.args, y.args, k)
      BY <3>1, <3>2 DEF Alike
    <3> QED
      BY <3>1, <3>3
  <2>11. Apart(r[i].args, r[j].args)
    BY <2>5, <2>6, <2>9, <2>10 DEF Apart
  <2> QED
    BY <1>4, <2>1, <2>11 DEF Twins
<1>6. ASSUME NEW as, Spread(m, as, cs) PROVE Spread(m, as, r)
  <2>1. ASSUME NEW k \in Named(m) PROVE Ruling!Capped(m, MonthCall(as, k)) = MonthCall(as, k)
    <3>1. k \in 1..3
      BY DEF Named
    <3> QED
      BY <3>1, CappedMonth
  <2>2. ASSUME NEW i \in StatsIn(r) PROVE \E k \in Named(m) : r[i] = MonthCall(as, k)
    <3>1. i \in StatsIn(cs) /\ i \in DOMAIN cs
      BY <1>4 DEF StatsIn
    <3>2. PICK k \in Named(m) : cs[i] = MonthCall(as, k)
      BY <1>6, <3>1 DEF Spread
    <3>3. r[i] = MonthCall(as, k)
      BY <1>1, <2>1, <3>1, <3>2
    <3> QED
      BY <3>3
  <2>3. ASSUME NEW k \in Named(m) PROVE \E i \in StatsIn(r) : r[i] = MonthCall(as, k)
    <3>1. PICK i \in StatsIn(cs) : cs[i] = MonthCall(as, k)
      BY <1>6 DEF Spread
    <3>2. i \in DOMAIN cs /\ i \in StatsIn(r)
      BY <1>4, <3>1 DEF StatsIn
    <3>3. r[i] = MonthCall(as, k)
      BY <1>1, <2>1, <3>1, <3>2
    <3> QED
      BY <3>2, <3>3
  <2> QED
    BY <2>2, <2>3 DEF Spread
<1> QED
  BY <1>1, <1>4, <1>5, <1>6 DEF r

\* The statistics of each month that is named, once.
InMonth(as, k) ==
    {"start", "end"} \subseteq DOMAIN as /\ as["start"] = Ruling!First(k) /\ as["end"] = To(k)
Monthly(m, cs) ==
    /\ \A i \in StatsIn(cs) : \E k \in Named(m) : InMonth(cs[i].args, k)
    /\ \A k \in Named(m) : \E i \in StatsIn(cs) : InMonth(cs[i].args, k)
    /\ \A i, j \in StatsIn(cs) : \A k \in Named(m) :
         InMonth(cs[i].args, k) /\ InMonth(cs[j].args, k) => i = j

LEMMA FirstOnce ==
    ASSUME NEW k \in 1..3, NEW n \in 1..3, Ruling!First(k) = Ruling!First(n)
    PROVE  k = n
<1>1. MonthDays \in Nat \ {0}
  BY RulesAssumption
<1>2. Ruling!First(k) = MonthDays * (k - 1) + 1 /\ Ruling!First(n) = MonthDays * (n - 1) + 1
  BY MonthIs
<1> DEFINE p == k - 1
<1> DEFINE q == n - 1
<1> DEFINE d == MonthDays * p
<1>3. p \in Int /\ q \in Int /\ k = p + 1 /\ n = q + 1
  OBVIOUS
<1>4. MonthDays * p + 1 = MonthDays * q + 1
  BY <1>2
<1> HIDE DEF p, q
<1>5. d \in Int /\ MonthDays * q \in Int
  BY <1>1, <1>3
<1>6. d = MonthDays * p + 0 /\ 0 \in 0..(MonthDays - 1) /\ MonthDays * q <= d /\ d <= MonthDays * q + MonthDays - 1
  BY <1>1, <1>4, <1>5
<1> HIDE DEF d
<1>7. p = q
  BY <1>1, <1>3, <1>5, <1>6, SameQuotient
<1> QED
  BY <1>3, <1>7

LEMMA UniqueKeeps ==
    ASSUME NEW m, NEW cs, IsList(cs)
    PROVE  LET u == Ruling!Unique(cs)
           IN  /\ IsList(u)
               /\ StatsIn(cs) = {} => StatsIn(u) = {}
               /\ Twins(cs) => Twins(u)
               /\ \A as : Spread(m, as, cs) => Monthly(m, u)
               /\ \A n \in DOMAIN u : \E i \in DOMAIN cs : u[n] = cs[i]
<1> DEFINE u == Ruling!Unique(cs)
<1>1. /\ IsList(u)
      /\ \A n \in DOMAIN u : \E i \in DOMAIN cs : u[n] = cs[i]
      /\ \A i \in DOMAIN cs : \E n \in DOMAIN u : u[n] = cs[i]
      /\ \A n, p \in DOMAIN u : u[n] = u[p] => n = p
  BY UniqueIs
<1> HIDE DEF u
<1>2. ASSUME NEW n \in StatsIn(u) PROVE n \in DOMAIN u /\ \E i \in StatsIn(cs) : u[n] = cs[i]
  <2>1. n \in DOMAIN u /\ u[n].name = "compute_statistics"
    BY DEF StatsIn
  <2>2. PICK i \in DOMAIN cs : u[n] = cs[i]
    BY <1>1, <2>1
  <2>3. i \in StatsIn(cs)
    BY <2>1, <2>2 DEF StatsIn
  <2> QED
    BY <2>1, <2>2, <2>3
<1>3. ASSUME NEW i \in StatsIn(cs) PROVE \E n \in StatsIn(u) : n \in DOMAIN u /\ u[n] = cs[i]
  <2>1. i \in DOMAIN cs /\ cs[i].name = "compute_statistics"
    BY DEF StatsIn
  <2>2. PICK n \in DOMAIN u : u[n] = cs[i]
    BY <1>1, <2>1
  <2>3. n \in StatsIn(u)
    BY <2>1, <2>2 DEF StatsIn
  <2> QED
    BY <2>2, <2>3
<1>4. StatsIn(cs) = {} => StatsIn(u) = {}
  BY <1>2
<1>5. ASSUME Twins(cs) PROVE Twins(u)
  <2>1. PICK i \in DOMAIN cs, j \in DOMAIN cs :
          i # j /\ StatsIn(cs) = {i, j} /\ Apart(cs[i].args, cs[j].args)
    BY <1>5 DEF Twins
  <2>2. PICK n \in StatsIn(u) : n \in DOMAIN u /\ u[n] = cs[i]
    BY <1>3, <2>1
  <2>3. PICK p \in StatsIn(u) : p \in DOMAIN u /\ u[p] = cs[j]
    BY <1>3, <2>1
  <2>4. cs[i] # cs[j]
    <3>1. \A x, k : Alike(x, x, k)
      BY DEF Alike
    <3> QED
      BY <2>1, <3>1 DEF Apart
  <2>5. n # p
    BY <2>2, <2>3, <2>4
  <2>6. StatsIn(u) = {n, p}
    <3>1. ASSUME NEW q \in StatsIn(u) PROVE q = n \/ q = p
      <4>1. PICK k \in StatsIn(cs) : q \in DOMAIN u /\ u[q] = cs[k]
        BY <1>2
      <4>2. u[q] = u[n] \/ u[q] = u[p]
        BY <2>1, <2>2, <2>3, <4>1
      <4> QED
        BY <1>1, <2>2, <2>3, <4>1, <4>2
    <3> QED
      BY <2>2, <2>3, <3>1
  <2>7. Apart(u[n].args, u[p].args)
    BY <2>1, <2>2, <2>3
  <2> QED
    BY <2>2, <2>3, <2>5, <2>6, <2>7 DEF Twins
<1>6. ASSUME NEW as, Spread(m, as, cs) PROVE Monthly(m, u)
  <2>1. \A k : InMonth(MonthCall(as, k).args, k)
    BY MonthCallIs DEF InMonth
  <2>2. ASSUME NEW n \in StatsIn(u) PROVE \E k \in Named(m) : u[n] = MonthCall(as, k)
    BY <1>2, <1>6 DEF Spread
  <2>3. ASSUME NEW k \in Named(m) PROVE \E n \in StatsIn(u) : u[n] = MonthCall(as, k)
    BY <1>3, <1>6 DEF Spread
  <2>4. ASSUME NEW n \in StatsIn(u), NEW k \in Named(m), InMonth(u[n].args, k)
        PROVE  u[n] = MonthCall(as, k)
    <3>1. PICK x \in Named(m) : u[n] = MonthCall(as, x)
      BY <2>2
    <3>2. InMonth(u[n].args, x)
      BY <2>1, <3>1
    <3>3. Ruling!First(k) = Ruling!First(x)
      BY <2>4, <3>2 DEF InMonth
    <3>4. k \in 1..3 /\ x \in 1..3
      BY <3>1 DEF Named
    <3>5. k = x
      BY <3>3, <3>4, FirstOnce
    <3> QED
      BY <3>1, <3>5
  <2>5. ASSUME NEW n \in StatsIn(u), NEW p \in StatsIn(u), NEW k \in Named(m),
               InMonth(u[n].args, k), InMonth(u[p].args, k)
        PROVE  n = p
    <3>1. u[n] = u[p]
      BY <2>4, <2>5
    <3>2. n \in DOMAIN u /\ p \in DOMAIN u
      BY DEF StatsIn
    <3> QED
      BY <1>1, <3>1, <3>2
  <2>6. \A n \in StatsIn(u) : \E k \in Named(m) : InMonth(u[n].args, k)
    BY <2>1, <2>2
  <2>7. \A k \in Named(m) : \E n \in StatsIn(u) : InMonth(u[n].args, k)
    BY <2>1, <2>3
  <2> QED
    BY <2>5, <2>6, <2>7 DEF Monthly
<1> QED
  BY <1>1, <1>4, <1>5, <1>6 DEF u

LEMMA RightAlike ==
    ASSUME NEW col, NEW c, Right(col, c), NEW d, d.name = c.name,
           Alike(d.args, c.args, "user"), Alike(d.args, c.args, "member")
    PROVE  Right(col, d)
BY DEF Right, Unjoined, Alike

\* One call, none, or those of two parties, month by month and capped.
Expanded(m, cs) == Ruling!Unique(CapEach(m, Ruling!ByMonth(m, cs)))

LEMMA ByMonthRight ==
    ASSUME NEW m, NEW cs, IsList(cs), NEW col, \A i \in DOMAIN cs : Right(col, cs[i])
    PROVE  LET r == Ruling!ByMonth(m, cs) IN IsList(r) /\ \A k \in DOMAIN r : Right(col, r[k])
<1> DEFINE r == Ruling!ByMonth(m, cs)
<1>1. CASE Len(Ruling!Those(cs, "compute_statistics")) # 1
  <2>1. r = cs
    BY <1>1, ByMonthNot
  <2> HIDE DEF r
  <2> QED
    BY <2>1 DEF r
<1>2. CASE Len(Ruling!Those(cs, "compute_statistics")) = 1
  <2>1. PICK i : StatsIn(cs) = {i}
    BY <1>2, OneStatistics
  <2>2. i \in DOMAIN cs /\ cs[i].name = "compute_statistics"
    BY <2>1 DEF StatsIn
  <2> DEFINE as == cs[i].args
  <2>3. /\ r = cs \/ Spread(m, as, r)
        /\ ByMonths(m) => Spread(m, as, r)
        /\ IsList(r)
        /\ \A k \in DOMAIN r : (\E j \in DOMAIN cs : r[k] = cs[j])
                               \/ (\E n \in Named(m) : r[k] = MonthCall(as, n))
    BY <2>1, <2>2, ByMonthIs
  <2>4. Right(col, cs[i])
    BY <2>2
  <2> HIDE DEF r
  <2>5. ASSUME NEW n PROVE Right(col, MonthCall(as, n))
    <3> DEFINE c == MonthCall(as, n)
    <3>1. /\ c.name = "compute_statistics"
          /\ {"start", "end"} \subseteq DOMAIN c.args
          /\ c.args["start"] = Ruling!First(n) /\ c.args["end"] = To(n)
          /\ \A key : key \notin {"start", "end"} => Alike(c.args, as, key)
      BY MonthCallIs
    <3> HIDE DEF c
    <3>2. Alike(c.args, as, "user") /\ Alike(c.args, as, "member")
      BY <3>1
    <3>3. Right(col, c)
      BY <2>2, <2>4, <3>1, <3>2, RightAlike
    <3> QED
      BY <3>3 DEF c
  <2> HIDE DEF as
  <2>6. \A k \in DOMAIN r : Right(col, r[k])
    BY <2>3, <2>5
  <2> QED
    BY <2>3, <2>6 DEF r
<1> QED
  BY <1>1, <1>2

LEMMA ExpandedRight ==
    ASSUME NEW m, NEW cs, IsList(cs), NEW col, \A i \in DOMAIN cs : Right(col, cs[i])
    PROVE  \A k \in DOMAIN Expanded(m, cs) : Right(col, Expanded(m, cs)[k])
<1> DEFINE b == Ruling!ByMonth(m, cs)
<1> DEFINE c == CapEach(m, b)
<1> DEFINE u == Ruling!Unique(c)
<1>1. IsList(b) /\ \A k \in DOMAIN b : Right(col, b[k])
  BY ByMonthRight
<1> HIDE DEF b
<1>2. IsList(c) /\ DOMAIN c = DOMAIN b /\ \A i \in DOMAIN b : c[i] = Ruling!Capped(m, b[i])
  BY <1>1, CapIs
<1> HIDE DEF c
<1>3. \A n \in DOMAIN u : \E i \in DOMAIN c : u[n] = c[i]
  BY <1>2, UniqueIs
<1>4. u = Expanded(m, cs)
  BY DEF Expanded, u, c, b
<1> HIDE DEF u
<1>5. ASSUME NEW i \in DOMAIN b PROVE Right(col, c[i])
  <2> DEFINE x == b[i]
  <2> DEFINE d == Ruling!Capped(m, x)
  <2>1. d.name = x.name /\ Alike(d.args, x.args, "user") /\ Alike(d.args, x.args, "member")
    BY CappedIs
  <2>2. Right(col, x) /\ c[i] = d
    BY <1>1, <1>2
  <2> HIDE DEF x, d
  <2> QED
    BY <2>1, <2>2, RightAlike
<1> QED
  BY <1>2, <1>3, <1>4, <1>5

LEMMA ExpandedStats ==
    ASSUME NEW m, NEW cs, IsList(cs)
    PROVE  LET e == Expanded(m, cs)
           IN  /\ IsList(e)
               /\ StatsIn(cs) = {} => StatsIn(e) = {}
               /\ Twins(cs) => Twins(e)
               /\ Alone(cs) /\ ByMonths(m) => StatsIn(e) = {} \/ Monthly(m, e)
<1> DEFINE stats == Ruling!Those(cs, "compute_statistics")
<1> DEFINE b == Ruling!ByMonth(m, cs)
<1> DEFINE c == CapEach(m, b)
<1> DEFINE u == Ruling!Unique(c)
<1>1. Len(stats) # 1 => b = cs
  BY ByMonthNot
<1>2. IsList(b)
  <2>1. CASE Len(stats) # 1
    <3> HIDE DEF b
    <3> QED
      BY <1>1, <2>1
  <2>2. CASE Len(stats) = 1
    <3>1. PICK i : StatsIn(cs) = {i}
      BY <2>2, OneStatistics
    <3>2. i \in DOMAIN cs
      BY <3>1 DEF StatsIn
    <3> QED
      BY <3>1, <3>2, ByMonthIs
  <2> QED
    BY <2>1, <2>2
<1>3. StatsIn(cs) = {} => Len(stats) = 0
  BY NoStatistics
<1>4. Twins(cs) => Len(stats) = 2
  <2>1. ASSUME Twins(cs) PROVE Len(stats) = 2
    <3>1. PICK i \in DOMAIN cs, j \in DOMAIN cs : i # j /\ StatsIn(cs) = {i, j}
      BY <2>1 DEF Twins
    <3> QED
      BY <3>1, TwoStatistics
  <2> QED
    BY <2>1
<1>5. ASSUME Alone(cs), ByMonths(m), StatsIn(cs) # {} PROVE \E as : Spread(m, as, b)
  <2>1. PICK i \in StatsIn(cs) : TRUE
    BY <1>5
  <2>2. StatsIn(cs) = {i}
    BY <1>5 DEF Alone
  <2>3. i \in DOMAIN cs
    BY DEF StatsIn
  <2> DEFINE as == cs[i].args
  <2>4. Spread(m, as, b)
    BY <1>5, <2>2, <2>3, ByMonthIs
  <2> QED
    BY <2>4
<1> HIDE DEF b, stats
<1>6. /\ IsList(c) /\ StatsIn(c) = StatsIn(b)
      /\ Twins(b) => Twins(c)
      /\ \A as : Spread(m, as, b) => Spread(m, as, c)
  BY <1>2, CapIs
<1> HIDE DEF c
<1>7. /\ IsList(u)
      /\ StatsIn(c) = {} => StatsIn(u) = {}
      /\ Twins(c) => Twins(u)
      /\ \A as : Spread(m, as, c) => Monthly(m, u)
  BY <1>6, UniqueKeeps
<1>8. u = Expanded(m, cs)
  BY DEF Expanded, u, c, b
<1> HIDE DEF u
<1>9. StatsIn(cs) = {} => StatsIn(u) = {}
  BY <1>1, <1>3, <1>6, <1>7
<1>10. Twins(cs) => Twins(u)
  BY <1>1, <1>4, <1>6, <1>7
<1>11. Alone(cs) /\ ByMonths(m) => StatsIn(u) = {} \/ Monthly(m, u)
  BY <1>5, <1>6, <1>7, <1>9
<1> QED
  BY <1>7, <1>8, <1>9, <1>10, <1>11

-----------------------------------------------------------------------------
(* What is dispatched.                                                     *)

WithUsers(cs) == [i \in DOMAIN cs |-> Ruling!WithUser(cs[i])]

LEMMA WithUserIs ==
    ASSUME NEW c
    PROVE  LET d == Ruling!WithUser(c)
           IN  /\ d.name = c.name
               /\ \A k : k # "user" => Alike(d.args, c.args, k)
               /\ d = c \/ "member" \notin DOMAIN c.args
<1> DEFINE d == Ruling!WithUser(c)
<1> DEFINE w == Ruling!With(c.args, Ruling!Field("user", "me"))
<1>1. \/ d = c
      \/ "member" \notin DOMAIN c.args /\ d = Ruling!Call(c.name, w)
  BY DEF Ruling!WithUser, Ruling!Has
<1>2. \A k : k # "user" => Alike(w, c.args, k)
  BY WithField
<1>3. \A k : Alike(c.args, c.args, k)
  BY DEF Alike
<1>4. Ruling!Call(c.name, w).name = c.name /\ Ruling!Call(c.name, w).args = w
  BY CallIs
<1> HIDE DEF d, w
<1>5. CASE d = c
  BY <1>3, <1>5 DEF d
<1>6. CASE "member" \notin DOMAIN c.args /\ d = Ruling!Call(c.name, w)
  <2>1. d.name = c.name /\ d.args = w
    BY <1>4, <1>6
  <2> QED
    BY <1>2, <1>6, <2>1 DEF d
<1> QED
  BY <1>1, <1>5, <1>6

LEMMA DispatchedIs ==
    ASSUME NEW m, NEW cs, IsList(cs)
    PROVE  LET r == WithUsers(cs)
           IN  /\ IsList(r) /\ DOMAIN r = DOMAIN cs /\ StatsIn(r) = StatsIn(cs)
               /\ \A i \in DOMAIN cs : r[i].name = cs[i].name
               /\ \A i \in DOMAIN cs : \A k : k # "user" => Alike(r[i].args, cs[i].args, k)
               /\ \A col : \A i \in DOMAIN cs : Right(col, cs[i]) => Right(col, r[i])
               /\ Twins(cs) => Twins(r)
               /\ Monthly(m, cs) => Monthly(m, r)
<1> DEFINE r == WithUsers(cs)
<1>1. \A i \in DOMAIN cs : r[i] = Ruling!WithUser(cs[i])
  BY DEF WithUsers
<1>2. r = [i \in DOMAIN cs |-> r[i]]
  BY DEF WithUsers
<1> HIDE DEF r
<1>3. \A i \in DOMAIN cs : r[i].name = cs[i].name
  BY <1>1, WithUserIs
<1>4. \A i \in DOMAIN cs : \A k : k # "user" => Alike(r[i].args, cs[i].args, k)
  BY <1>1, WithUserIs
<1>5. IsList(r) /\ DOMAIN r = DOMAIN cs /\ StatsIn(r) = StatsIn(cs)
  BY <1>2, <1>3, EachIs
<1>6. ASSUME NEW col, NEW i \in DOMAIN cs, Right(col, cs[i]) PROVE Right(col, r[i])
  <2>1. r[i] = cs[i] \/ "member" \notin DOMAIN cs[i].args
    BY <1>1, WithUserIs
  <2>2. r[i].name = cs[i].name /\ Alike(r[i].args, cs[i].args, "member")
    BY <1>3, <1>4
  <2>3. CASE r[i] = cs[i]
    BY <1>6, <2>3
  <2>4. CASE "member" \notin DOMAIN cs[i].args
    BY <1>6, <2>2, <2>4 DEF Right, Unjoined, Alike
  <2> QED
    BY <2>1, <2>3, <2>4
<1>7. ASSUME Twins(cs) PROVE Twins(r)
  <2>1. PICK i \in DOMAIN cs, j \in DOMAIN cs :
          i # j /\ StatsIn(cs) = {i, j} /\ Apart(cs[i].args, cs[j].args)
    BY <1>7 DEF Twins
  <2>2. \A k : k # "user" => Alike(r[i].args, cs[i].args, k) /\ Alike(r[j].args, cs[j].args, k)
    BY <1>4, <2>1
  <2> DEFINE x == r[i].args
  <2> DEFINE y == r[j].args
  <2> DEFINE v == cs[i].args
  <2> DEFINE w == cs[j].args
  <2>3. \A k : k # "user" => Alike(x, v, k) /\ Alike(y, w, k)
    BY <2>2
  <2>4. Apart(v, w)
    BY <2>1
  <2> HIDE DEF x, y, v, w
  <2>5. \A k : k # "user" => (Alike(x, y, k) <=> Alike(v, w, k))
    <3>1. ASSUME NEW k, k # "user" PROVE Alike(x, y, k) <=> Alike(v, w, k)
      <4>1. Alike(x, v, k) /\ Alike(y, w, k)
        BY <2>3, <3>1
      <4> QED
        BY <4>1 DEF Alike
    <3> QED
      BY <3>1
  <2>6. Apart(x, y)
    BY <2>4, <2>5 DEF Apart
  <2> QED
    BY <1>5, <2>1, <2>6 DEF Twins, x, y
<1>8. ASSUME Monthly(m, cs) PROVE Monthly(m, r)
  <2>1. ASSUME NEW i \in StatsIn(cs), NEW k PROVE InMonth(r[i].args, k) <=> InMonth(cs[i].args, k)
    <3>1. i \in DOMAIN cs
      BY DEF StatsIn
    <3>2. Alike(r[i].args, cs[i].args, "start") /\ Alike(r[i].args, cs[i].args, "end")
      BY <1>4, <3>1
    <3> QED
      BY <3>2 DEF InMonth, Alike
  <2> QED
    BY <1>5, <1>8, <2>1 DEF Monthly
<1> QED
  BY <1>3, <1>4, <1>5, <1>6, <1>7, <1>8 DEF r
-----------------------------------------------------------------------------
(* The invariant: what the calls are at each stage.                        *)

\* The calls are about the person who is meant.
Meant(m, colleague, cs) ==
    Personal(m) => IsList(cs) /\ \A i \in DOMAIN cs : Right(colleague, cs[i])

\* There is one call of statistics at most, or two names have one each.
OneOrPair(m, cs) ==
    "people" \notin m => IsList(cs) /\ (Alone(cs) \/ (NamesTwo(m) /\ Twins(cs)))

\* The two parties of a comparison have one call each.
BothParties(m, cs) == Compares(m) => IsList(cs) /\ (StatsIn(cs) = {} \/ Twins(cs))

\* The months are one call, and later one call for each.
Together(m, cs) == ByMonths(m) => IsList(cs) /\ Alone(cs)
Monthwise(m, cs) == ByMonths(m) => IsList(cs) /\ (StatsIn(cs) = {} \/ Monthly(m, cs))

HasDays(cs) == \A i \in StatsIn(cs) : {"start", "end"} \subseteq DOMAIN cs[i].args

Stages(stage, m, colleague, one, cs, out) ==
    /\ stage = "forced" => Begun(m, cs) /\ (one => Counted(m, cs))
    /\ stage \in {"normalized", "completed", "compared", "expanded"} => Meant(m, colleague, cs)
    /\ stage \in {"normalized", "completed"} /\ one => OneOrPair(m, cs)
    /\ stage = "compared" /\ one => BothParties(m, cs) /\ Together(m, cs)
    /\ stage = "expanded" /\ one => BothParties(m, cs) /\ Monthwise(m, cs)
    /\ stage = "dispatched" => Meant(m, colleague, out) /\ HasDays(out)
    /\ stage = "dispatched" /\ one => BothParties(m, out) /\ Monthwise(m, out)

RulingInv ==
    /\ proposed \in ModelCalls
    /\ LastIs(last)
    /\ ruling = "asked" => called = proposed /\ forced = None
    /\ Stages(ruling, said, Ruling!Colleague(said), Ruling!OneQuestion, called, plan)

LEMMA NormalizedStage ==
    ASSUME NEW m, NEW cs, Begun(m, cs), LastIs(last)
    PROVE  LET n == Ruling!Normalized(m, cs)
           IN  Meant(m, Ruling!Colleague(m), n) /\ (Counted(m, cs) => OneOrPair(m, n))
<1> DEFINE n == Ruling!Normalized(m, cs)
<1>1. IsList(cs) /\ \A i \in DOMAIN cs : Proper(cs[i])
  BY DEF Begun
<1>2. IsList(n)
  BY <1>1, NormalizedIs
<1>3. Personal(m) => \A k \in DOMAIN n : Right(Ruling!Colleague(m), n[k])
  BY <1>1, NormalizedRight
<1>4. Counted(m, cs) => Alone(n) \/ (NamesTwo(m) /\ Twins(n))
  BY <1>1, NormalizedStats DEF Counted
<1> HIDE DEF n
<1>5. Meant(m, Ruling!Colleague(m), n) /\ (Counted(m, cs) => OneOrPair(m, n))
  BY <1>2, <1>3, <1>4 DEF Meant, OneOrPair
<1> QED
  BY <1>5 DEF n

LEMMA CompletedStage ==
    ASSUME NEW m, NEW col, NEW cs
    PROVE  LET r == Ruling!WeeklyCompleted(m, cs)
           IN  (Meant(m, col, cs) => Meant(m, col, r)) /\ (OneOrPair(m, cs) => OneOrPair(m, r))
<1> DEFINE r == Ruling!WeeklyCompleted(m, cs)
<1>1. ASSUME IsList(cs), "people" \notin m
      PROVE  /\ IsList(r) /\ StatsIn(r) = StatsIn(cs)
             /\ \A i \in StatsIn(cs) : i \in DOMAIN r /\ r[i] = cs[i]
             /\ "first" \notin m => r = cs
  BY <1>1, CompletedStats
<1> HIDE DEF r
<1>2. ASSUME Meant(m, col, cs) PROVE Meant(m, col, r)
  BY <1>1, <1>2 DEF Meant, Personal
<1>3. ASSUME OneOrPair(m, cs) PROVE OneOrPair(m, r)
  <2>1. SUFFICES ASSUME "people" \notin m
                 PROVE  IsList(r) /\ (Alone(r) \/ (NamesTwo(m) /\ Twins(r)))
    BY DEF OneOrPair
  <2>2. IsList(cs) /\ (Alone(cs) \/ (NamesTwo(m) /\ Twins(cs)))
    BY <1>3, <2>1 DEF OneOrPair
  <2>3. /\ IsList(r) /\ StatsIn(r) = StatsIn(cs)
        /\ \A i \in StatsIn(cs) : i \in DOMAIN r /\ r[i] = cs[i]
    BY <1>1, <2>1, <2>2
  <2>4. (Alone(cs) => Alone(r)) /\ (Twins(cs) => Twins(r))
    BY <2>3, TwinsStay
  <2> QED
    BY <2>2, <2>3, <2>4
<1> QED
  BY <1>2, <1>3 DEF r

LEMMA ComparedStage ==
    ASSUME NEW m, NEW col, NEW cs
    PROVE  LET r == Ruling!Compared(m, cs)
           IN  /\ Meant(m, col, cs) => Meant(m, col, r)
               /\ OneOrPair(m, cs) => BothParties(m, r) /\ Together(m, r)
<1> DEFINE r == Ruling!Compared(m, cs)
<1>1. ASSUME Meant(m, col, cs) PROVE Meant(m, col, r)
  <2>1. SUFFICES ASSUME Personal(m) PROVE IsList(r) /\ \A i \in DOMAIN r : Right(col, r[i])
    BY DEF Meant
  <2>2. IsList(cs) /\ \A i \in DOMAIN cs : Right(col, cs[i])
    BY <1>1, <2>1 DEF Meant
  <2> QED
    BY <2>1, <2>2, ComparedRight
<1>2. ASSUME OneOrPair(m, cs) PROVE BothParties(m, r)
  <2>1. SUFFICES ASSUME Compares(m) PROVE IsList(r) /\ (StatsIn(r) = {} \/ Twins(r))
    BY DEF BothParties
  <2>2. IsList(cs) /\ (Alone(cs) \/ Twins(cs))
    BY <1>2, <2>1 DEF OneOrPair, Compares
  <2> QED
    BY <2>1, <2>2, ComparedTwins
<1>3. ASSUME OneOrPair(m, cs) PROVE Together(m, r)
  <2>1. SUFFICES ASSUME ByMonths(m) PROVE IsList(r) /\ Alone(r)
    BY DEF Together
  <2>2. IsList(cs) /\ Alone(cs)
    BY <1>3, <2>1 DEF OneOrPair, ByMonths, NamesTwo
  <2>3. r = cs
    BY <2>1, <2>2, ComparedMonths
  <2> QED
    BY <2>2, <2>3
<1> QED
  BY <1>1, <1>2, <1>3

LEMMA ExpandedStage ==
    ASSUME NEW m, NEW col, NEW cs
    PROVE  LET e == Expanded(m, cs)
           IN  /\ Meant(m, col, cs) => Meant(m, col, e)
               /\ BothParties(m, cs) => BothParties(m, e)
               /\ Together(m, cs) => Monthwise(m, e)
<1> DEFINE e == Expanded(m, cs)
<1>1. ASSUME IsList(cs)
      PROVE  /\ IsList(e)
             /\ StatsIn(cs) = {} => StatsIn(e) = {}
             /\ Twins(cs) => Twins(e)
             /\ Alone(cs) /\ ByMonths(m) => StatsIn(e) = {} \/ Monthly(m, e)
  BY <1>1, ExpandedStats
<1>2. ASSUME IsList(cs), \A i \in DOMAIN cs : Right(col, cs[i])
      PROVE  \A k \in DOMAIN e : Right(col, e[k])
  BY <1>2, ExpandedRight
<1> HIDE DEF e
<1>3. ASSUME Meant(m, col, cs) PROVE Meant(m, col, e)
  BY <1>1, <1>2, <1>3 DEF Meant
<1>4. ASSUME BothParties(m, cs) PROVE BothParties(m, e)
  BY <1>1, <1>4 DEF BothParties
<1>5. ASSUME Together(m, cs) PROVE Monthwise(m, e)
  BY <1>1, <1>5 DEF Together, Monthwise
<1> QED
  BY <1>3, <1>4, <1>5 DEF e

LEMMA DispatchedStage ==
    ASSUME NEW m, NEW col, NEW cs
    PROVE  LET r == WithUsers(cs)
           IN  /\ Meant(m, col, cs) => Meant(m, col, r)
               /\ BothParties(m, cs) => BothParties(m, r)
               /\ Monthwise(m, cs) => Monthwise(m, r)
<1> DEFINE r == WithUsers(cs)
<1>1. ASSUME IsList(cs)
      PROVE  /\ IsList(r) /\ DOMAIN r = DOMAIN cs /\ StatsIn(r) = StatsIn(cs)
             /\ \A c \in {col} : \A i \in DOMAIN cs : Right(c, cs[i]) => Right(c, r[i])
             /\ Twins(cs) => Twins(r)
             /\ Monthly(m, cs) => Monthly(m, r)
  BY <1>1, DispatchedIs
<1> HIDE DEF r
<1>3. ASSUME Meant(m, col, cs) PROVE Meant(m, col, r)
  BY <1>1, <1>3 DEF Meant
<1>4. ASSUME BothParties(m, cs) PROVE BothParties(m, r)
  BY <1>1, <1>4 DEF BothParties
<1>5. ASSUME Monthwise(m, cs) PROVE Monthwise(m, r)
  BY <1>1, <1>5 DEF Monthwise
<1> QED
  BY <1>3, <1>4, <1>5 DEF r

-----------------------------------------------------------------------------
(* The invariant holds at first, and every step keeps it.                  *)

LEMMA LastFirst ==
    ASSUME NEW c \in LastCalls \cup {None}
    PROVE  LastIs(c)
BY RulesAssumption DEF LastIs

LEMMA RulingFirst == Ruling!Init => RulingInv
<1> SUFFICES ASSUME Ruling!Init PROVE RulingInv
  OBVIOUS
<1>1. proposed \in ModelCalls /\ forced = None /\ called = proposed /\ ruling = "asked"
  BY DEF Ruling!Init
<1>2. last \in LastCalls \cup {None}
  BY DEF Ruling!Init
<1>3. LastIs(last)
  BY <1>2, LastFirst
<1>4. Stages(ruling, said, Ruling!Colleague(said), Ruling!OneQuestion, called, plan)
  BY <1>1 DEF Stages
<1> QED
  BY <1>1, <1>3, <1>4 DEF RulingInv

\* Statistics without days are asked back.
LEMMA DispatchedDays ==
    ASSUME NEW m, NEW cs, \A i \in DOMAIN cs : ~Ruling!Refused(m, cs[i])
    PROVE  HasDays(WithUsers(cs))
<1> DEFINE r == WithUsers(cs)
<1>1. DOMAIN r = DOMAIN cs /\ \A i \in DOMAIN cs : r[i] = Ruling!WithUser(cs[i])
  BY DEF WithUsers
<1> HIDE DEF r
<1>2. ASSUME NEW i \in StatsIn(r) PROVE {"start", "end"} \subseteq DOMAIN r[i].args
  <2>1. i \in DOMAIN cs /\ r[i] = Ruling!WithUser(cs[i]) /\ r[i].name = "compute_statistics"
    BY <1>1, <1>2 DEF StatsIn
  <2> DEFINE c == cs[i]
  <2> DEFINE d == Ruling!WithUser(c)
  <2>2. ~Ruling!Refused(m, c)
    BY <2>1
  <2>3. r[i] = d
    BY <2>1
  <2> HIDE DEF c, d
  <2>4. d.name = c.name /\ \A k : k # "user" => Alike(d.args, c.args, k)
    BY WithUserIs DEF d
  <2>5. c.name = "compute_statistics"
    BY <2>1, <2>3, <2>4
  <2>6. Ruling!Required(c.name) \subseteq DOMAIN c.args
    BY <2>2 DEF Ruling!Refused
  <2>7. {"start", "end"} \subseteq DOMAIN c.args
    BY <2>5, <2>6 DEF Ruling!Required
  <2>8. {"start", "end"} \subseteq DOMAIN d.args
    BY <2>4, <2>7 DEF Alike
  <2> QED
    BY <2>3, <2>8
<1>3. HasDays(r)
  BY <1>2 DEF HasDays
<1> QED
  BY <1>3 DEF r

LEMMA RulingNext == RulingInv /\ [Ruling!Next]_(Ruling!vars) => RulingInv'
<1> SUFFICES ASSUME RulingInv, [Ruling!Next]_(Ruling!vars) PROVE RulingInv'
  OBVIOUS
<1> DEFINE col == Ruling!Colleague(said)
<1> DEFINE one == Ruling!OneQuestion
<1>1. /\ proposed \in ModelCalls /\ LastIs(last)
      /\ ruling = "asked" => called = proposed /\ forced = None
      /\ Stages(ruling, said, col, one, called, plan)
  BY DEF RulingInv
<1>2. CASE UNCHANGED Ruling!vars
  <2>1. UNCHANGED <<ruling, said, last, proposed, forced, called, plan>>
    BY <1>2 DEF Ruling!vars
  <2>2. col' = col /\ one' = one
    BY <2>1 DEF Ruling!Colleague, Ruling!Has, Ruling!OneQuestion
  <2> HIDE DEF col, one
  <2>3. Stages(ruling', said', col', one', called', plan')
    BY <1>1, <2>1, <2>2
  <2> QED
    BY <1>1, <2>1, <2>3 DEF RulingInv, col, one
<1>3. CASE Ruling!Force
  <2>1. /\ ruling = "asked" /\ ruling' = "forced" /\ UNCHANGED <<said, last, proposed, plan>>
        /\ called' = IF Ruling!Forced(said) = None THEN called ELSE Ruling!Forced(said)
        /\ forced' = Ruling!Forced(said)
    BY <1>3 DEF Ruling!Force, Ruling!Becomes
  <2>2. CASE Ruling!Forced(said) = None
    <3>1. called' = proposed /\ forced' = None
      BY <1>1, <2>1, <2>2
    <3>2. one' <=> Ruling!Len(proposed) = 1
      BY <2>1, <3>1 DEF Ruling!OneQuestion
    <3>3. Begun(said, proposed) /\ (Ruling!Len(proposed) = 1 => Counted(said, proposed))
      BY <1>1, ProposedIs
    <3> HIDE DEF col, one
    <3>4. Stages(ruling', said', col', one', called', plan')
      BY <2>1, <3>1, <3>2, <3>3 DEF Stages
    <3> QED
      BY <1>1, <2>1, <3>4 DEF RulingInv, col, one
  <2>3. CASE Ruling!Forced(said) # None
    <3>1. Begun(said, called') /\ Counted(said, called')
      BY <2>1, <2>3, ForcedIs
    <3> HIDE DEF col, one
    <3>2. Stages(ruling', said', col', one', called', plan')
      BY <2>1, <3>1 DEF Stages
    <3> QED
      BY <1>1, <2>1, <3>2 DEF RulingInv, col, one
  <2> QED
    BY <2>2, <2>3
<1>4. CASE Ruling!Normalize
  <2>1. /\ ruling = "forced" /\ ruling' = "normalized" /\ UNCHANGED <<said, last, proposed, plan, forced>>
        /\ called' = Ruling!Normalized(said, called)
    BY <1>4 DEF Ruling!Normalize, Ruling!Becomes
  <2>2. col' = col /\ one' = one
    BY <2>1 DEF Ruling!Colleague, Ruling!Has, Ruling!OneQuestion
  <2>3. Begun(said, called) /\ (one => Counted(said, called))
    BY <1>1, <2>1 DEF Stages
  <2>4. Meant(said, col, called') /\ (Counted(said, called) => OneOrPair(said, called'))
    BY <1>1, <2>1, <2>3, NormalizedStage
  <2> HIDE DEF col, one
  <2>5. Stages(ruling', said', col', one', called', plan')
    BY <2>1, <2>2, <2>3, <2>4 DEF Stages
  <2> QED
    BY <1>1, <2>1, <2>5 DEF RulingInv, col, one
<1>5. CASE Ruling!Complete
  <2>1. /\ ruling = "normalized" /\ ruling' = "completed" /\ UNCHANGED <<said, last, proposed, plan, forced>>
        /\ called' = Ruling!WeeklyCompleted(said, called)
    BY <1>5 DEF Ruling!Complete, Ruling!Becomes
  <2>2. col' = col /\ one' = one
    BY <2>1 DEF Ruling!Colleague, Ruling!Has, Ruling!OneQuestion
  <2> HIDE DEF col, one
  <2>3. Meant(said, col, called) /\ (one => OneOrPair(said, called))
    BY <1>1, <2>1 DEF Stages
  <2>4. /\ Meant(said, col, called) => Meant(said, col, called')
        /\ OneOrPair(said, called) => OneOrPair(said, called')
    BY <2>1, CompletedStage
  <2>5. Stages(ruling', said', col', one', called', plan')
    BY <2>1, <2>2, <2>3, <2>4 DEF Stages
  <2> QED
    BY <1>1, <2>1, <2>5 DEF RulingInv, col, one
<1>6. CASE Ruling!Compare
  <2>1. /\ ruling = "completed" /\ ruling' = "compared" /\ UNCHANGED <<said, last, proposed, plan, forced>>
        /\ called' = Ruling!Compared(said, called)
    BY <1>6 DEF Ruling!Compare, Ruling!Becomes
  <2>2. col' = col /\ one' = one
    BY <2>1 DEF Ruling!Colleague, Ruling!Has, Ruling!OneQuestion
  <2> HIDE DEF col, one
  <2>3. Meant(said, col, called) /\ (one => OneOrPair(said, called))
    BY <1>1, <2>1 DEF Stages
  <2>4. /\ Meant(said, col, called) => Meant(said, col, called')
        /\ OneOrPair(said, called) => BothParties(said, called') /\ Together(said, called')
    BY <2>1, ComparedStage
  <2>5. Stages(ruling', said', col', one', called', plan')
    BY <2>1, <2>2, <2>3, <2>4 DEF Stages
  <2> QED
    BY <1>1, <2>1, <2>5 DEF RulingInv, col, one
<1>7. CASE Ruling!Expand
  <2>1. /\ ruling = "compared" /\ ruling' = "expanded" /\ UNCHANGED <<said, last, proposed, plan, forced>>
        /\ called' = Expanded(said, called)
    BY <1>7 DEF Ruling!Expand, Ruling!Becomes, Expanded, CapEach
  <2>2. col' = col /\ one' = one
    BY <2>1 DEF Ruling!Colleague, Ruling!Has, Ruling!OneQuestion
  <2> HIDE DEF col, one
  <2>3. Meant(said, col, called) /\ (one => BothParties(said, called) /\ Together(said, called))
    BY <1>1, <2>1 DEF Stages
  <2>4. /\ Meant(said, col, called) => Meant(said, col, called')
        /\ BothParties(said, called) => BothParties(said, called')
        /\ Together(said, called) => Monthwise(said, called')
    BY <2>1, ExpandedStage
  <2>5. Stages(ruling', said', col', one', called', plan')
    BY <2>1, <2>2, <2>3, <2>4 DEF Stages
  <2> QED
    BY <1>1, <2>1, <2>5 DEF RulingInv, col, one
<1>8. CASE Ruling!AskBack
  <2>1. /\ ruling' = "asked back" /\ UNCHANGED <<said, last, proposed, plan, forced>>
    BY <1>8 DEF Ruling!AskBack, Ruling!Becomes
  <2> HIDE DEF col, one
  <2>2. Stages(ruling', said', col', one', called', plan')
    BY <2>1 DEF Stages
  <2> QED
    BY <1>1, <2>1, <2>2 DEF RulingInv, col, one
<1>9. CASE Ruling!Dispatch
  <2>1. /\ ruling = "expanded" /\ ruling' = "dispatched"
        /\ UNCHANGED <<said, last, proposed, forced, called>>
        /\ plan' = WithUsers(called)
        /\ \A i \in DOMAIN called : ~Ruling!Refused(said, called[i])
    BY <1>9 DEF Ruling!Dispatch, WithUsers
  <2>2. col' = col /\ one' = one
    BY <2>1 DEF Ruling!Colleague, Ruling!Has, Ruling!OneQuestion
  <2> HIDE DEF col, one
  <2>3. Meant(said, col, called) /\ (one => BothParties(said, called) /\ Monthwise(said, called))
    BY <1>1, <2>1 DEF Stages
  <2>4. /\ Meant(said, col, called) => Meant(said, col, plan')
        /\ BothParties(said, called) => BothParties(said, plan')
        /\ Monthwise(said, called) => Monthwise(said, plan')
    BY <2>1, DispatchedStage
  <2>5. HasDays(plan')
    BY <2>1, DispatchedDays
  <2>6. Stages(ruling', said', col', one', called', plan')
    BY <2>1, <2>2, <2>3, <2>4, <2>5 DEF Stages
  <2> QED
    BY <1>1, <2>1, <2>6 DEF RulingInv, col, one
<1> QED
  BY <1>2, <1>3, <1>4, <1>5, <1>6, <1>7, <1>8, <1>9 DEF Ruling!Next

-----------------------------------------------------------------------------
(* What the invariant says of the calls that are dispatched.               *)

LEMMA RulingRightPerson == RulingInv => Ruling!RightPerson
<1> SUFFICES ASSUME RulingInv, ruling = "dispatched", Personal(said), NEW i \in DOMAIN plan
             PROVE  LET as == plan[i].args IN
                    /\ ~(Ruling!Has(as, "user") /\ Ruling!Has(as, "member"))
                    /\ Ruling!Colleague(said) # None /\ plan[i].name \in Ruling!PersonTools =>
                         Ruling!Has(as, "member") /\ as["member"] = Ruling!Colleague(said)
  BY DEF Ruling!RightPerson, Personal
<1>1. Right(Ruling!Colleague(said), plan[i])
  BY DEF RulingInv, Stages, Meant
<1> QED
  BY <1>1 DEF Right, Unjoined, Ruling!Has

LEMMA EmptyIs ==
    ASSUME NEW s, IsList(s), Len(s) = 0
    PROVE  s = <<>>
<1> DEFINE S == {s[i] : i \in DOMAIN s}
<1>1. s \in Seq(S)
  BY DEF IsList
<1> HIDE DEF S
<1> QED
  BY <1>1, EmptySeq

LEMMA OnlyDiffer ==
    ASSUME NEW as, NEW bs, NEW keys, Ruling!Only(as, keys) = Ruling!Only(bs, keys)
    PROVE  \A k \in keys : Alike(as, bs, k)
<1> DEFINE o == Ruling!Only(as, keys)
<1>1. \A k \in keys : Alike(o, as, k)
  BY OnlyAlike
<1>2. \A k \in keys : Alike(o, bs, k)
  BY OnlyAlike
<1> HIDE DEF o
<1> QED
  BY <1>1, <1>2 DEF Alike

LEMMA RulingPartiesOnce == RulingInv => Ruling!PartiesOnce
<1> DEFINE stats == Ruling!Planned("compute_statistics")
<1> DEFINE keys == {"member", "project", "dept"}
<1> SUFFICES ASSUME RulingInv, ruling = "dispatched", Ruling!OneQuestion, stats # <<>>, Compares(said)
             PROVE  /\ Ruling!Len(stats) = 2
                    /\ Ruling!Only(stats[1].args, keys) # Ruling!Only(stats[2].args, keys)
                    /\ stats[1].args["start"] = stats[2].args["start"]
                    /\ stats[1].args["end"] = stats[2].args["end"]
  BY DEF Ruling!PartiesOnce, Compares
<1>1. IsList(plan) /\ (StatsIn(plan) = {} \/ Twins(plan)) /\ HasDays(plan)
  BY DEF RulingInv, Stages, BothParties
<1>2. stats = Ruling!Those(plan, "compute_statistics")
  BY DEF Ruling!Planned
<1>3. IsList(stats)
  BY <1>1, <1>2, ThoseIs
<1>4. StatsIn(plan) # {}
  <2>1. ASSUME StatsIn(plan) = {} PROVE FALSE
    <3>1. Len(stats) = 0
      BY <1>1, <1>2, <2>1, NoStatistics
    <3> HIDE DEF stats
    <3>2. stats = <<>>
      BY <1>3, <3>1, EmptyIs
    <3> QED
      BY <3>2
  <2> QED
    BY <2>1
<1>5. PICK i \in DOMAIN plan, j \in DOMAIN plan :
        i # j /\ StatsIn(plan) = {i, j} /\ Apart(plan[i].args, plan[j].args)
  BY <1>1, <1>4 DEF Twins
<1>6. /\ Len(stats) = 2
      /\ \/ stats[1] = plan[i] /\ stats[2] = plan[j]
         \/ stats[1] = plan[j] /\ stats[2] = plan[i]
  BY <1>1, <1>2, <1>5, TwoStatistics
<1>7. {"start", "end"} \subseteq DOMAIN plan[i].args /\ {"start", "end"} \subseteq DOMAIN plan[j].args
  BY <1>1, <1>5 DEF HasDays
<1>8. Ruling!Len(stats) = Len(stats)
  OBVIOUS
<1>9. /\ plan[i].args["start"] = plan[j].args["start"]
      /\ plan[i].args["end"] = plan[j].args["end"]
  BY <1>5, <1>7 DEF Apart, Alike
<1>10. Ruling!Only(plan[i].args, keys) # Ruling!Only(plan[j].args, keys)
  <2>1. \E k \in keys : ~Alike(plan[i].args, plan[j].args, k)
    BY <1>5 DEF Apart
  <2> HIDE DEF keys
  <2> QED
    BY <2>1, OnlyDiffer
<1> HIDE DEF stats
<1> QED
  BY <1>6, <1>8, <1>9, <1>10

-----------------------------------------------------------------------------
(* The days of the months that are named.                                  *)

OfMonth(k) ==
    {d \in Int : /\ (d - 1) \div MonthDays = k - 1
                 /\ (d - 1) \div MonthDays = Ruling!CurrentMonth - 1 => d <= Today}

LEMMA DaysAre ==
    ASSUME NEW c, NEW k \in 1..3, InMonth(c.args, k)
    PROVE  Ruling!Days(c) = OfMonth(k)
<1>1. Ruling!Days(c) = Ruling!First(k) .. To(k)
  BY DEF Ruling!Days, InMonth
<1>2. Ruling!First(k) \in Int /\ To(k) \in Int
  BY MonthIs
<1>3. ASSUME NEW d PROVE d \in Ruling!Days(c) <=> d \in OfMonth(k)
  <2>1. d \in Ruling!Days(c) <=> d \in Int /\ Ruling!First(k) <= d /\ d <= To(k)
    BY <1>1, <1>2
  <2>2. CASE d \in Int
    BY <2>1, <2>2, DayIs DEF OfMonth
  <2>3. CASE d \notin Int
    BY <2>1, <2>3 DEF OfMonth
  <2> QED
    BY <2>2, <2>3
<1> QED
  BY <1>3

LEMMA MonthsApart ==
    ASSUME NEW k \in 1..3, NEW n \in 1..3, k # n
    PROVE  OfMonth(k) \cap OfMonth(n) = {}
<1>1. ASSUME NEW d \in OfMonth(k), d \in OfMonth(n) PROVE FALSE
  <2>1. k - 1 = n - 1
    BY <1>1 DEF OfMonth
  <2> QED
    BY <2>1
<1> QED
  BY <1>1

LEMMA MonthWithin ==
    ASSUME NEW k \in 1..3
    PROVE  OfMonth(k) \subseteq 1..(3 * MonthDays)
<1> SUFFICES ASSUME NEW d \in OfMonth(k) PROVE d \in 1..(3 * MonthDays)
  OBVIOUS
<1>1. MonthDays \in Nat \ {0} /\ Today \in Nat \ {0}
  BY RulesAssumption
<1>2. d \in Int /\ Ruling!First(k) <= d /\ d <= To(k)
  BY DayIs DEF OfMonth
<1>3. /\ Ruling!First(k) = MonthDays * (k - 1) + 1
      /\ Ruling!LastDay(k) = MonthDays * (k - 1) + MonthDays
  BY MonthIs
<1>4. To(k) <= Ruling!LastDay(k)
  <2>1. Ruling!LastDay(k) \in Int
    BY <1>1, <1>3
  <2> QED
    BY <1>1, <2>1 DEF To
<1>5. MonthDays * (k - 1) \in Nat /\ MonthDays * (k - 1) + MonthDays <= 3 * MonthDays
  <2>1. k = 1 \/ k = 2 \/ k = 3
    OBVIOUS
  <2>2. MonthDays * 0 = 0 /\ MonthDays * 1 = MonthDays /\ MonthDays * 2 = MonthDays + MonthDays
        /\ 3 * MonthDays = MonthDays + MonthDays + MonthDays
    BY <1>1
  <2>3. CASE k = 1
    BY <1>1, <2>2, <2>3
  <2>4. CASE k = 2
    BY <1>1, <2>2, <2>4
  <2>5. CASE k = 3
    BY <1>1, <2>2, <2>5
  <2> QED
    BY <2>1, <2>3, <2>4, <2>5
<1> DEFINE p == MonthDays * (k - 1)
<1> HIDE DEF p
<1>6. Ruling!First(k) = p + 1 /\ Ruling!LastDay(k) = p + MonthDays /\ p \in Nat
      /\ p + MonthDays <= 3 * MonthDays
  BY <1>3, <1>5 DEF p
<1>7. To(k) \in Int
  BY MonthIs
<1> QED
  BY <1>1, <1>2, <1>4, <1>6, <1>7

NamedDays(m) ==
    {d \in 1..(Ruling!Len(Ruling!MonthNames) * MonthDays) :
       /\ \E k \in DOMAIN Ruling!MonthNames :
            Ruling!MonthNames[k] \in m /\ (d - 1) \div MonthDays = k - 1
       /\ (d - 1) \div MonthDays = Ruling!CurrentMonth - 1 => d <= Today}

LEMMA NamedDaysAre ==
    ASSUME NEW m, NEW d
    PROVE  d \in NamedDays(m) <=> \E k \in Named(m) : d \in OfMonth(k)
<1>1. DOMAIN Ruling!MonthNames = 1..3 /\ Ruling!Len(Ruling!MonthNames) = 3
  BY DEF Ruling!MonthNames
<1>2. MonthDays \in Nat \ {0}
  BY RulesAssumption
<1>3. d \in NamedDays(m) <=>
        /\ d \in 1..(3 * MonthDays)
        /\ \E k \in 1..3 : Ruling!MonthNames[k] \in m /\ (d - 1) \div MonthDays = k - 1
        /\ (d - 1) \div MonthDays = Ruling!CurrentMonth - 1 => d <= Today
  BY <1>1 DEF NamedDays
<1>4. ASSUME d \in NamedDays(m) PROVE \E k \in Named(m) : d \in OfMonth(k)
  <2>1. PICK k \in 1..3 : Ruling!MonthNames[k] \in m /\ (d - 1) \div MonthDays = k - 1
    BY <1>3, <1>4
  <2>2. d \in Int
    BY <1>2, <1>3, <1>4
  <2>3. k \in Named(m) /\ d \in OfMonth(k)
    BY <1>3, <1>4, <2>1, <2>2 DEF Named, OfMonth
  <2> QED
    BY <2>3
<1>5. ASSUME NEW k \in Named(m), d \in OfMonth(k) PROVE d \in NamedDays(m)
  <2>1. k \in 1..3 /\ Ruling!MonthNames[k] \in m
    BY DEF Named
  <2>2. d \in 1..(3 * MonthDays)
    BY <1>5, <2>1, MonthWithin
  <2> QED
    BY <1>3, <1>5, <2>1, <2>2 DEF OfMonth
<1> QED
  BY <1>4, <1>5

LEMMA RulingEachDayOnce == RulingInv => Ruling!EachDayOnce
<1> DEFINE stats == Ruling!Planned("compute_statistics")
<1> SUFFICES ASSUME RulingInv, ruling = "dispatched", Ruling!OneQuestion, stats # <<>>, ByMonths(said)
             PROVE  /\ UNION {Ruling!Days(stats[i]) : i \in DOMAIN stats} = NamedDays(said)
                    /\ \A i, j \in DOMAIN stats :
                         i # j => Ruling!Days(stats[i]) \cap Ruling!Days(stats[j]) = {}
  BY DEF Ruling!EachDayOnce, ByMonths, NamedDays
<1>1. IsList(plan) /\ (StatsIn(plan) = {} \/ Monthly(said, plan))
  BY DEF RulingInv, Stages, Monthwise
<1> DEFINE those == Ruling!Those(plan, "compute_statistics")
<1>2. stats = those
  BY DEF Ruling!Planned
<1>3. /\ IsList(stats)
      /\ \A n \in DOMAIN stats : \E i \in StatsIn(plan) : stats[n] = plan[i]
      /\ \A i \in StatsIn(plan) : \E n \in DOMAIN stats : stats[n] = plan[i]
      /\ \A n, p \in DOMAIN stats : n # p =>
           \E i, j \in StatsIn(plan) : i # j /\ stats[n] = plan[i] /\ stats[p] = plan[j]
  <2>1. /\ IsList(those) /\ Len(those) = Cardinality(StatsIn(plan)) /\ IsFiniteSet(StatsIn(plan))
        /\ \A n \in DOMAIN those : \E i \in StatsIn(plan) : those[n] = plan[i]
        /\ \A i \in StatsIn(plan) : \E n \in DOMAIN those : those[n] = plan[i]
        /\ \A n, p \in DOMAIN those : n # p =>
             \E i, j \in StatsIn(plan) : i # j /\ those[n] = plan[i] /\ those[p] = plan[j]
    BY <1>1, ThoseIs
  <2> HIDE DEF stats, those
  <2> QED
    BY <1>2, <2>1
<1>4. Monthly(said, plan)
  <2>1. ASSUME StatsIn(plan) = {} PROVE FALSE
    <3>1. Len(stats) = 0
      BY <1>1, <1>2, <2>1, NoStatistics
    <3> HIDE DEF stats
    <3>2. stats = <<>>
      BY <1>3, <3>1, EmptyIs
    <3> QED
      BY <3>2
  <2> QED
    BY <1>1, <2>1
<1> HIDE DEF stats
<1>5. /\ \A i \in StatsIn(plan) : \E k \in Named(said) : InMonth(plan[i].args, k)
      /\ \A k \in Named(said) : \E i \in StatsIn(plan) : InMonth(plan[i].args, k)
      /\ \A i, j \in StatsIn(plan) : \A k \in Named(said) :
           InMonth(plan[i].args, k) /\ InMonth(plan[j].args, k) => i = j
  BY <1>4 DEF Monthly
<1>6. \A k \in Named(said) : k \in 1..3
  BY DEF Named
<1>7. ASSUME NEW n \in DOMAIN stats
      PROVE  \E k \in Named(said) : Ruling!Days(stats[n]) = OfMonth(k)
  <2>1. PICK i \in StatsIn(plan) : stats[n] = plan[i]
    BY <1>3
  <2>2. PICK k \in Named(said) : InMonth(plan[i].args, k)
    BY <1>5
  <2>3. Ruling!Days(plan[i]) = OfMonth(k)
    BY <1>6, <2>2, DaysAre
  <2> QED
    BY <2>1, <2>3
<1>8. ASSUME NEW k \in Named(said)
      PROVE  \E n \in DOMAIN stats : Ruling!Days(stats[n]) = OfMonth(k)
  <2>1. PICK i \in StatsIn(plan) : InMonth(plan[i].args, k)
    BY <1>5
  <2>2. PICK n \in DOMAIN stats : stats[n] = plan[i]
    BY <1>3
  <2>3. Ruling!Days(plan[i]) = OfMonth(k)
    BY <1>6, <2>1, DaysAre
  <2> QED
    BY <2>2, <2>3
<1>9. ASSUME NEW d
      PROVE  (\E n \in DOMAIN stats : d \in Ruling!Days(stats[n])) <=> d \in NamedDays(said)
  BY <1>7, <1>8, NamedDaysAre
<1>10. UNION {Ruling!Days(stats[i]) : i \in DOMAIN stats} = NamedDays(said)
  BY <1>9
<1>11. ASSUME NEW n \in DOMAIN stats, NEW p \in DOMAIN stats, n # p
       PROVE  Ruling!Days(stats[n]) \cap Ruling!Days(stats[p]) = {}
  <2>1. PICK i \in StatsIn(plan), j \in StatsIn(plan) :
          i # j /\ stats[n] = plan[i] /\ stats[p] = plan[j]
    BY <1>3, <1>11
  <2>2. PICK k \in Named(said) : InMonth(plan[i].args, k)
    BY <1>5
  <2>3. PICK l \in Named(said) : InMonth(plan[j].args, l)
    BY <1>5
  <2>4. k # l
    BY <1>5, <2>1, <2>2, <2>3
  <2>5. Ruling!Days(plan[i]) = OfMonth(k) /\ Ruling!Days(plan[j]) = OfMonth(l)
    BY <1>6, <2>2, <2>3, DaysAre
  <2>6. OfMonth(k) \cap OfMonth(l) = {}
    BY <1>6, <2>4, MonthsApart
  <2> QED
    BY <2>1, <2>5, <2>6
<1>12. \A n, p \in DOMAIN stats :
         n # p => Ruling!Days(stats[n]) \cap Ruling!Days(stats[p]) = {}
  BY <1>11
<1> QED
  BY ONLY <1>10, <1>12, Zenon

\* The calls that replace a question ask for the colleague it means, for each
\* party of a comparison once and for each day of several months once, whatever
\* the message and the calls the model proposes (CallRules).
THEOREM CallsRewritten == Ruling!Spec => []RewrittenRight
<1>1. Ruling!Init => RulingInv
  BY RulingFirst
<1>2. RulingInv /\ [Ruling!Next]_(Ruling!vars) => RulingInv'
  BY RulingNext
<1>3. RulingInv => RewrittenRight
  BY RulingRightPerson, RulingPartiesOnce, RulingEachDayOnce DEF RewrittenRight
<1> QED
  BY <1>1, <1>2, <1>3, PTL DEF Ruling!Spec
=============================================================================
