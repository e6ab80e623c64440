----------------------- MODULE PlanExecution_proofs -----------------------
(***************************************************************************)
(* What the executor guarantees for every plan, any number of tasks and of *)
(* attempts, with or without an interruption.  Four invariants are proved  *)
(* in turn; each uses the ones before it.                                  *)
(***************************************************************************)
EXTENDS PlanExecution, TLAPS

\* A plan has the fields of a plan.
LEMMA PlanFields ==
    ASSUME NEW p \in Plans
    PROVE  /\ p.deps \in [Tasks -> SUBSET (Tasks \cup {Unknown})]
           /\ p.write \in [Tasks -> BOOLEAN]
           /\ p.param \in [Tasks -> Params]
BY PlansAssumption

-----------------------------------------------------------------------------
(* Attempts: how far the attempts of a task have come tells how often its  *)
(* handler was called, whatever failed or timed out in between.            *)

AttemptsOf(t) ==
    /\ invoked[t] = attempt[t]
    /\ attempt[t] <= Attempts(t)
    /\ step[t] \in {"none", "started"} => attempt[t] = 0
    /\ step[t] = "backoff" => attempt[t] < Attempts(t)
    /\ state[t] = "pending" => step[t] = "none"

AttemptsInv == \A t \in Tasks : AttemptsOf(t)

\* A task has at least one attempt, a write exactly one.
LEMMA AttemptsBounds ==
    ASSUME NEW t \in Tasks, plan \in Plans
    PROVE  /\ Attempts(t) \in 1..MaxAttempts
           /\ plan.write[t] => Attempts(t) = 1
BY PlanFields, AttemptsAssumption DEF Attempts

\* Recording the end of a task leaves everything else well typed.
LEMMA FinishTyped ==
    ASSUME TypeOK, NEW t \in Tasks,
           NEW s \in TaskStates, NEW r \in Reports, NEW v \in Values \cup {None},
           Finish(t, s, r, v), UNCHANGED ghostVars
    PROVE  TypeOK'
BY DEF TypeOK, Finish, ghostVars, Steps

\* A reference that is resolved yields a value, any other parameter is kept.
LEMMA InjectedTyped ==
    ASSUME TypeOK, NEW t \in Tasks
    PROVE  Injected(t) \in Params
<1>1. plan.param[t] \in Params
  BY PlanFields DEF TypeOK
<1>2. ASSUME plan.param[t] \in Refs, field[plan.param[t].of] # None
      PROVE  field[plan.param[t].of] \in Values
  BY <1>2 DEF TypeOK, Refs
<1> QED
  BY <1>1, <1>2 DEF Injected, Params

LEMMA GivenUpTyped == ASSUME NEW t PROVE GivenUp(t) \in Reports
BY DEF GivenUp, Reports

LEMMA TypeStep == TypeOK /\ AttemptsInv /\ [Next]_vars => TypeOK'
<1> SUFFICES ASSUME TypeOK, AttemptsInv, [Next]_vars PROVE TypeOK'
  OBVIOUS
<1>1. CASE Begin
  BY <1>1 DEF TypeOK, Begin, taskVars, ghostVars, PlanStates
<1>2. CASE CloseLevel
  <2>1. Level(plan, closed) \subseteq Tasks
    BY DEF Level
  <2> QED
    BY <1>2, <2>1 DEF TypeOK, CloseLevel, taskVars, ghostVars, PlanStates
<1>3. CASE Complete
  BY <1>3 DEF TypeOK, Complete, taskVars, ghostVars, PlanStates
<1>4. CASE Cancel
  BY <1>4 DEF TypeOK, Cancel, ghostVars, PlanStates, Steps
<1>5. ASSUME NEW t \in Tasks, Start(t) PROVE TypeOK'
  BY <1>5 DEF TypeOK, Start, ghostVars, TaskStates, Steps
<1>6. ASSUME NEW t \in Tasks, Refuse(t) PROVE TypeOK'
  BY <1>6, FinishTyped DEF Refuse, TaskStates, Reports
<1>7. ASSUME NEW t \in Tasks, Invoke(t) PROVE TypeOK'
  <2>1. attempt[t] + 1 \in 0..MaxAttempts /\ invoked[t] + 1 \in Nat
    BY <1>7, AttemptsBounds, AttemptsAssumption DEF TypeOK, AttemptsInv, AttemptsOf, Invoke
  <2>2. attempt' \in [Tasks -> 0..MaxAttempts] /\ invoked' \in [Tasks -> Nat]
    BY <1>7, <2>1 DEF TypeOK, Invoke
  <2>3. arg' \in [Tasks -> Params \cup {None}]
    BY <1>7, InjectedTyped DEF TypeOK, Invoke
  <2>4. step' \in [Tasks -> Steps]
    BY <1>7 DEF TypeOK, Invoke, Steps
  <2> QED
    BY <1>7, <2>2, <2>3, <2>4 DEF TypeOK, Invoke
<1>8. ASSUME NEW t \in Tasks, Succeed(t) PROVE TypeOK'
  BY <1>8, FinishTyped DEF Succeed, TaskStates, Reports
<1>9. ASSUME NEW t \in Tasks, FailDefinitely(t) PROVE TypeOK'
  BY <1>9, FinishTyped DEF FailDefinitely, TaskStates, Reports
<1>10. ASSUME NEW t \in Tasks, ReportUnknown(t) PROVE TypeOK'
  BY <1>10, FinishTyped, GivenUpTyped DEF ReportUnknown, TaskStates
<1>11. ASSUME NEW t \in Tasks, FailTransiently(t) PROVE TypeOK'
  <2>1. CASE attempt[t] < Attempts(t)
    BY <1>11, <2>1 DEF FailTransiently, TypeOK, ghostVars, Steps
  <2>2. CASE ~(attempt[t] < Attempts(t))
    BY <1>11, <2>2, FinishTyped, GivenUpTyped DEF FailTransiently, TaskStates
  <2> QED
    BY <2>1, <2>2
<1>12. ASSUME NEW t \in Tasks, TimeOut(t) PROVE TypeOK'
  BY <1>12, FinishTyped, GivenUpTyped DEF TimeOut, TaskStates
<1>13. ASSUME NEW t \in Tasks, Land(t) PROVE TypeOK'
  BY <1>13 DEF TypeOK, Land, taskVars
<1>14. CASE UNCHANGED vars
  BY <1>14 DEF TypeOK, vars, taskVars, ghostVars
<1> QED
  BY <1>1, <1>2, <1>3, <1>4, <1>5, <1>6, <1>7, <1>8, <1>9, <1>10, <1>11, <1>12,
     <1>13, <1>14 DEF Next, Executor, Run

LEMMA AttemptsStep == TypeOK /\ AttemptsInv /\ [Next]_vars => AttemptsInv'
<1> SUFFICES ASSUME TypeOK, AttemptsInv, [Next]_vars, NEW u \in Tasks
             PROVE  AttemptsOf(u)'
  BY DEF AttemptsInv
<1> USE DEF TypeOK
<1>1. AttemptsOf(u)
  BY DEF AttemptsInv
<1>2. ASSUME plan' = plan PROVE Attempts(u)' = Attempts(u)
  BY <1>2 DEF Attempts
<1>3. ASSUME plan' = plan, invoked' = invoked, attempt' = attempt, step'[u] = step[u],
             state'[u] = state[u]
      PROVE  AttemptsOf(u)'
  BY <1>1, <1>2, <1>3 DEF AttemptsOf
<1>4. ASSUME plan' = plan, invoked' = invoked, attempt' = attempt,
             step'[u] \in {"done", "cancelled"}, state'[u] # "pending"
      PROVE  AttemptsOf(u)'
  BY <1>1, <1>2, <1>4 DEF AttemptsOf
<1>5. ASSUME NEW t \in Tasks, NEW s \in {"completed", "failed"}, NEW r, NEW v,
             Finish(t, s, r, v), UNCHANGED ghostVars
      PROVE  AttemptsOf(u)'
  BY <1>3, <1>4, <1>5 DEF Finish, ghostVars
<1>6. CASE Begin \/ CloseLevel \/ Complete \/ UNCHANGED vars
  BY <1>3, <1>6 DEF Begin, CloseLevel, Complete, vars, taskVars, ghostVars
<1>7. CASE Cancel
  BY <1>1, <1>3, <1>4, <1>7 DEF Cancel, ghostVars, AttemptsOf
<1>8. ASSUME NEW t \in Tasks, Start(t) PROVE AttemptsOf(u)'
  BY <1>1, <1>2, <1>3, <1>8 DEF Start, ghostVars, AttemptsOf
<1>9. ASSUME NEW t \in Tasks, Refuse(t) PROVE AttemptsOf(u)'
  BY <1>5, <1>9 DEF Refuse
<1>10. ASSUME NEW t \in Tasks, Invoke(t) PROVE AttemptsOf(u)'
  <2>1. CASE u = t
    <3>1. attempt[t] < Attempts(t)
      <4>1. Attempts(t) \in 1..MaxAttempts
        BY AttemptsBounds
      <4>2. CASE step[t] = "started"
        BY <1>1, <2>1, <4>1, <4>2, AttemptsAssumption DEF AttemptsOf
      <4>3. CASE step[t] = "backoff"
        BY <1>1, <2>1, <4>3 DEF AttemptsOf
      <4> QED
        BY <1>10, <4>2, <4>3 DEF Invoke
    <3>2. /\ attempt'[t] = attempt[t] + 1 /\ invoked'[t] = invoked[t] + 1
          /\ step'[t] = "calling"
      BY <1>10 DEF Invoke
    <3>3. Attempts(t) \in Nat /\ attempt[t] \in Nat
      BY AttemptsBounds
    <3>4. Attempts(t)' = Attempts(t)
      BY <1>2, <1>10, <2>1 DEF Invoke
    <3>5. invoked[t] = attempt[t]
      BY <1>1, <2>1 DEF AttemptsOf
    <3>6. state' = state /\ state[t] # "pending"
      BY <1>1, <1>10, <2>1 DEF Invoke, AttemptsOf
    <3> QED
      BY <2>1, <3>1, <3>2, <3>3, <3>4, <3>5, <3>6 DEF AttemptsOf
  <2>2. CASE u # t
    BY <1>1, <1>2, <1>10, <2>2 DEF Invoke, AttemptsOf
  <2> QED
    BY <2>1, <2>2
<1>11. ASSUME NEW t \in Tasks, Succeed(t) \/ FailDefinitely(t) \/ ReportUnknown(t)
       PROVE  AttemptsOf(u)'
  BY <1>5, <1>11 DEF Succeed, FailDefinitely, ReportUnknown
<1>12. ASSUME NEW t \in Tasks, FailTransiently(t) PROVE AttemptsOf(u)'
  <2>1. CASE attempt[t] < Attempts(t)
    BY <1>1, <1>2, <1>12, <2>1 DEF FailTransiently, ghostVars, AttemptsOf
  <2>2. CASE ~(attempt[t] < Attempts(t))
    BY <1>5, <1>12, <2>2 DEF FailTransiently
  <2> QED
    BY <2>1, <2>2
<1>13. ASSUME NEW t \in Tasks, TimeOut(t) PROVE AttemptsOf(u)'
  BY <1>5, <1>13 DEF TimeOut
<1>14. ASSUME NEW t \in Tasks, Land(t) PROVE AttemptsOf(u)'
  BY <1>3, <1>14 DEF Land, taskVars
<1> QED
  BY <1>6, <1>7, <1>8, <1>9, <1>10, <1>11, <1>12, <1>13, <1>14 DEF Next, Executor, Run

LEMMA TypeInit == Init => TypeOK /\ AttemptsInv
<1> SUFFICES ASSUME Init PROVE TypeOK /\ AttemptsInv
  OBVIOUS
<1>1. TypeOK
  BY AttemptsAssumption DEF Init, TypeOK, PlanStates, TaskStates, Steps, Reports
<1>2. ASSUME NEW t \in Tasks PROVE AttemptsOf(t)
  <2>1. Attempts(t) \in 1..MaxAttempts
    BY <1>1, AttemptsBounds DEF TypeOK
  <2> QED
    BY <2>1, AttemptsAssumption DEF Init, AttemptsOf
<1> QED
  BY <1>1, <1>2 DEF AttemptsInv

LEMMA TypeAndAttempts == Spec => [](TypeOK /\ AttemptsInv)
<1>1. TypeOK /\ AttemptsInv /\ [Next]_vars => (TypeOK /\ AttemptsInv)'
  BY TypeStep, AttemptsStep
<1> QED
  BY TypeInit, <1>1, PTL DEF Spec

\* Every variable of the executor keeps its type; in particular no task is
\* tried more than MaxAttempts times.
THEOREM ExecutionTypeOK == Spec => []TypeOK
BY TypeAndAttempts, PTL

\* The handler of a write is called at most once: retry_async gives a write
\* one attempt, and no timeout or failure restarts a task.
THEOREM WriteOnce == Spec => []WriteInvokedOnce
<1>1. TypeOK /\ AttemptsInv => WriteInvokedOnce
  BY AttemptsBounds DEF TypeOK, AttemptsInv, AttemptsOf, WriteInvokedOnce
<1> QED
  BY <1>1, TypeAndAttempts, PTL

-----------------------------------------------------------------------------
(* Landed writes: only a write whose handler was called can have landed, so *)
(* a task that was refused, or never called, has not.                       *)

LandedOf(t) ==
    t \in landed =>
        /\ plan.write[t]
        /\ invoked[t] > 0
        /\ step[t] = "done" => report[t] \in {"ok", "unknown"}

LandedInv == \A t \in Tasks : LandedOf(t)

LEMMA LandedStep == TypeOK /\ AttemptsInv /\ LandedInv /\ [Next]_vars => LandedInv'
<1> SUFFICES ASSUME TypeOK, AttemptsInv, LandedInv, [Next]_vars, NEW u \in Tasks
             PROVE  LandedOf(u)'
  BY DEF LandedInv
<1> USE DEF TypeOK
<1>1. LandedOf(u) /\ AttemptsOf(u)
  BY DEF LandedInv, AttemptsInv
<1>2. ASSUME plan' = plan, landed' = landed, report' = report,
             invoked[u] > 0 => invoked'[u] > 0, step'[u] = step[u] \/ step'[u] # "done"
      PROVE  LandedOf(u)'
  BY <1>1, <1>2 DEF LandedOf
<1>3. ASSUME NEW t \in Tasks, NEW s, NEW r, NEW v, Finish(t, s, r, v), UNCHANGED ghostVars,
             t \in landed => r \in {"ok", "unknown"}
      PROVE  LandedOf(u)'
  BY <1>1, <1>3 DEF Finish, ghostVars, LandedOf
<1>4. ASSUME NEW t \in Tasks PROVE t \in landed => GivenUp(t) \in {"ok", "unknown"}
  BY DEF LandedInv, LandedOf, GivenUp
<1>5. CASE Begin \/ CloseLevel \/ Complete \/ UNCHANGED vars
  BY <1>2, <1>5 DEF Begin, CloseLevel, Complete, vars, taskVars, ghostVars
<1>6. CASE Cancel
  BY <1>2, <1>6 DEF Cancel, ghostVars
<1>7. ASSUME NEW t \in Tasks, Start(t) PROVE LandedOf(u)'
  BY <1>2, <1>7 DEF Start, ghostVars
<1>8. ASSUME NEW t \in Tasks, Refuse(t) PROVE LandedOf(u)'
  <2>1. t \notin landed
    BY <1>8 DEF Refuse, LandedInv, LandedOf, AttemptsInv, AttemptsOf
  <2> QED
    BY <1>3, <1>8, <2>1 DEF Refuse
<1>9. ASSUME NEW t \in Tasks, Invoke(t) PROVE LandedOf(u)'
  <2>1. invoked[u] > 0 => invoked'[u] > 0
    BY <1>9 DEF Invoke
  <2>2. step'[u] = step[u] \/ step'[u] # "done"
    BY <1>9 DEF Invoke
  <2> QED
    BY <1>2, <1>9, <2>1, <2>2 DEF Invoke
<1>10. ASSUME NEW t \in Tasks, Succeed(t) \/ FailDefinitely(t) PROVE LandedOf(u)'
  BY <1>3, <1>10 DEF Succeed, FailDefinitely
<1>11. ASSUME NEW t \in Tasks, ReportUnknown(t) \/ TimeOut(t) PROVE LandedOf(u)'
  BY <1>3, <1>4, <1>11 DEF ReportUnknown, TimeOut
<1>12. ASSUME NEW t \in Tasks, FailTransiently(t) PROVE LandedOf(u)'
  <2>1. CASE attempt[t] < Attempts(t)
    BY <1>2, <1>12, <2>1 DEF FailTransiently, ghostVars
  <2>2. CASE ~(attempt[t] < Attempts(t))
    BY <1>3, <1>4, <1>12, <2>2 DEF FailTransiently
  <2> QED
    BY <2>1, <2>2
<1>13. ASSUME NEW t \in Tasks, Land(t) PROVE LandedOf(u)'
  BY <1>1, <1>13 DEF Land, taskVars, LandedOf
<1> QED
  BY <1>5, <1>6, <1>7, <1>8, <1>9, <1>10, <1>11, <1>12, <1>13 DEF Next, Executor, Run

\* A write the backend committed is never reported as a definite failure:
\* whatever gives a write up once it was sent reports an unknown result.
THEOREM NeverDenied == Spec => []CommittedNeverDenied
<1>1. Init => LandedInv
  BY DEF Init, LandedInv, LandedOf
<1>2. TypeOK /\ LandedInv => CommittedNeverDenied
  BY DEF TypeOK, LandedInv, LandedOf, CommittedNeverDenied
<1> QED
  BY <1>1, <1>2, LandedStep, TypeAndAttempts, PTL DEF Spec

-----------------------------------------------------------------------------
(* Levels: the closed levels hold completed tasks only, and a task that has *)
(* been started has all its dependencies among them.                        *)

LevelOf(t) ==
    /\ t \in closed => step[t] = "done" /\ state[t] = "completed"
    /\ step[t] # "none" => plan.deps[t] \subseteq closed
    /\ step[t] = "done" => state[t] \in {"completed", "failed"}
    /\ status = "pending" => step[t] = "none"
    /\ status = "cancelled" => step[t] \in {"none", "done", "cancelled"}
    /\ status \in {"completed", "failed"} => step[t] \in {"none", "done"}
    /\ status = "running" => step[t] # "cancelled"

LevelInv ==
    /\ \A t \in Tasks : LevelOf(t)
    /\ status \in {"running", "completed"} => Valid(plan)
    /\ status = "completed" => closed = Tasks

\* A valid plan whose next level is empty has no task left: otherwise the
\* tasks left would depend on one another in a circle.
LEMMA EmptyLevel ==
    ASSUME NEW p, Valid(p), NEW done, done \subseteq Tasks, Level(p, done) = {}
    PROVE  done = Tasks
<1> DEFINE S == Tasks \ done
<1>1. ASSUME NEW t \in S PROVE p.deps[t] \cap S # {}
  <2>1. ~(p.deps[t] \subseteq done)
    BY DEF Level
  <2>2. PICK d \in p.deps[t] : d \notin done
    BY <2>1
  <2>3. d \in Tasks
    BY <2>2 DEF Valid
  <2> QED
    BY <2>2, <2>3
<1>2. S = {}
  <2>1. S \in SUBSET Tasks
    OBVIOUS
  <2>2. ~(S # {} /\ \A t \in S : p.deps[t] \cap S # {})
    <3> HIDE DEF S
    <3> QED
      BY <2>1 DEF Valid, Cyclic
  <2> QED
    BY <1>1, <2>2
<1> QED
  BY <1>2

LEMMA LevelStep == TypeOK /\ AttemptsInv /\ LevelInv /\ [Next]_vars => LevelInv'
<1> SUFFICES ASSUME TypeOK, AttemptsInv, LevelInv, [Next]_vars PROVE LevelInv'
  OBVIOUS
<1> USE DEF TypeOK
\* A step of one task that does not touch the levels.
<1>1. ASSUME NEW t \in Tasks, plan' = plan, status' = status, closed' = closed,
             \A u \in Tasks \ {t} : step'[u] = step[u] /\ state'[u] = state[u],
             LevelOf(t)'
      PROVE  LevelInv'
  BY <1>1 DEF LevelInv, LevelOf
<1>2. ASSUME NEW t \in Tasks, step[t] \notin {"none", "done", "cancelled"}
      PROVE  /\ status = "running" /\ t \notin closed
             /\ plan.deps[t] \subseteq closed
  BY <1>2 DEF LevelInv, LevelOf, PlanStates
<1>3. ASSUME NEW t \in Tasks, step[t] \notin {"none", "done", "cancelled"},
             NEW s \in {"completed", "failed"}, NEW r, NEW v, Finish(t, s, r, v)
      PROVE  LevelInv'
  <2>1. step'[t] = "done" /\ state'[t] = s
    BY <1>3 DEF Finish
  <2>2. LevelOf(t)'
    BY <1>2, <1>3, <2>1 DEF Finish, LevelOf
  <2> QED
    BY <1>1, <1>3, <2>2 DEF Finish
<1>4. CASE Begin
  BY <1>4 DEF Begin, taskVars, LevelInv, LevelOf
<1>5. CASE CloseLevel
  <2>1. CASE \E t \in Level(plan, closed) : state[t] = "failed"
    <3>1. ASSUME NEW t \in Tasks PROVE step[t] \in {"none", "done"}
      <4>1. CASE step[t] = "none"
        BY <4>1
      <4>2. CASE t \in closed
        BY <4>2 DEF LevelInv, LevelOf
      <4>3. CASE step[t] # "none" /\ t \notin closed
        <5>1. t \in Level(plan, closed)
          BY <4>3 DEF LevelInv, LevelOf, Level
        <5> QED
          BY <1>5, <5>1 DEF CloseLevel, Gathered
      <4> QED
        BY <4>1, <4>2, <4>3
    <3> QED
      BY <1>5, <2>1, <3>1 DEF CloseLevel, taskVars, LevelInv, LevelOf
  <2>2. CASE ~ \E t \in Level(plan, closed) : state[t] = "failed"
    <3>1. \A t \in Level(plan, closed) : step[t] = "done" /\ state[t] = "completed"
      BY <1>5, <2>2 DEF CloseLevel, Gathered, LevelInv, LevelOf, Level
    <3>2. closed' = closed \cup Level(plan, closed) /\ UNCHANGED <<plan, status, taskVars>>
      BY <1>5, <2>2 DEF CloseLevel
    <3>3. status = "running"
      BY <1>5 DEF CloseLevel
    <3> QED
      BY <3>1, <3>2, <3>3 DEF LevelInv, LevelOf, taskVars
  <2> QED
    BY <2>1, <2>2
<1>6. CASE Complete
  <2>1. closed = Tasks
    BY <1>6, EmptyLevel DEF Complete, LevelInv
  <2> QED
    BY <1>6, <2>1 DEF Complete, taskVars, LevelInv, LevelOf
<1>7. CASE Cancel
  <2>1. ASSUME NEW t \in Tasks PROVE LevelOf(t)'
    BY <1>7, <2>1 DEF Cancel, LevelInv, LevelOf, Steps
  <2> QED
    BY <1>7, <2>1 DEF Cancel, LevelInv
<1>8. ASSUME NEW t \in Tasks, Start(t) PROVE LevelInv'
  <2>1. step'[t] = "started" /\ t \notin closed /\ plan.deps[t] \subseteq closed
    BY <1>8 DEF Start, Level
  <2>2. LevelOf(t)'
    BY <1>8, <2>1 DEF Start, LevelOf
  <2> QED
    BY <1>1, <1>8, <2>2 DEF Start
<1>9. ASSUME NEW t \in Tasks,
             Refuse(t) \/ Succeed(t) \/ FailDefinitely(t) \/ ReportUnknown(t) \/ TimeOut(t)
      PROVE  LevelInv'
  BY <1>3, <1>9 DEF Refuse, Succeed, FailDefinitely, ReportUnknown, TimeOut
<1>10. ASSUME NEW t \in Tasks, Invoke(t) PROVE LevelInv'
  <2>1. step'[t] = "calling"
    BY <1>10 DEF Invoke
  <2>2. LevelOf(t)'
    BY <1>2, <1>10, <2>1 DEF Invoke, LevelOf
  <2> QED
    BY <1>1, <1>10, <2>2 DEF Invoke
<1>11. ASSUME NEW t \in Tasks, FailTransiently(t) PROVE LevelInv'
  <2>1. CASE attempt[t] < Attempts(t)
    <3>1. step'[t] = "backoff"
      BY <1>11, <2>1 DEF FailTransiently
    <3>2. LevelOf(t)'
      BY <1>2, <1>11, <2>1, <3>1 DEF FailTransiently, LevelOf
    <3> QED
      BY <1>1, <1>11, <2>1, <3>2 DEF FailTransiently
  <2>2. CASE ~(attempt[t] < Attempts(t))
    BY <1>3, <1>11, <2>2 DEF FailTransiently
  <2> QED
    BY <2>1, <2>2
<1>12. CASE (\E t \in Tasks : Land(t)) \/ UNCHANGED vars
  BY <1>12 DEF Land, vars, taskVars, LevelInv, LevelOf
<1> QED
  BY <1>4, <1>5, <1>6, <1>7, <1>8, <1>9, <1>10, <1>11, <1>12 DEF Next, Executor, Run

LEMMA LevelInvariant == Spec => [](TypeOK /\ LevelInv)
<1>1. Init => LevelInv
  BY DEF Init, LevelInv, LevelOf
<1> QED
  BY <1>1, LevelStep, TypeAndAttempts, PTL DEF Spec

\* A task is only started once all it depends on has completed: the levels
\* follow one another, and a failed task ends the plan.
THEOREM DependenciesFirst == Spec => []DependenciesCompleted
<1>1. TypeOK /\ LevelInv => DependenciesCompleted
  BY DEF TypeOK, LevelInv, LevelOf, DependenciesCompleted
<1> QED
  BY <1>1, LevelInvariant, PTL

\* A plan reported as completed ran every one of its tasks to completion.
THEOREM CompletedAll == Spec => []CompletedMeansAll
<1>1. TypeOK /\ LevelInv => CompletedMeansAll
  BY DEF TypeOK, LevelInv, LevelOf, CompletedMeansAll
<1> QED
  BY <1>1, LevelInvariant, PTL

\* When the plan is over no task of it is left running.
THEOREM NothingLeft == Spec => []NothingLeftRunning
<1>1. TypeOK /\ LevelInv => NothingLeftRunning
  BY DEF TypeOK, LevelInv, LevelOf, NothingLeftRunning
<1> QED
  BY <1>1, LevelInvariant, PTL

\* A plan keeps its order, whichever of its tasks fail.
THEOREM PlanInOrder == Spec => []InOrder
<1>1. DependenciesCompleted /\ CompletedMeansAll /\ NothingLeftRunning => InOrder
  BY DEF InOrder
<1> QED
  BY <1>1, DependenciesFirst, CompletedAll, NothingLeft, PTL
=============================================================================
