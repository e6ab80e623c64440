--------------------------- MODULE PlanExecution ---------------------------
(***************************************************************************)
(* TaskExecutor.execute_plan (task_executor.py) on one TaskPlan: the plan  *)
(* is validated, its tasks run level by level, those of a level at the     *)
(* same time, each under its own retries and timeouts.  A write goes to a  *)
(* backend that may commit it before, or without, an answer.  Time is not  *)
(* modelled: a timeout may fire whenever the code is waiting.              *)
(***************************************************************************)
EXTENDS Naturals

CONSTANTS
    Tasks,          \* the ids of the tasks of the plan
    Unknown,        \* an id no task of the plan has
    Values,         \* concrete tool parameters
    None,           \* absence of a result field
    Plans,          \* the plans the model or the planner may build
    MaxAttempts,    \* attempts of a read (3)
    Cancellable     \* TRUE: the client may drop the stream

\* A parameter is concrete or the placeholder {u.result.field}.
Refs == [of : Tasks]
Params == Values \cup Refs

ASSUME PlansAssumption ==
    Plans \subseteq [deps  : [Tasks -> SUBSET (Tasks \cup {Unknown})],
                     write : [Tasks -> BOOLEAN],
                     param : [Tasks -> Params]]
ASSUME AttemptsAssumption == MaxAttempts \in Nat \ {0}
ASSUME IdsAssumption == Unknown \notin Tasks /\ None \notin Params /\ Values \cap Refs = {}
ASSUME CancelAssumption == Cancellable \in BOOLEAN

VARIABLES
    plan,       \* the plan being executed
    status,     \* its status; "cancelled" when the executor was interrupted
    closed,     \* the tasks of the levels that are over
    state,      \* TaskStatus of each task
    step,       \* where execute_single_task is
    attempt,    \* the attempt of retry_async in progress
    report,     \* what execution_results says of each task
    field,      \* the field of its result that placeholders name
    arg,        \* ghost: the parameters its handler was called with
    invoked,    \* ghost: how often its handler was called
    landed      \* ghost: the writes the backend has committed

taskVars == <<state, step, attempt, report, field>>
ghostVars == <<arg, invoked, landed>>
vars == <<plan, status, closed, taskVars, ghostVars>>

PlanStates == {"pending", "running", "completed", "failed", "cancelled"}
TaskStates == {"pending", "running", "completed", "failed"}
Steps == {"none", "started", "calling", "backoff", "done", "cancelled"}
Reports == {"none", "ok", "fail", "unknown"}

-----------------------------------------------------------------------------
(* Validation.                                                             *)

\* has_circular_dependency: some tasks depend on one another in a circle.
Cyclic(p) ==
    \E S \in SUBSET Tasks : S # {} /\ \A t \in S : p.deps[t] \cap S # {}

\* _find_duplicate_write_tasks compares the parameters as they are written.
Duplicated(p) ==
    \E t, u \in Tasks : t # u /\ p.write[t] /\ p.write[u] /\ p.param[t] = p.param[u]

ValidMut(p) == \A t \in Tasks : p.deps[t] \subseteq Tasks
Valid(p) == ~Cyclic(p) /\ \A t \in Tasks : p.deps[t] \subseteq Tasks

\* topological_sort: the level that follows the closed ones.
LevelMut(p, done) == {t \in Tasks \ done : p.deps[t] = {} \/ p.deps[t] \cap done # {}}
Level(p, done) == {t \in Tasks \ done : p.deps[t] \subseteq done}

Init ==
    /\ plan \in Plans
    /\ status = "pending"
    /\ closed = {}
    /\ state = [t \in Tasks |-> "pending"]
    /\ step = [t \in Tasks |-> "none"]
    /\ attempt = [t \in Tasks |-> 0]
    /\ report = [t \in Tasks |-> "none"]
    /\ field = [t \in Tasks |-> None]
    /\ arg = [t \in Tasks |-> None]
    /\ invoked = [t \in Tasks |-> 0]
    /\ landed = {}

Begin ==
    /\ status = "pending"
    /\ status' = IF Valid(plan) /\ ~Duplicated(plan) THEN "running" ELSE "failed"
    /\ UNCHANGED <<plan, closed, taskVars, ghostVars>>

-----------------------------------------------------------------------------
(* One task: execute_single_task and _execute_tool_call.                   *)

\* A task of the current level is scheduled.
Start(t) ==
    /\ status = "running"
    /\ t \in Level(plan, closed)
    /\ state[t] = "pending"
    /\ state' = [state EXCEPT ![t] = "running"]
    /\ step' = [step EXCEPT ![t] = "started"]
    /\ UNCHANGED <<plan, status, closed, attempt, report, field, ghostVars>>

\* _inject_dependency_results: a placeholder that cannot be resolved stays.
Injected(t) ==
    LET p == plan.param[t]
    IN  IF p \in Refs /\ report[p.of] # "none" /\ field[p.of] # None
        THEN field[p.of] ELSE p

\* fail_execution, or complete_execution, and the recorded result.
Finish(t, s, r, v) ==
    /\ state' = [state EXCEPT ![t] = s]
    /\ step' = [step EXCEPT ![t] = "done"]
    /\ report' = [report EXCEPT ![t] = r]
    /\ field' = [field EXCEPT ![t] = v]
    /\ UNCHANGED <<plan, status, closed, attempt>>

\* Schema, required parameters or permissions refuse the call.
Refuse(t) ==
    /\ step[t] = "started"
    /\ Finish(t, "failed", "fail", None)
    /\ UNCHANGED ghostVars

Invoke(t) ==
    /\ step[t] \in {"started", "backoff"}
    /\ step' = [step EXCEPT ![t] = "calling"]
    /\ attempt' = [attempt EXCEPT ![t] = @ + 1]
    /\ arg' = [arg EXCEPT ![t] = IF step[t] = "started" THEN Injected(t) ELSE @]
    /\ invoked' = [invoked EXCEPT ![t] = @ + 1]
    /\ UNCHANGED <<plan, status, closed, state, report, field, landed>>

\* The handler reports success, with or without the field others refer to; a
\* preview succeeds and commits nothing.
Succeed(t) ==
    /\ step[t] = "calling"
    /\ \E v \in Values \cup {None} : Finish(t, "completed", "ok", v)
    /\ UNCHANGED ghostVars

\* A business failure, a 4xx, a permission error: nothing was written.
FailDefinitely(t) ==
    /\ step[t] = "calling"
    /\ t \notin landed
    /\ \E v \in Values \cup {None} : Finish(t, "failed", "fail", v)
    /\ UNCHANGED ghostVars

\* The result of a task that was given up: nobody can tell whether a write
\* took place.
GivenUpMut(t) == "fail"
GivenUp(t) == IF plan.write[t] THEN "unknown" ELSE "fail"

\* The handler itself reports that its write has an unknown result.
ReportUnknown(t) ==
    /\ step[t] = "calling"
    /\ plan.write[t]
    /\ Finish(t, "failed", GivenUp(t), None)
    /\ UNCHANGED ghostVars

\* retry_async: writes have one attempt.
AttemptsMut(t) == MaxAttempts
Attempts(t) == IF plan.write[t] THEN 1 ELSE MaxAttempts

\* A transport error, a 5xx or the tool's own timeout.
FailTransiently(t) ==
    /\ step[t] = "calling"
    /\ IF attempt[t] < Attempts(t)
       THEN /\ step' = [step EXCEPT ![t] = "backoff"]
            /\ UNCHANGED <<plan, status, closed, state, attempt, report, field>>
       ELSE Finish(t, "failed", GivenUp(t), None)
    /\ UNCHANGED ghostVars

\* The timeout of the plan around all attempts of a task.
TimeOut(t) ==
    /\ step[t] \in {"calling", "backoff"}
    /\ Finish(t, "failed", GivenUp(t), None)
    /\ UNCHANGED ghostVars

\* The backend commits a write: while it is being called, or after nobody
\* waits for it any more.
Land(t) ==
    /\ plan.write[t] /\ invoked[t] > 0 /\ t \notin landed
    /\ step[t] \in {"calling", "backoff", "cancelled"} \/ report[t] = "unknown"
    /\ landed' = landed \cup {t}
    /\ UNCHANGED <<plan, status, closed, taskVars, arg, invoked>>

-----------------------------------------------------------------------------
(* The levels.                                                             *)

\* The gather with return_exceptions returns when every task of the level has.
GatheredFirst == \E t \in Level(plan, closed) : step[t] = "done"
GatheredCompleted == \A t \in Level(plan, closed) : state[t] = "completed"
Gathered == \A t \in Level(plan, closed) : step[t] = "done"

\* A failed task ends the plan at the end of its level.
CloseLevel ==
    /\ status = "running"
    /\ Level(plan, closed) # {}
    /\ Gathered
    /\ IF \E t \in Level(plan, closed) : state[t] = "failed"
       THEN status' = "failed" /\ UNCHANGED closed
       ELSE closed' = closed \cup Level(plan, closed) /\ UNCHANGED status
    /\ UNCHANGED <<plan, taskVars, ghostVars>>

Complete ==
    /\ status = "running"
    /\ Level(plan, closed) = {}
    /\ status' = "completed"
    /\ UNCHANGED <<plan, closed, taskVars, ghostVars>>

\* The stream is closed: the gather and its tasks are cancelled where they
\* wait, and record nothing.
Cancel ==
    /\ Cancellable
    /\ status = "running"
    /\ status' = "cancelled"
    /\ step' = [t \in Tasks |-> IF step[t] \in {"started", "calling", "backoff"}
                                THEN "cancelled" ELSE step[t]]
    /\ UNCHANGED <<plan, closed, state, attempt, report, field, ghostVars>>

Run(t) ==
    \/ Start(t) \/ Refuse(t) \/ Invoke(t)
    \/ Succeed(t) \/ FailDefinitely(t) \/ ReportUnknown(t)
    \/ FailTransiently(t) \/ TimeOut(t)

Executor == Begin \/ CloseLevel \/ Complete \/ \E t \in Tasks : Run(t)

Next == Executor \/ Cancel \/ \E t \in Tasks : Land(t)

\* The event loop keeps running tasks that can go on, and every wait ends in
\* an answer or a timeout.
Fairness ==
    /\ WF_vars(Begin \/ CloseLevel \/ Complete)
    /\ \A t \in Tasks : WF_vars(Run(t))

Spec == Init /\ [][Next]_vars /\ Fairness

-----------------------------------------------------------------------------
\* Every variable has its type.
TypeOK ==
    /\ plan \in Plans
    /\ status \in PlanStates
    /\ closed \subseteq Tasks
    /\ state \in [Tasks -> TaskStates]
    /\ step \in [Tasks -> Steps]
    /\ attempt \in [Tasks -> 0..MaxAttempts]
    /\ report \in [Tasks -> Reports]
    /\ field \in [Tasks -> Values \cup {None}]
    /\ arg \in [Tasks -> Params \cup {None}]
    /\ invoked \in [Tasks -> Nat]
    /\ landed \subseteq Tasks

\* The handler of a write is called at most once, whatever fails or times out.
WriteInvokedOnce == \A t \in Tasks : plan.write[t] => invoked[t] <= 1

\* A write the backend committed is never reported as a definite failure: the
\* user is told that it succeeded or that its result is unknown.
CommittedNeverDenied ==
    \A t \in landed : step[t] = "done" => report[t] \in {"ok", "unknown"}

\* A task is only started once all it depends on has completed, so a failed
\* task stops everything downstream of it.
DependenciesCompleted ==
    \A t \in Tasks : step[t] # "none" =>
        \A u \in plan.deps[t] : u \in Tasks /\ state[u] = "completed"

\* A plan reported as completed ran every one of its tasks to completion: the
\* levels miss none.
CompletedMeansAll == status = "completed" => \A t \in Tasks : state[t] = "completed"

\* When the plan is over nothing of it is still running in this process.
NothingLeftRunning ==
    status \in {"completed", "failed"} => \A t \in Tasks : step[t] \in {"none", "done"}

\* A plan keeps its order: nothing starts too early, nothing is missed and
\* nothing outlives it, whichever of its tasks fail.
InOrder == DependenciesCompleted /\ CompletedMeansAll /\ NothingLeftRunning

\* No write is called twice with the same parameters in one plan.
NoDuplicateWrite ==
    \A t, u \in Tasks :
        /\ t # u
        /\ plan.write[t] /\ plan.write[u]
        /\ invoked[t] > 0 /\ invoked[u] > 0
        => arg[t] # arg[u]

\* Every plan comes to an end, whatever its handlers do.
Terminates == <>(status \in {"completed", "failed", "cancelled"})
=============================================================================
