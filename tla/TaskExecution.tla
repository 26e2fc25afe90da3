--------------------------- MODULE TaskExecution ---------------------------
(***************************************************************************)
(* ExecutionManager.execute_execution_plan and execute_task                *)
(* (pybuilder/execution.py): the tasks of a plan run one after the other,  *)
(* each between the actions registered before and after it; an error skips *)
(* all that is left of its task but the teardown actions, and then stops   *)
(* the plan.                                                               *)
(*                                                                         *)
(* The callables are the build author's. While one runs it may call the    *)
(* reactor again - run a task with its plan, run it with what is left of   *)
(* its plan, run one executable of a task - so the calls form a stack that *)
(* shares one ExecutionManager. The plans are taken as build_execution_plan*)
(* makes them: right ones, as ExecutionPlan shows.                         *)
(***************************************************************************)
EXTENDS PlanGraph

CONSTANTS
  Build,      \* the resolved project of this build
  Requests,   \* the requests that can be planned, sequences of task names
  PlanOf,     \* the plan of each request
  Mentions,   \* the task names found `in task_names` by Python: for a request
              \* given as a string, also the names that are a substring of it
  Callable,   \* executables of tasks and actions
  Teardown,   \* the actions declared teardown=True
  OnlyOnce,   \* the actions declared only_once=True
  Steps,      \* the callables of a task: _execute_before, executables, _execute_after
  Callers,    \* bound: the callables that may call the reactor
  NoTask,     \* _current_task is None
  MaxCalls    \* bound: calls made by callables in one build

Step == [part : {"before", "body", "after"}, callable : Callable]

For(r) == [Build EXCEPT !.requested = r]

ASSUME TaskExecutionAssumption ==
  /\ Build \in Projects
  /\ Requests \subseteq Seq(Task) \ {<<>>}
  /\ PlanOf \in [Requests -> Seq(Task)]
  /\ \A r \in Requests : RightPlan(For(r), PlanOf[r])
  /\ Mentions \in [Requests -> SUBSET Task]
  /\ \A r \in Requests : Elements(r) \subseteq Mentions[r]
  /\ Teardown \subseteq Callable
  /\ Callers \subseteq Callable
  /\ Steps \in [Task -> Seq(Step)]
  /\ OnlyOnce \subseteq Callable
  /\ \A t \in Task : \A k \in DOMAIN Steps[t] :
       Steps[t][k].callable \in OnlyOnce => Steps[t][k].part # "body"
  /\ NoTask \notin Task
  /\ MaxCalls \in Nat

VARIABLES
  request,           \* what the build was asked for
  calls,             \* the open calls of the execution manager, innermost last
  current_task,      \* _current_task
  current_plan,      \* _current_execution_plan
  tasks_executed,    \* _tasks_executed
  actions_executed,  \* _actions_executed, of which only membership is used
  made,              \* calls made by callables so far
  result             \* how the build ended, or "running"

vars == <<request, calls, current_task, current_plan, tasks_executed,
          actions_executed, made, result>>

\* A call of execute_execution_plan, or one of execute_task made directly.
Call ==
  [ kind     : {"plan", "shortest", "task"},
    request  : Seq(Task),        \* task_names
    plan     : Seq(Task),
    pos      : Nat \ {0},        \* position of the loop over the plan
    step     : Nat,              \* position in the steps of that task, 0 before it
    running  : BOOLEAN,          \* the callable of that step is on the Python stack
    error    : Nat,              \* task_error: the step that raised it, 0 if None
    bodies   : SUBSET Callable,  \* the executables to run: all, or _executable
    began    : SUBSET Nat,       \* (history) the steps whose callable was called
    failures : Seq(Nat) ]        \* (history) the steps whose callable raised

NewCall(kind, r, plan, bodies) ==
  [ kind |-> kind, request |-> r, plan |-> plan, pos |-> 1, step |-> 0,
    running |-> FALSE, error |-> 0, bodies |-> bodies, began |-> {}, failures |-> <<>> ]

TaskOf(c) == c.plan[c.pos]
StepsOf(c) == Steps[TaskOf(c)]
InTask(c) == c.step # 0

Init ==
  /\ request \in Requests
  /\ calls = <<NewCall("plan", request, PlanOf[request], Callable)>>
  /\ current_task = NoTask
  /\ current_plan = PlanOf[request]
  /\ tasks_executed = <<>>
  /\ actions_executed = {}
  /\ made = 0
  /\ result = "running"

Open == calls # <<>>
Inner == calls[Len(calls)]
Outer == SubSeq(calls, 1, Len(calls) - 1)
Becomes(c) == calls' = [calls EXCEPT ![Len(calls)] = c]

\* The innermost call is over. Its caller is a callable that goes on running,
\* or the reactor.
Leave(how) ==
  /\ calls' = Outer
  /\ result' = IF Len(calls) = 1 THEN how ELSE result

----------------------------------------------------------------------------
(* execute_task *)

BeginTask ==
  /\ Open /\ ~ InTask(Inner) /\ Inner.pos <= Len(Inner.plan)
  /\ Becomes([Inner EXCEPT !.step = 1, !.error = 0, !.began = {}, !.failures = <<>>])
  /\ current_task' = TaskOf(Inner)
  /\ UNCHANGED <<request, current_plan, tasks_executed, actions_executed, made, result>>

BetweenSteps ==
  Open /\ InTask(Inner) /\ ~ Inner.running /\ Inner.step <= Len(StepsOf(Inner))

IsTeardown(s) == s.part = "after" /\ s.callable \in Teardown

\* has_teardown_tasks
HasTeardown(t) == \E k \in DOMAIN Steps[t] : IsTeardown(Steps[t][k])

\* A subtask that is not the one asked for, or an only_once action that has
\* been executed.
NotDue(c, s) ==
  \/ s.part = "body" /\ s.callable \notin c.bodies
  \/ s.callable \in OnlyOnce \cap actions_executed

BugTeardownLost(c, s) == NotDue(c, s) \/ c.error # 0

\* After an error, what is left of the task is skipped, but its teardown.
Skipped(c, s) == NotDue(c, s) \/ (c.error # 0 /\ ~ IsTeardown(s))

SkipStep ==
  /\ BetweenSteps
  /\ Skipped(Inner, StepsOf(Inner)[Inner.step])
  /\ Becomes([Inner EXCEPT !.step = @ + 1])
  /\ UNCHANGED <<request, current_task, current_plan, tasks_executed, actions_executed,
                 made, result>>

StartStep ==
  /\ BetweenSteps
  /\ ~ Skipped(Inner, StepsOf(Inner)[Inner.step])
  /\ Becomes([Inner EXCEPT !.running = TRUE, !.began = @ \cup {Inner.step}])
  /\ UNCHANGED <<request, current_task, current_plan, tasks_executed, actions_executed,
                 made, result>>

Running == Open /\ Inner.running
RunningStep == StepsOf(Inner)[Inner.step]

CallableReturns ==
  /\ Running
  /\ Becomes([Inner EXCEPT !.running = FALSE, !.step = @ + 1])
  /\ actions_executed' =
       actions_executed \cup (IF RunningStep.part = "body" THEN {} ELSE {RunningStep.callable})
  /\ UNCHANGED <<request, current_task, current_plan, tasks_executed, made, result>>

\* The latest error is kept instead of the first one.
BugLastErrorKept ==
  /\ Running /\ HasTeardown(TaskOf(Inner))
  /\ Becomes([Inner EXCEPT !.running = FALSE, !.step = @ + 1, !.error = Inner.step,
                           !.failures = Append(@, Inner.step)])
  /\ UNCHANGED <<request, current_task, current_plan, tasks_executed, actions_executed,
                 made, result>>

\* The error is kept for later: it is raised once the teardown is done, and
\* errors of the teardown itself are only logged.
CallableRaises ==
  /\ Running /\ HasTeardown(TaskOf(Inner))
  /\ Becomes([Inner EXCEPT !.running = FALSE, !.step = @ + 1,
                           !.error = IF @ = 0 THEN Inner.step ELSE @,
                           !.failures = Append(@, Inner.step)])
  /\ UNCHANGED <<request, current_task, current_plan, tasks_executed, actions_executed,
                 made, result>>

\* Without teardown the error leaves execute_task and the plan at once.
CallableRaisesThrough ==
  /\ Running /\ ~ HasTeardown(TaskOf(Inner))
  /\ Leave("failed")
  /\ UNCHANGED <<request, current_task, current_plan, tasks_executed, actions_executed, made>>

\* KeyboardInterrupt and SystemExit are no Exception: nothing here handles
\* them, and they leave execute_task and the plan at once. A callable that has
\* asked for the plan may let them through in its turn, or catch them.
CallableInterrupted ==
  /\ Running
  /\ Leave("interrupted")
  /\ UNCHANGED <<request, current_task, current_plan, tasks_executed, actions_executed, made>>

StepsOver == Open /\ InTask(Inner) /\ Inner.step > Len(StepsOf(Inner))

\* task_error is not raised.
BugErrorSwallowed ==
  /\ StepsOver
  /\ Becomes([Inner EXCEPT !.step = 0, !.pos = @ + 1])
  /\ current_task' = NoTask
  /\ tasks_executed' = IF TaskOf(Inner) \in Elements(tasks_executed) THEN tasks_executed
                       ELSE Append(tasks_executed, TaskOf(Inner))
  /\ UNCHANGED <<request, current_plan, actions_executed, made, result>>

\* The position in the steps outlives the task.
BugStepKept ==
  /\ StepsOver /\ Inner.error = 0
  /\ Becomes([Inner EXCEPT !.pos = @ + 1])
  /\ current_task' = NoTask
  /\ tasks_executed' = IF TaskOf(Inner) \in Elements(tasks_executed) THEN tasks_executed
                       ELSE Append(tasks_executed, TaskOf(Inner))
  /\ UNCHANGED <<request, current_plan, actions_executed, made, result>>

TaskSucceeds ==
  /\ StepsOver /\ Inner.error = 0
  /\ Becomes([Inner EXCEPT !.step = 0, !.pos = @ + 1])
  /\ current_task' = NoTask
  /\ tasks_executed' = IF TaskOf(Inner) \in Elements(tasks_executed) THEN tasks_executed
                       ELSE Append(tasks_executed, TaskOf(Inner))
  /\ UNCHANGED <<request, current_plan, actions_executed, made, result>>

\* The loop over the plan goes on to the next task.
BugFailedTaskPassedOver ==
  /\ StepsOver /\ Inner.error # 0
  /\ Becomes([Inner EXCEPT !.step = 0, !.pos = @ + 1])
  /\ UNCHANGED <<request, current_task, current_plan, tasks_executed, actions_executed,
                 made, result>>

\* _current_task is left as it is.
TaskRaises ==
  /\ StepsOver /\ Inner.error # 0
  /\ Leave("failed")
  /\ UNCHANGED <<request, current_task, current_plan, tasks_executed, actions_executed, made>>

\* A plan that is over is begun again.
BugPlanRestarts ==
  /\ Open /\ ~ InTask(Inner) /\ Inner.pos > Len(Inner.plan)
  /\ Becomes([Inner EXCEPT !.pos = 1])
  /\ UNCHANGED <<request, current_task, current_plan, tasks_executed, actions_executed,
                 made, result>>

PlanReturns ==
  /\ Open /\ ~ InTask(Inner) /\ Inner.pos > Len(Inner.plan)
  /\ Leave("succeeded")
  /\ UNCHANGED <<request, current_task, current_plan, tasks_executed, actions_executed, made>>

----------------------------------------------------------------------------
(* What a running callable may ask for. A request that is refused raises in *)
(* the callable and changes nothing; so does a nested build that fails or   *)
(* is interrupted: the callable may let the exception through or go on.     *)

Enter(c) ==
  /\ Running /\ RunningStep.callable \in Callers /\ made < MaxCalls
  /\ calls' = Append(calls, c)
  /\ made' = made + 1
  /\ UNCHANGED <<request, current_task, tasks_executed, actions_executed, result>>

\* Reactor.execute_task
ExecuteTask(r) ==
  /\ Enter(NewCall("plan", r, PlanOf[r], Callable))
  /\ current_plan' = PlanOf[r]

\* build_shortest_execution_plan drops the first n tasks of the plan: those it
\* has in common with what was executed so far, from the very first task on,
\* up to the first one that was asked for.
Droppable(r, k) ==
  /\ k \in DOMAIN PlanOf[r] /\ k \in DOMAIN tasks_executed
  /\ PlanOf[r][k] = tasks_executed[k]
  /\ PlanOf[r][k] \notin Mentions[r]

\* As many tasks are dropped as were executed.
BugDropped(r, n) == n = Len(tasks_executed) /\ n < Len(PlanOf[r])

Dropped(r, n) == (\A k \in 1..n : Droppable(r, k)) /\ ~ Droppable(r, n + 1)

Shortest(r, n) == SubSeq(PlanOf[r], n + 1, Len(PlanOf[r]))

\* The request is refused with CircularTaskDependencyException.
Circular(plan) == current_task \in Elements(plan)

\* Reactor.execute_task_shortest_plan
ExecuteTaskShortestPlan(r) ==
  \E n \in 0..Len(PlanOf[r]) :
    /\ Dropped(r, n)
    /\ ~ Circular(Shortest(r, n))
    /\ Enter(NewCall("shortest", r, Shortest(r, n), Callable))
    /\ current_plan' = Shortest(r, n)

\* ExecutionManager.execute_task with one executable, as run_coverage calls it:
\* no plan is made, and _current_execution_plan stays.
ExecuteExecutable(t, k) ==
  /\ Steps[t][k].part = "body"
  /\ Enter(NewCall("task", <<t>>, <<t>>, {Steps[t][k].callable}))
  /\ UNCHANGED current_plan

Ended == ~ Open /\ UNCHANGED vars

Next ==
  \/ BeginTask \/ SkipStep \/ StartStep
  \/ CallableReturns \/ CallableRaises \/ CallableRaisesThrough \/ CallableInterrupted
  \/ TaskSucceeds \/ TaskRaises \/ PlanReturns
  \/ \E r \in Requests : ExecuteTask(r) \/ ExecuteTaskShortestPlan(r)
  \/ \E t \in Task : \E k \in DOMAIN Steps[t] : ExecuteExecutable(t, k)
  \/ Ended

\* One thread; a callable that runs returns, raises or calls at some time.
Spec == Init /\ [][Next]_vars /\ WF_vars(Next)

----------------------------------------------------------------------------
(* Properties *)

\* The positions of every loop are within what they range over.
TypeOK ==
  /\ request \in Requests
  /\ calls \in Seq(Call)
  /\ \A i \in DOMAIN calls :
       LET c == calls[i] IN
       /\ c.pos <= Len(c.plan) => c.step <= Len(StepsOf(c)) + 1
       /\ c.pos > Len(c.plan) => c.pos = Len(c.plan) + 1 /\ c.step = 0
       /\ c.running => c.step \in 1..Len(StepsOf(c))
  /\ current_task \in Task \cup {NoTask}
  /\ current_plan \in Seq(Task)
  /\ tasks_executed \in Seq(Task)
  /\ actions_executed \in SUBSET Callable
  /\ made \in 0..MaxCalls
  /\ result \in {"running", "succeeded", "failed", "interrupted"}

\* A task of a plan runs only when each of its prerequisites was executed with
\* success, by this plan or before it, however the callables nest plans, let
\* errors through or catch them, and whatever build_shortest_execution_plan
\* dropped ("a task gets executed only after all of its dependencies have been
\* executed").
PrerequisitesMet ==
  \A i \in DOMAIN calls :
    calls[i].kind # "task" /\ InTask(calls[i]) =>
      Prerequisites(Build, TaskOf(calls[i])) \subseteq Elements(tasks_executed)

\* A build that succeeds has executed every task it was asked for and all they
\* need: no error is lost on the way out of the nested calls.
SuccessIsComplete ==
  result = "succeeded" => Wanted(For(request)) \subseteq Elements(tasks_executed)

\* After the first error of a task, nothing of it runs but its teardown, and
\* that error, not one of the teardown, is the one that will be raised.
FailureContained ==
  \A i \in DOMAIN calls :
    LET c == calls[i] IN
    InTask(c) =>
      /\ c.error = IF c.failures = <<>> THEN 0 ELSE c.failures[1]
      /\ c.error # 0 => \A k \in c.began : k > c.error => IsTeardown(StepsOf(c)[k])

\* execute_task only raises an Exception once every teardown action of the task
\* has run, whichever of its callables failed. An interrupt does not wait.
TeardownRan(c) ==
  \A k \in DOMAIN StepsOf(c) :
    IsTeardown(StepsOf(c)[k]) =>
      k \in c.began \/ StepsOf(c)[k].callable \in OnlyOnce \cap actions_executed

TeardownBeforeRaise ==
  [][ Len(calls') < Len(calls) /\ InTask(Inner) /\ ~ CallableInterrupted
        => TeardownRan(Inner) ]_vars

\* A task counts as executed only by a call in which no callable failed and
\* none was left out: all of it ran, but for the only_once actions executed
\* before and the executables that were not asked for.
ExecutedMeansDone ==
  [][ tasks_executed' # tasks_executed =>
        /\ Inner.failures = <<>>
        /\ \A k \in DOMAIN StepsOf(Inner) :
             k \in Inner.began \/ NotDue(Inner, StepsOf(Inner)[k]) ]_vars

\* Every build comes to an end.
BuildEnds == <>(result # "running")

----------------------------------------------------------------------------
(* What the texts of the code say, and the code does not do *)

\* build_shortest_execution_plan is "useful when you want to execute tasks
\* dynamically without repeating pre-requisite tasks you've already executed".
\* What is asked for is executed again, and what needs it with it, as
\* test_shortest_execution_plan_reruns_on_demand wants; nothing else is.
NothingRepeated ==
  [][ Len(calls') > Len(calls) /\ calls'[Len(calls')].kind = "shortest" =>
        LET c == calls'[Len(calls')] IN
        \A t \in Elements(c.plan) \cap Elements(tasks_executed) :
          Wanted(For(<<t>>)) \cap Elements(c.request) # {} ]_vars

ActiveTasks == {TaskOf(calls[i]) : i \in {j \in DOMAIN calls : InTask(calls[j])}}

\* A shortest plan that holds a task which is running is refused, as "creating
\* circular dependency".
CircularCallRefused ==
  [][ Len(calls') > Len(calls) /\ calls'[Len(calls')].kind = "shortest" =>
        Elements(calls'[Len(calls')].plan) \cap ActiveTasks = {} ]_vars

\* A request is only refused because "Task '%s' attempted to invoke tasks %s":
\* the task the refusal names is one that is running.
RefusalNamesRunningTask ==
  \A r \in Requests : \A n \in 0..Len(PlanOf[r]) :
    Running /\ Dropped(r, n) /\ Circular(Shortest(r, n)) => current_task \in ActiveTasks

=============================================================================
