------------------------------ MODULE Coverage ------------------------------
(***************************************************************************)
(* The coverage plugin (plugins/python/coverage_plugin.py) within the      *)
(* execution of tasks. The coverage_init action of each test plugin, run   *)
(* before `prepare`, registers the tests of its plugin; `prepare` makes a  *)
(* list of what is registered; `coverage` runs each test task on that list *)
(* once more, its tool and an override of a Python environment being in    *)
(* place meanwhile. All three ask which tasks are in the current plan,     *)
(* which any callable of the build may replace.                            *)
(*                                                                         *)
(* Every step is one of TaskExecution, with what it does to the state of   *)
(* the plugin, the tools of the reactor and the PythonEnvRegistry; only    *)
(* here is it known which callable calls execute_task by itself.           *)
(***************************************************************************)
EXTENDS TaskExecution

CONSTANTS
  CoverageTask,  \* the name "coverage"
  PrepareTask,   \* the name "prepare"
  InitActions,   \* the coverage_init of each test plugin; a covered task is
                 \* known by the one that registers it
  Covers,        \* the task that a coverage_init registers, and the step of it
  OwnEnv,        \* the environment a coverage_init sets for it, or NoEnv
  PrepareBody,   \* `prepare` of the coverage plugin
  CoverageBody,  \* `coverage`
  Env,           \* the registered Python environments
  DefaultEnv,    \* "pybuilder"
  NoEnv          \* no environment is set

ASSUME CoverageAssumption ==
  /\ CoverageTask \in Task
  /\ Covers \in [InitActions -> [task : Task, step : Nat]]
  /\ \A a \in InitActions : Covers[a].step \in DOMAIN Steps[Covers[a].task]
  /\ OwnEnv \in [InitActions -> Env \cup {NoEnv}]
  /\ DefaultEnv \in Env /\ NoEnv \notin Env
  /\ CoverageBody \notin InitActions \cup {PrepareBody}
  /\ PrepareBody \notin InitActions

\* Where the callables of the plugins are among the steps of the tasks: each
\* coverage_init is @before("prepare"), so it comes before the executables of
\* that task, the `prepare` of this plugin among them; `coverage` is an
\* executable of its own task; a covered task is one that runs tests.
Places(a) == {k \in DOMAIN Steps[PrepareTask] : Steps[PrepareTask][k].callable = a}

ASSUME PlacementAssumption ==
  /\ PrepareTask \in Task \ {CoverageTask}
  /\ \A t \in Task : \A k \in DOMAIN Steps[t] :
       /\ Steps[t][k].callable \in InitActions \cup {PrepareBody} => t = PrepareTask
       /\ Steps[t][k].callable = CoverageBody => t = CoverageTask
  /\ \E k \in DOMAIN Steps[PrepareTask] :
       /\ Places(PrepareBody) = {k}
       /\ \A a \in InitActions : \E j \in 1..(k - 1) : Places(a) = {j}
  /\ OnlyOnce \cap (InitActions \cup {PrepareBody}) = {}
  /\ \A a \in InitActions : Covers[a].task # PrepareTask

VARIABLES
  coverage_tasks,  \* _coverage_tasks
  covered_tasks,   \* __covered_tasks
  prepared,        \* __covered_tasks is not None
  python_env,      \* <prefix>_coverage_python_env of each covered task
  tools,           \* the tools of the reactor; a tool, like an override, is
                   \* known by how many calls were open as it was added
  overrides,       \* what overrides each environment, latest last
  loops,           \* the loops of `coverage` over the covered tasks, innermost last
  replanned        \* (history) a callable has asked for a plan

plugin == <<coverage_tasks, covered_tasks, prepared, python_env>>
coverage == <<plugin, tools, overrides, loops, replanned>>

Loop ==
  [ depth     : Nat \ {0},           \* the open call that `coverage` is run by
    left      : Seq(InitActions),    \* the covered tasks still to come
    measuring : BOOLEAN,             \* run_coverage has called execute_task
    env       : Env \cup {NoEnv},    \* coverage_env_name, while measuring
    failed    : BOOLEAN,             \* something raised is on its way out of the loop
    interrupt : BOOLEAN,             \* and that is no Exception
    measured  : Seq(InitActions) ]   \* (history) what run_coverage was called for

CovInit ==
  /\ Init
  /\ coverage_tasks = <<>>
  /\ covered_tasks = <<>>
  /\ prepared = FALSE
  /\ python_env = [a \in InitActions |-> NoEnv]
  /\ tools = <<>>
  /\ overrides = [e \in Env |-> <<>>]
  /\ loops = <<>>
  /\ replanned = FALSE

\* is_task_in_current_execution_plan, is_task_before_in_current_execution_plan
InPlan(t) == t \in Elements(current_plan)
BeforeInPlan(t, u) ==
  \E i, j \in DOMAIN current_plan : current_plan[i] = t /\ current_plan[j] = u /\ i < j

Role(c) == Running /\ RunningStep.callable = c
Others == Running /\ RunningStep.callable \notin InitActions \cup {PrepareBody, CoverageBody}

----------------------------------------------------------------------------
(* prepare *)

\* The name of the task is registered in place of its callable.
BugNameRegistered(a) ==
  /\ Role(a) /\ CallableReturns
  /\ coverage_tasks' = IF InPlan(CoverageTask) /\ InPlan(Covers[a].task)
                       THEN Append(coverage_tasks, Covers[a].task) ELSE coverage_tasks
  /\ UNCHANGED <<covered_tasks, prepared, python_env, tools, overrides, loops, replanned>>

\* coverage_init
Register(a) ==
  /\ Role(a) /\ CallableReturns
  /\ IF InPlan(CoverageTask) /\ InPlan(Covers[a].task)
     THEN /\ coverage_tasks' = Append(coverage_tasks, a)
          /\ python_env' = IF OwnEnv[a] = NoEnv THEN python_env
                           ELSE [python_env EXCEPT ![a] = OwnEnv[a]]
     ELSE UNCHANGED <<coverage_tasks, python_env>>
  /\ UNCHANGED <<covered_tasks, prepared, tools, overrides, loops, replanned>>

\* Only a covered task that is not in the plan is refused, whatever the order.
BugOrderForgotten(a) == ~ InPlan(Covers[a].task)

\* To be executed after `coverage`: that is refused.
Late(a) == InPlan(Covers[a].task) /\ ~ BeforeInPlan(Covers[a].task, CoverageTask)

\* The first n covered tasks of the list are configured, if they are in the plan.
Configure(n) ==
  /\ covered_tasks' = coverage_tasks
  /\ prepared' = TRUE
  /\ python_env' =
       [a \in InitActions |->
          IF /\ python_env[a] = NoEnv /\ InPlan(Covers[a].task)
             /\ \E i \in 1..n : coverage_tasks[i] = a
          THEN DefaultEnv ELSE python_env[a]]

Prepare ==
  /\ Role(PrepareBody) /\ CallableReturns
  /\ IF InPlan(CoverageTask)
     THEN /\ \A a \in Elements(coverage_tasks) : ~ Late(a)
          /\ Configure(Len(coverage_tasks))
     ELSE UNCHANGED <<covered_tasks, prepared, python_env>>
  /\ UNCHANGED <<coverage_tasks, tools, overrides, loops, replanned>>

----------------------------------------------------------------------------
(* coverage *)

Innermost == loops[Len(loops)]
Below(ls) == SubSeq(ls, 1, Len(ls) - 1)

\* `for covered_task in None` raises a TypeError.
BeginLoop ==
  /\ StartStep /\ StepsOf(Inner)[Inner.step].callable = CoverageBody
  /\ loops' = Append(loops, [ depth |-> Len(calls), measuring |-> FALSE, env |-> NoEnv,
                              left |-> IF prepared THEN covered_tasks ELSE <<>>,
                              failed |-> ~ prepared, interrupt |-> FALSE, measured |-> <<>> ])
  /\ UNCHANGED <<plugin, tools, overrides, replanned>>

\* The loop comes to a covered task.
NextCovered(a) ==
  /\ Role(CoverageBody) /\ ~ Innermost.failed
  /\ Innermost.left # <<>> /\ a = Head(Innermost.left)

PassOver(a) ==
  /\ NextCovered(a) /\ ~ InPlan(Covers[a].task)
  /\ loops' = [loops EXCEPT ![Len(loops)].left = Tail(@)]
  /\ UNCHANGED <<vars, plugin, tools, overrides, replanned>>

\* run_coverage, as far as the call of execute_task.
RunCoverage(a) ==
  /\ NextCovered(a) /\ InPlan(Covers[a].task)
  /\ ExecuteExecutable(Covers[a].task, Covers[a].step)
  /\ tools' = Append(tools, Len(calls))
  /\ overrides' = IF python_env[a] = NoEnv THEN overrides
                  ELSE [overrides EXCEPT ![python_env[a]] = Append(@, Len(calls))]
  /\ loops' = [loops EXCEPT ![Len(loops)] =
                 [Innermost EXCEPT !.left = Tail(@), !.measuring = TRUE, !.env = python_env[a],
                                   !.measured = Append(@, a)]]
  /\ UNCHANGED <<plugin, replanned>>

\* remove_tool: the first one on the list that is this tool.
Removed(tool) ==
  LET at == CHOOSE i \in DOMAIN tools : tools[i] = tool /\ \A j \in 1..(i - 1) : tools[j] # tool
  IN [i \in 1..(Len(tools) - 1) |-> IF i < at THEN tools[i] ELSE tools[i + 1]]

\* The two `finally` of run_coverage, in the innermost of the loops ls.
Finally(ls) ==
  /\ tools' = Removed(ls[Len(ls)].depth)
  /\ overrides' = IF ls[Len(ls)].env = NoEnv THEN overrides
                  ELSE [overrides EXCEPT ![ls[Len(ls)].env] = Below(@)]

\* What follows execute_task in run_coverage is not done when that raises.
BugNoFinally(ls, how) ==
  IF ls # <<>> /\ ls[Len(ls)].depth = Len(calls) - 1
  THEN /\ IF how = "succeeded" THEN Finally(ls) ELSE UNCHANGED <<tools, overrides>>
       /\ loops' = [ls EXCEPT ![Len(ls)] =
                      [@ EXCEPT !.measuring = FALSE, !.env = NoEnv,
                                !.failed = how # "succeeded",
                                !.interrupt = how = "interrupted"]]
  ELSE loops' = ls /\ UNCHANGED <<tools, overrides>>

\* The innermost call is over, ls being the loops that are left: when it is the
\* one made by run_coverage, that goes on or lets through what was raised.
CallOver(ls, how) ==
  IF ls # <<>> /\ ls[Len(ls)].depth = Len(calls) - 1
  THEN /\ Finally(ls)
       /\ loops' = [ls EXCEPT ![Len(ls)] =
                      [@ EXCEPT !.measuring = FALSE, !.env = NoEnv,
                                !.failed = how # "succeeded",
                                !.interrupt = how = "interrupted"]]
  ELSE loops' = ls /\ UNCHANGED <<tools, overrides>>

EndLoop ==
  /\ Role(CoverageBody) /\ ~ Innermost.failed /\ Innermost.left = <<>>
  /\ CallableReturns
  /\ loops' = Below(loops)
  /\ UNCHANGED <<plugin, tools, overrides, replanned>>

\* Measuring, saving and reporting may fail, by a low coverage for one.
CoverageRaises ==
  /\ Role(CoverageBody) /\ ~ Innermost.interrupt
  /\ \/ CallableRaises /\ loops' = Below(loops) /\ UNCHANGED <<tools, overrides>>
     \/ CallableRaisesThrough /\ CallOver(Below(loops), "failed")
  /\ UNCHANGED <<plugin, replanned>>

----------------------------------------------------------------------------
(* The callables of the build, and execute_task *)

Within ==
  /\ \/ BeginTask \/ SkipStep \/ TaskSucceeds
     \/ StartStep /\ StepsOf(Inner)[Inner.step].callable # CoverageBody
     \/ Others /\ (CallableReturns \/ CallableRaises)
  /\ UNCHANGED coverage

Replan ==
  /\ Others
  /\ \E r \in Requests : ExecuteTask(r) \/ ExecuteTaskShortestPlan(r)
  /\ replanned' = TRUE
  /\ UNCHANGED <<plugin, tools, overrides, loops>>

CallReturns ==
  /\ PlanReturns
  /\ CallOver(loops, "succeeded")
  /\ UNCHANGED <<plugin, replanned>>

CallRaises ==
  /\ TaskRaises \/ (Others /\ CallableRaisesThrough)
  /\ CallOver(loops, "failed")
  /\ UNCHANGED <<plugin, replanned>>

PrepareRaises ==
  /\ Role(PrepareBody) /\ InPlan(CoverageTask)
  /\ \E i \in DOMAIN coverage_tasks :
       /\ Late(coverage_tasks[i])
       /\ \A j \in 1..(i - 1) : ~ Late(coverage_tasks[j])
       /\ Configure(i - 1)
  /\ \/ CallableRaises /\ UNCHANGED <<tools, overrides, loops>>
     \/ CallableRaisesThrough /\ CallOver(loops, "failed")
  /\ UNCHANGED <<coverage_tasks, replanned>>

\* What is no Exception passes through the `finally` of run_coverage as well,
\* and `coverage` never catches it.
Interrupt ==
  /\ CallableInterrupted
  /\ CallOver(IF RunningStep.callable = CoverageBody THEN Below(loops) ELSE loops, "interrupted")
  /\ UNCHANGED <<plugin, replanned>>

CovEnded == Ended /\ UNCHANGED coverage

CovNext ==
  \/ \E a \in InitActions : Register(a) \/ PassOver(a) \/ RunCoverage(a)
  \/ Prepare \/ PrepareRaises
  \/ BeginLoop \/ EndLoop \/ CoverageRaises
  \/ Within \/ Replan \/ CallReturns \/ CallRaises
  \/ Interrupt
  \/ CovEnded

CovSpec == CovInit /\ [][CovNext]_<<vars, coverage>>

----------------------------------------------------------------------------
(* Properties *)

\* The state of the plugin is of the right type.
CovTypeOK ==
  /\ coverage_tasks \in Seq(InitActions) /\ covered_tasks \in Seq(InitActions)
  /\ prepared \in BOOLEAN /\ replanned \in BOOLEAN
  /\ python_env \in [InitActions -> Env \cup {NoEnv}]
  /\ tools \in Seq(Nat)
  /\ overrides \in [Env -> Seq(Nat)]
  /\ loops \in Seq(Loop)

\* s holds the members of S, in the order in which they came.
Stacked(s, S) == Elements(s) = S /\ \A i, j \in DOMAIN s : i < j => s[i] < s[j]

Measuring == {i \in DOMAIN loops : loops[i].measuring}
Depths(I) == {loops[i].depth : i \in I}

RunsCoverage(c) == c.running /\ StepsOf(c)[c.step].callable = CoverageBody

\* The open calls out of which `coverage` has called execute_task.
Measurements == {d \in 1..(Len(calls) - 1) : RunsCoverage(calls[d])}

\* However test runs under measurement fail, are interrupted or run plans that
\* measure again: the tools that a test process is given, and what overrides an
\* environment, are those of the measurements under way, the innermost one last,
\* and none is left when the build is over (run_coverage, its two `finally`).
OverridesBalanced ==
  /\ Stacked(tools, Depths(Measuring))
  /\ \A e \in Env : Stacked(overrides[e], Depths({i \in Measuring : loops[i].env = e}))
  /\ Depths(Measuring) = Measurements

\* When `coverage` has come through its list, and no callable has asked for a
\* plan, the tests that were measured are those of the plan whose plugin takes
\* part, each once, after they were executed: what coverage_init, `prepare` and
\* `coverage` find in the current plan goes together.
MeasuredOnceEach ==
  \A l \in Elements(loops) :
    ~ replanned /\ ~ l.failed /\ ~ l.measuring /\ l.left = <<>> =>
      LET c == calls[l.depth] IN
      /\ Elements(l.measured) = {a \in InitActions : Covers[a].task \in Elements(c.plan)}
      /\ \A i, j \in DOMAIN l.measured : l.measured[i] = l.measured[j] => i = j
      /\ \A a \in Elements(l.measured) : \E i \in 1..(c.pos - 1) : c.plan[i] = Covers[a].task

=============================================================================
