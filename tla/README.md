# A verification development for PyBuilder

PyBuilder is a build tool. A project has a `build.py` that names plugins, tasks,
actions around tasks, initializers and finalizers; `pyb` loads it, resolves the
dependencies of the tasks into a graph, makes a plan and executes it. The TLA+ modules in
this directory model the parts of `src/src/main/python/pybuilder` that decide *what runs,
when, how often and what happens when it fails*. TLC checks them on small instances;
TLAPS proves the main results for all of them.

Line numbers below and in `PROJECT.json` are those of the files under
`src/src/main/python/pybuilder`.

## 1. Inventory

| Component | State | Operations | What is hard about it | What makes it correct |
|---|---|---|---|---|
| Task registration (`reactor.py` 319-396, `execution.py` 248-288) | `_tasks`, `_dependencies_pending_tasks`, `_actions`, initializers, finalizers | `collect_project_annotations`, `register_task`, `register_action`, `register_late_task_dependencies` | an edge is declared at either end, by any module, before or after its task is registered; names are registered twice | the graph is what was declared, whatever the order |
| Dependency resolution (`execution.py` 492-542) | `_task_dependencies`, `_execute_before`, `_execute_after` | `resolve_dependencies` | the same edge optional here and required there; unknown names | required wins, nothing lost or doubled, only unknown names refuse |
| Execution plans (`execution.py` 403-490, `graph_utils.py`) | none that outlives the call | `build_execution_plan` | depth first recursion, omitted and forbidden dependencies, cycles | every task after its prerequisites, once, nothing else; recursion ends |
| Task execution (`execution.py` 315-395, 443-462; `reactor.py` 279-293) | `_current_task`, `_current_execution_plan`, `_tasks_executed`, `_actions_executed` | `execute_task`, `execute_action`, `execute_execution_plan`, `build_shortest_execution_plan` | any callable fails or is interrupted; running callables ask for further plans; one set of variables for all of them | prerequisites first, teardown before the error is raised, the first error wins, success means done |
| Build lifecycle (`reactor.py` 150-277, `cli.py` 582-683) | current reactor, patched `__import__`, project, environments | `prepare_build`, `create_execution_plan`, `build`, `main` | an error or Ctrl-C at each point; what is restored and what is not | exit code 0 only for a complete build; finalizers in reverse after success |
| Deferred plugins (`reactor.py` 53-113, 157-163, 306-317, 524-565) | a tree of plugins, pending installs, imported plugins | `require_plugin`, `import_plugin`, `__import_with_plugins`, `_load_deferred_plugins` | imports re-enter the loader and extend the tree during its traversal | each plugin once, children first, the loop ends |
| Plugin loaders and pip (`pluginloader.py`, `install_utils.py`, `pip_utils.py`) | installed packages | `install_plugin`, `load_plugin`, `install_dependencies`, `pip_install_batches` | failed installs that are only logged; batches by options | each wanted package in one batch, none silently missing |
| Python environments (`python_env.py`, `plugins/python/core_plugin.py`) | registry of environments with overrides | `create_venv`, `push_override`, `pop_override` | overrides around failing tasks | an override is undone on every way out |
| Remote object pipe (`remote/__init__.py`) | exposed objects, proxies, verified types, the state of the connection, on both ends | `_recv`, `call`, `get_exposed`, `request_remote_proxy_def`, `_dump`, `close` | two processes, nested calls both ways, either may die or close | answers match requests, no deadlock, closing ends both |
| Remote tools (`remote_tools/*`, `unittest_plugin.py`) | a tool process and its pipe | `start_tool`, `_instrumented_tool`, `execute_tests_matching` | shutdown against a running call; exit codes | a result only when the tool ended well |
| Coverage (`coverage_plugin.py`) | covered tasks, tools, overrides, coverage data | `coverage`, `run_coverage`, report | runs executables of other tasks inside a task | tools and overrides balanced, thresholds as configured |
| Parallel integration tests (`integrationtest_plugin.py` 94-160, 265-374) | two queues, worker processes, progress | `run_integration_tests_in_parallel` | workers that die, queues that look empty | each test reported once; the loop ends |
| Spawned processes (`python_utils.py` 100-142) | a queue and a child | `spawn_process` | a child that dies before it answers | result or exception, always |
| Project model (`core.py`) | properties, dependencies, files | `get_property`, `expand`, `validate` | recursive expansion, contradictory dependencies | expansion ends; contradictions are reported |
| Vendorizing (`vendorize_plugin.py`) | source text and an offset | `ImportTransformer` | offsets after several rewrites | only imports change |
| Packaging, scaffolding, linters, documentation, CI reports | files | run a command, write a file | little | out of scope |

How they interact: `cli.main` makes a `Reactor` with one `ExecutionManager` and calls
`prepare_build` and `build`. `prepare_build` imports `build.py` under a patched
`__import__`; `use_plugin` calls in it extend the deferred plugins, which are then
imported in turn. The annotations of all modules are registered, the plugins' first, and
resolved. `build` runs the initializers, validates the project, builds the plan, executes
it and runs the finalizers. Tasks get the reactor as an argument, so a running task may
execute further plans (`execute_task`, `execute_task_shortest_plan`), single executables
(coverage) or tool processes (unit tests, over the remote object pipe). There is one
thread per process; what interleaves is *calls inside calls* in the build, and *two
processes* around a pipe or a queue.

`PROJECT.json` lists the hazards of this code, each at its line, with the properties that
look for it or the reason why none does.

## 2. Modules

| Module | Models | Role |
|---|---|---|
| `PlanGraph` | resolved dependencies, exclusions, `_should_omit_dependency`, the cycle criterion | data shared by the modules below; defines `RightPlan` |
| `PlanOrder` | what `build_execution_plan` promises | abstract specification |
| `ExecutionPlan` | `build_execution_plan` with all it calls | implements `PlanOrder` |
| `TaskExecution` | execution of plans, nested calls, failures | takes right plans as given |
| `TaskRegistry` | registration and resolution of tasks and actions | ends with the graph `PlanGraph` starts from |
| `DeferredPlugins` | the tree of plugins, the passes over it, the loaders | yields the modules `TaskRegistry` collects, in their order |
| `BuildLifecycle` | `main`, `prepare_build` and `build`, from the command line to the exit code | takes what the modules above do as stages that succeed or raise |
| `Coverage` | the coverage plugin, with the tools of the reactor and the overrides of `PythonEnvRegistry` | composed with `TaskExecution`: each of its steps is a step there |
| `RemotePipe` | the remote object pipe between two processes | operators, composed by `RemoteTool` |
| `RemoteTool` | a run of the unit tests in a tool process, both programs and the pipe | takes the runner and the tests as callers of each other |
| `MC...` | | instances for TLC |
| `ExecutionPlanProofs`, `TaskExecutionProofs`, `TaskRegistryProofs`, `DeferredPluginsProofs`, `BuildLifecycleProofs`, `CoverageProofs`, `RemoteToolProofs`, `RemoteOrderProofs` | | theorems |

The components are composed by their interfaces: `DeferredPlugins` ends with the modules
whose annotations are collected (`collected`), once each, and `TaskRegistry` is right for
every sequence of modules (`Builds`); `TaskRegistry` produces resolved
dependencies in the shape of `Project.deps`; `ExecutionPlan` takes any such project and
its theorem `PlanRight` shows that the plans are right; `TaskExecution` assumes of its
plans exactly that (`TaskExecutionAssumption`, the conjunct on `RightPlan`). For
`BuildLifecycle` each of them is a stage: loading the plugins is part of `descriptor`,
registration and resolution of `annotations` and `resolve`, building the plan of `request`, and
executing it is `tasks`. The modules themselves say when these succeed and what
they raise (`FailureIsJustified`, `UnknownRefused`, `RefusalIsJustified`,
`FailureContained`); the lifecycle has to be right whichever happens.

Two of the compositions are formal. `ExecutionPlan` implements `PlanOrder` by the instance
`Order`, which maps the project, the plan and the outcome of the detailed module to those of
the abstract one; `ImplementsPlanOrder` is checked by a run and proved. `Coverage` extends
`TaskExecution` and conjoins to each of its actions what the plugin does in it;
`CoverageIsExecution` proves that every behaviour of `CovSpec` is one of `TaskExecution`, so
that what holds there needs no second proof.

Operators whose names start with `Bug` are not part of any specification. Each is a
plausible mistake in the definition that follows it; `PROJECT.json` pairs it with the
property that notices when it takes that definition's place.

### ExecutionPlan

One behaviour builds one plan. `Collect...` is `collect_all_transitive_tasks` (407-424):
the next requested name is looked up, then everything it leads to is visited, omitted
dependencies included; the order of the visits has no effect and is left open.
`AcceptAcyclic`/`RejectCircular` are the check of `graph_utils.Graph`, by what it decides:
a set of tasks has a cycle iff some nonempty subset lies on edges into itself. The second
phase is `_enqueue_task` (464-475): the Python call stack is the variable `stack`, a frame
is a task and the position of its loop, so that each turn of each loop is a step:
`OmitDependency`, `RejectExclusion`, `EnqueueDependency`, and `AppendTask` when the loop
is over. Not modelled: logging, and the *text* of the exceptions.

### TaskExecution

A behaviour is one build, from its plan to its end. `calls` is the stack of calls of
`execute_execution_plan`, and of `execute_task` made directly; a call has the position in
its plan and in the steps of the task (`_execute_before`, executables, `_execute_after`).
The variables `current_task`, `current_plan`, `tasks_executed` and `actions_executed` are
those of the one `ExecutionManager` that all calls share. A callable that runs returns,
raises an `Exception`, is interrupted (`KeyboardInterrupt` and `SystemExit`, which no
handler in this code catches), or calls the reactor. When a nested call raises or is interrupted, the callable
that made it may let that through or go on: both are the free choice between
`CallableReturns`, `CallableRaises` and `CallableInterrupted` that follows. A refused request changes no state and
therefore is no action. `began` and `failures` are history variables.

### TaskRegistry

A behaviour collects the modules of one build one after the other. For each module
`InjectDependency` goes over the `dependents` of its tasks, `RegisterTask` and
`RegisterAction` over what it declares, and `RegisterLate` is
`register_late_task_dependencies`. Then `FlushPending` .. `Resolved` are the loops of
`resolve_dependencies`, one turn a step. A dictionary from names to lists is a function
on all names with `<<>>` for absent keys: the code never stores an empty list.
Executables, descriptions and the flags of actions are left out; they are carried along
unchanged.

### DeferredPlugins

A behaviour is the part of `prepare_build` from the first line of `build.py` to the last
`collect_project_annotations` of a plugin. What a module does while it is imported is its
`script`: a sequence of `use_plugin` calls and imports, an import standing in a `try` that
handles nothing, `ImportError`, or any `Exception`. For a plugin without a prefix the code tries
two modules, `pybuilder.plugins.<name>_plugin` and `<name>`; its script is that of the one that is
found. `traverse` is a recursive generator;
the stack of generators is the variable `walk`, with one step for each descent, ascent and
turn. A generator goes over a *copy* of the entries (`odict(_entries)`, 83), so `items` is
fixed when it starts, while the entries themselves are read when they are reached.
`import_plugin` is three phases: at an entry (`install`: `RejectPending`, `InstallPending`,
`PassOver`, `RejectMissing`), while the module runs (`script`), and back (`ScriptEnds`).
`_deferred_import` is true exactly in the phases `visit`, `install` and `script`, which is
why an import that fails in a plugin (`ImportFailsInScript`) does not load anything, and
one that fails in `build.py` (`ImportDeferred`) does.

An exception that leaves `_load_deferred_plugins` closes the generators at once, as
CPython does when the last reference goes, and their `finally` clauses empty
`_entry_stack` (`LoadingFails`). `build.py` may handle the exception and go on with the
tree as it is; that is the case `OnePlaceEach` and `ClosureCollected` are about.

External, and therefore left open: pip installs any subset of what it is asked for, since
a failed batch is only warned about (107). Left out: a built-in plugin that is found and fails to be
imported while there also is a module of its name, which is then tried; versions of plugins, the entries in
`sys.modules` (a module whose import failed is run again, one that is only outdated is
not; both come to the same), imports of a plugin's module other than by `import_plugin`,
and the environment the plugins are installed into. `Root` is `build.py`, and in `modules`
the `None` of an entry that has not been imported.

### BuildLifecycle

A behaviour is what one process does by calling `main` up to `MaxRuns` times; `pep517.py` and
the `setup.py` that `scaffolding.py` writes call it as a function. Each run has its reactor, and both have the
number `run`. A run begins with any options (`Begin`), those included that print the help or the version
and leave with `SystemExit` (`ShowHelp`), and goes from stage to stage. `Mode` is the
order in which `main` looks at its options. In every stage that has a handler around it `Raise`
may happen, with what the code called there can raise (`MayRaise`): `SystemExit` only
where code of the user runs, exceptions of PyBuilder only where the code raises them.
`FailBuild` is the handler of a build, which turns everything into exit code 1,
and `FailListing` that of the other modes, which only handles PyBuilder's own exceptions.
`Escape` is for the stages that have no handler.

The import of the interpreter is `hook = 0`; `hook = r` is the method of reactor `r`, which
delegates to `saved[r]`. The tasks of the command line are chosen when they are first looked at,
in `PrepareTasks`. Initializers and finalizers are reduced to the environments they
apply in, and initializers to what they do with one property of the project, which the command line
may set too: nothing, `set_property`, or `set_property_if_unset`. `property` says who gave it
its value. `done` is the history of what was executed.

Left out: what is printed, the attributes of `build.py` other than `default_task`,
`sys.path`, the registry of environments, and the arguments `+` and `^` without a name,
which the code takes for the names of tasks.

### Coverage

`Coverage` says of some callables of `TaskExecution` what they do. The `coverage_init` of each
test plugin (`Register`) runs before `prepare`; `prepare` (`Prepare`, `PrepareRaises`)
publishes the list of covered tasks, then checks their order; `coverage` goes over the list
(`BeginLoop` .. `EndLoop`) and calls `execute_task` for one executable of each
(`RunCoverage`). That is the one place where the code enters a task past any plan, and
`ExecuteExecutable` of `TaskExecution` is only taken there. A measurement that ends, in
whatever way, passes through the two `finally` of `run_coverage` (`CallOver`); after a failure or
an interrupt the loop lets it through, and a callable further out may catch it. `loops` is the stack
of the loops over covered tasks: a test under measurement may ask for a plan that holds
`coverage`. A tool, like an override, is known by how many calls were open when it was put
in place, which no two of them share at a time.

All three ask for the current plan, which nested plans replace and never restore. `replanned` remembers
that a callable has asked for a plan. After that `coverage` passes over tests without a word,
and after a plan whose `prepare` was dropped it fails on a list that is `None`; the model has both, and
`MeasuredOnceEach` is about the builds before it.

Left out: what is measured, and the reports, of which only failing remains
(`CoverageRaises`); the registration of environments, an unknown one being another failure.

### RemotePipe and RemoteTool

Each end of the pipe is one thread, and it serves requests only while it waits for
an answer. What an end does is therefore a stack (`stack`): its waits (`answer`, `verify`,
`proxy`, `receive`, `closing`, `drain`), and the functions it serves for the other end
(`call`). `net` has what is on its way to an end. `SendKnowing` is one turn of the
loop in `_dump`: a class that is neither verified nor sent by reference is first asked for
(`VERIFY_TYPES`), and when the answer has come `TakeValue` tries again. While a reference is
unpickled for which there is no proxy, `GetProxyDef` asks for its definition, and the message
is looked at again afterwards. `Unwind` is an exception on its way down the
stack: it stops at the innermost function served, closes the connection where the code does,
and where it leaves a wait behind whose answer is still to come, `spoiled` is set.

Answers carry no number in the code; `of` is a history field that says which request
a message answers, and `misread` remembers that some request took another's answer. An
object is reduced to its class, and classes to what decides their way: who finds them by
name (`Importable`), which cannot be pickled (`Unpicklable`) or not rebuilt (`Brittle`).

`RemoteTool` is the two programs: `execute_tests_matching` after `start_tool` in the
parent, `_instrumented_tool` with its tools in the child. `pc` is where each is, `held` what
is on its way through a `finally: pipe.close()`. The runner, the tests and the test result
are the author's: whenever one of them runs it may call the other end (`CallOther`), return
or raise. A runner whose call meets a `PipeShutdownError` may let it pass, raise, or make a result
in spite of it (`salvaged`). Faults are the death of a process at any point, a `SystemExit` out of a test, and
an object that is gone or a name that is not callable any more (`ServeDud`: one error for each of
the two, and then the answer of `None`). `Join` is the order in which the parent looks at
the exit code, the cause of the shutdown and the result.

Assumed: no two classes have one name, so that the class an end finds by the name is that of the
object (where another one is found, `_dump` verifies that one, and asks again for ever); a runner
that was told that the pipe is closed makes no more calls; writes do not block, since the
messages fit the buffer of the connection; code of the author ends. Left out: `hide`, after which nothing is
asked for any more; the version of the pickle protocol; the identity of proxies and back references.

## 3. Runs

| Run | Instance | Shows |
|---|---|---|
| `plans` (`ExecutionPlan.cfg`) | three tasks, all graphs with up to two dependencies per task out of a set, optional and required, exclusions of every kind, requests of one and two names, one of them unknown | `PlanIsRight`, `NoReentrantCall`, `RefusalIsJustified`, the refinement of `PlanOrder`, `PlanBuildingEnds` |
| `tasks` (`TaskExecution.cfg`) | four tasks, three requests, one task with a `before` action, two executables, three `after` actions (two of them teardown), `only_once` actions before and after; two callables that may call the reactor, at most two calls | `PrerequisitesMet`, `SuccessIsComplete`, `FailureContained`, `TeardownBeforeRaise`, `ExecutedMeansDone`, `BuildEnds` |
| `registry` (`TaskRegistry.cfg`) | all builds of two modules over two tasks and an unregistered name | `ResolvedAsDeclared`, `UnknownRefused`, `ActionsAttached`, `ResolutionEnds` |
| `plugins` (`DeferredPlugins.cfg`) | all builds of nine kinds of `build.py` and three plugins: one built in, one to be downloaded that brings a package, one that is built in, outdated, absent or of an unknown kind; modules of up to three statements, plugins that use each other in circles and themselves | `ClosureCollected`, `UsedFirst`, `OnePlaceEach`, `RetryIsLast`, `FailureIsJustified`, `LoadingEnds` |
| `lifecycle` (`BuildLifecycle.cfg`) | two runs in one process, all options, plugins and `build.py` with up to two initializers and two finalizers each, one environment, nine command lines and three defaults over two tasks | `ExecutedInOrder`, `ZeroMeansDone`, `HookEndsAtInterpreter`, `ReactorIsReady`, `TasksAsRequested` |
| `coverage` (`Coverage.cfg`) | four tasks with their `coverage_init`, `prepare` and `coverage`; plans with the integration tests before, after or without `coverage`; one environment set, one by default; unit tests that may ask for plans, at most four calls open or over, measurements included | `OverridesBalanced`, `MeasuredOnceEach` |
| `remote_tool` (`RemoteTool.cfg`) | two tools, three calls across the pipe, eight classes that both ends, one or none find, one that cannot be pickled and one that cannot be rebuilt, two faults | `AnswerIsOwn`, `SentIsFound`, `ResultMeansDone`, `UnboundMeansExit`, `ToolRunEnds` |
| `cause_passed` (`CausePassed.cfg`) | the same without calls and faults | a claim about `close` that does not hold, see below |
| `override_stands` (`OverrideStands.cfg`) | the same with one run | a claim of the help text that does not hold, see below |
| `shortest_plan_repeats` | the tasks of `tasks` in a build of `clean` and `deploy`; `deploy` asks once for the shortest plan of `verify` | a claim of a docstring that does not hold, see below |
| `circular_check_lost`, `stale_current_task` | the instance of `tasks`, with one caller | two claims of the code's own texts that do not hold, see below |

Why the bounds are enough. Three tasks give every shape of `_enqueue_task`'s recursion that
matters: a shared prerequisite, a chain, a cycle of each length, a self-dependency; the
theorems cover the rest. Two nested calls are the least with which a plan runs inside a plan inside a plan, and with
which one callable asks twice. Two modules are the least with which an edge is declared
before and after its task; a third adds only more of the same, and the theorems cover any number.
Three plugins are the least with which an entry has a child that has a child, and the tree
grows before, at and behind the entry being imported; again the theorems cover the rest.
Two runs are the least with which one run finds the import, and the reactor, that a failed one
left behind; the theorems cover any number. The command lines were chosen to name a task
twice, to remove one that is not there, one that is only added, and all there are.
Four calls let a measured test run a plan with a `coverage` of its own that measures again; as
`coverage` may always raise, the bound keeps no call from ending. Three calls across
the pipe nest to depth three, so that each end has a call below and above one of the other's, and
two faults let a process die while the other deals with a `SystemExit` or a second answer.
`MaxRuns`, `MaxCalls`, `MaxFaults` and `Callers` bound only how often `main` is called, what
callables and programs do, and what befalls them. No bound hides a guard of the code.

Fairness is `WF_vars(Next)` in every module with a liveness property. Each models one thread that never waits for
another; a callable is assumed to return, raise or call at some time (a task that hangs
hangs the build). `RemoteTool` has one condition for each process, `WF_vars(ParentStep)` and
`WF_vars(ChildStep)`: the operating system runs both, and neither needs faults to happen. `ToolRunEnds` is therefore a
statement about the two ends not waiting for each other. It leaves out what follows a request
that was given up with the connection open (`spoiled`): when a `SystemExit` leaves
a nested call and a function below handles it, or an answer cannot be unpickled there, the
answers that are still to come go to the wrong requests, and both ends can be left waiting
for ever. The code does that; it is no artefact of the model, and is why the two runs of this
module do not check deadlock. `Coverage` has no liveness property of its own; its
behaviours are those of `TaskExecution` with finitely many turns of a loop in between.
`BuildLifecycle` states none and its specification has no fairness: every step of it
leads on to the next stage, so that there is nothing to say. Its runs do not check deadlock,
as a process stops after its last call of `main`.

### What the code's texts say, and the code does not do

* `NothingRepeated`. `build_shortest_execution_plan` is documented as "useful when you want
  to execute tasks dynamically without repeating pre-requisite tasks you've already
  executed" (446-447). It compares the plan with `_tasks_executed`, position by position and from the first
  task of the *build* on, and stops at the first difference (451-456). In a build that begins with
  `clean`, which the plan of `verify` does not have, it stops at once, and `compile` is repeated,
  although neither `compile` nor anything it needs was asked for. That a task the request names is executed
  again, and with it what needs it, is intended (`test_shortest_execution_plan_reruns_on_demand`,
  `execution_tests.py` 828-841), and the property allows it. In all tests of the method the tasks executed are
  the first of the plan, so none meets this case.
* `CircularCallRefused`. The check against entering a running task (458) reads `_current_task`,
  which a nested plan overwrites and resets (323, 368). After one nested plan the check no
  longer knows the outer task.
* `RefusalNamesRunningTask`. `_current_task` is not reset when a task fails (342-343, 366-367), so after a caught failure
  a request may be refused on account of a task that is not running any more.

* `OverrideStands`. The help of `-P` says "Set/ override a property value" (`cli.py` 188).
  `prepare_build` applies the overrides (`reactor.py` 214) before the initializers run
  (247), and one that calls `set_property` replaces the value before any task sees it. Only
  what is set with `set_property_if_unset` can be overridden; that is what `OverrideLostOnlyToSet`
  states, and a theorem below proves.
* `CausePassed`. `close` is documented as "You can optionally attach an exception to pass to
  the other end of the pipe" (`remote/__init__.py` 422-423). It takes whatever comes next for
  the answer to its CLOSE (727), so that of two ends that close at once neither keeps what the
  other attached. A tool that fails to start while the parent waits for the tests makes this
  happen: the child answers the parent's request with `None` while it verifies the types of its
  exception, the parent fails on that, and both close.

## 4. Proofs

All theorems are checked by TLAPS (SMT, Zenon, PTL) without assumptions other than those
named in the modules, which TLC evaluates on its instances.

**`ExecutionPlanProofs`**, for every set of tasks, finite or not. The inductive invariant
`IInv` says that `collected` and `pending` are within what is reachable and closed apart from `pending`;
that the open calls form a path of kept dependencies among collected tasks; that
the plan is without repetition and holds, for each of its tasks, the kept dependencies
before it; and that each open call has placed those of its dependencies it has gone past.
The path is what `NoReentrantCall` needs: a call for a task that is already open would
close a cycle among the collected tasks, which the check has excluded. From `IInv` follow
`PlanRight`, `NoReentry`, `RefusalRight`, and with it each step is matched with a step of
`PlanOrder` or a stutter: `Refinement`.

The cycle check of the model is `HasCycle`: there are tasks each of which has a successor among
them. The code takes the graph apart into strongly connected components, and
`assert_no_cycles_present` reports those of more than one task and tasks that depend on
themselves. `CycleIsComponent` proves, for any finite set of tasks, that the two criteria agree. Of the
sets `HasCycle` speaks of take one with the fewest members: what a member of it leads to
within it is such a set again, hence all of it, so that all its members lead to each other and
lie in one component. Conversely a component with more than one task is such a set. From this
and `RefusalRight` follows `CircularRight`: when the number of tasks is finite, a build is refused as
circular only for such a component, and no plan is made of a graph that has one. Finiteness is needed
here only: an endless chain satisfies `HasCycle`, too.

**`TaskExecutionProofs`**, for every project, every right plan, all steps, any depth of
nesting. The invariant says of each open call what it owes to the past: the plan is
ordered up to what has been executed, the tasks before its position have been executed,
the steps before its position were called, were not due, or were skipped for the error. All of it depends on `tasks_executed` and
`actions_executed`, which only grow, so nothing a nested call does can spoil the calls
below it; that is the whole argument. Results: `PrerequisitesFirst`, `SuccessComplete`,
`FailureStaysContained`, `TeardownFirst`, `ExecutedDone`.

**`TaskRegistryProofs`**, for any sequence of modules, of any size. What makes the graph
right is a conservation law (`Conserved`): at every moment the edges in the dependencies of
the registered tasks, the injected and the pending ones are together those of the modules
gone through; and tasks and actions likewise. The second part (`ResolvedSoFar`) says of the
loops of `resolve_dependencies` that the list of a task is right for the declarations gone
through so far, which is where an optional and a required declaration of one edge meet.
Of actions there may be several alike, and `register_action` inserts in the middle, so that
a count is not enough to know them by: `EachPlaced` pairs the list of actions with the
places they are declared at, and `EachCounted` counts what is attached by the mentions gone
through; the pairing carries the one count over to the other.
The one assumption (`TaskRegistryAssumption`) is that a module's `dependents` lead to
tasks of that module, which the code has by construction. Results: `GraphAsDeclared`,
`UnknownAlwaysRefused`, `WaitsAlways`, `AttachedOnceEach`.

**`DeferredPluginsProofs`**, for any set of plugins and any modules. A plugin is imported
before those it uses are even known, and the tree grows at any place while it is gone
through, so no pass by itself is known to be complete. The invariant therefore speaks of a
pass during which nothing has changed *so far* (`Pass`): the entries it has gone past lie
in a set of imported plugins that is closed under the entries below (`Done`). When such a
pass ends, that set has all entries of the root. That these and what is below them are all
plugins is `Rooted`, stated as a closure so that it is inductive without an induction over
the depth of the tree. From this follows `RetryAlwaysLast`. For `ClosureAlwaysCollected`
two more things are needed: `Progress`, that what a module has named up to its present line is
known, and for *once each* that no entry is in two generators (`OneGenerator`). The latter
rests on `Order`: a plugin is below one that was required earlier, so that the way from the
root to the present entry (`Path`) never comes back to itself. The other results are
`AlwaysOnePlace`, `AlwaysUsedFirst`, `AlwaysInstalledBefore`, `FailureAlwaysJustified`.
The one assumption (`DeferredPluginsAssumption`) is that `build.py` is no plugin and that
the modules are sequences of statements.

**`BuildLifecycleProofs`**, for any number of runs, and any initializers, finalizers and
environments. Everything a run is to execute has a rank: the initializers in their order, the plan,
the finalizers in reverse. `DoneBelow(n)` says that exactly what is due and has a rank below `n`
is done, in order; each stage has its `n` (`Progress`), one step of a list raises it by one,
and a failure leaves it where it is. `Flow` says which modes and errors a stage can be
reached with, and `Hooks` that a reactor is the current hook only while it prepares its build or
after its run has raised. Results: `AlwaysInOrder`,
`ZeroAlwaysMeansDone`, `ExitsAlwaysContained`, `HookAlwaysEnds`, `ReactorAlwaysReady`,
`OverrideAlwaysLostToSet`. The one assumption (`BuildLifecycleAssumption`) gives the types of the
constants.

`TypeCorrect` and `AlwaysAsRequested` are about the tasks a run takes from its arguments: for
a command line and a default of any length, each task is there as many times as it was named and
added, minus the times it was removed. The loops of `_prepare_tasks` are recursive functions of how many
arguments they have gone through (`Named`, `PreparedTasks`), and what they compute is an
induction over that number. It is made without the induction theorem of the library: the numbers for which a
statement fails, if there are any, have a least one (`LeastOf`, `UpTo`), and the step before it
holds. In this way `NamedTimes` and `PreparedTimes` count what the loops keep and take away
(`Times`); `Requested` is the invariant that follows, with the types of the two sequences.

**`CoverageProofs`**, for any project, plans, covered tasks and environments. It rests on
the invariant of `TaskExecutionProofs`: `StepOfExecution` shows each step of `CovNext` to be
one of `Next` (or a stutter), so that invariant is kept (`CoverageIsExecution`,
`CoveragePrerequisites`). To it `Core` adds that the loops and the open calls that run
`coverage` are the same ones, in the same order (`Fits`, `Nested`), that a loop is measuring exactly when
a call lies above its own, and that tools and overrides, read as stacks, are the depths of the loops that measure
(`Balanced`). A call that ends is either the one above the innermost loop, and then the
top of both stacks goes, or another one, and then nothing does. Results: `CoverageTyped`,
`CoverageBalanced`. The assumption (`CoverageAssumption`) says that the callables of the plugin
are different ones, and that a covered task has the step that is measured.

`MeasuredAlwaysOnce` relates four things that are kept in different places and at different
times: what the `coverage_init` of the plugins append, the list `prepare` makes of it, what
the loop of `coverage` has measured, and the plan. A second invariant, `Accounts`, holds them together
while no callable has asked for a plan. `Registered` says how much is known when the plan has come so
far: before `prepare`, the tests whose `coverage_init` is past (`Reached`); afterwards all tests of
the plan, each once, and either `coverage` is not in the plan or they come before it (`InTime`). `Complete` says of the
loop that what it has measured and what is left are together all of them. `Alone`, that there
is no open call besides the plan of the build and the one `coverage` measures, is what keeps
another plan from registering in between. TLC found no state of the `coverage` run that breaks `Accounts`
before it was proved (`CoverageAccounts`). It needs one assumption more
(`PlacementAssumption`), where the callables are: each `coverage_init` is one step of the task
`prepare`, being declared `@before("prepare")`, and comes before the `prepare` of the plugin; `coverage` is a
step of its own task only; none of them is `only_once`; a covered task is not `prepare`.
TLC evaluates it in the `coverage` run.

**`RemoteToolProofs`**, for any classes, any depth of calls and any number of faults. `SentIsFound`
alone is not inductive: a message may be held back while its class is verified, or
wait in `exposed`, and an end may take an answer for another one's. The invariant says of
every message that is under way, held or offered that its load is good for its destination;
that what an end holds verified the other one finds; and that an end asks only about classes it
may send. It does not depend on which request an answer goes to, so it holds in
the spoiled runs as well. For the end of a run it adds where a CLOSE without an exception
can be on its way (`Bids`), which frames can only lie on the stack of an end that has a
cause (`Marks`), and what each place of the two programs says about how the child left
(`Parting`): to report no result at all, the parent must have seen the connection close with
no cause, and only a SystemExit in the tool process leaves none. A result made in spite of
the closed pipe gets through only there, too. Results: `TypeCorrect`,
`AlwaysFound`, `UnboundOnlyByExit`. The assumptions
(`RemotePipeAssumption`, `RemoteToolAssumption`) say which classes exist where; the last one is that a class
an end sends and the other one finds by name is found at home too.

**`RemoteOrderProofs`**, on the same terms: `AnswerIsOwn` and `ResultMeansDone`. Nothing on the wire says which
request an answer belongs to, so the pairing can only follow from the order of things, and the invariant has to
account for both stacks and both queues at once (`Ordered`). Once the child listens it is `Regular`: every frame was opened
where its kind may be opened (`Formed`), and the requests whose answers an end waits for are matched with
what is under way to it and what the frames of its peer owe (`Pairing`): what is to come goes to
the newest requests, and what is under way to newer ones than what is owed. That this is
kept rests on `Single`: one message is under way, or one end runs, never both, so that
whoever acts has the turn (`Turn`); each handler then is a step of the turn: a frame
pushed, an answer taken, the turn handed over with a message, or given up with the
connection closed. Before the child listens this is not so: version, question and CLOSE may be
under way together. While the tools are started (`Early`) the parent has only one question to ask;
when starting one fails (`Aborting`) the child closes, and what each end may still send is a
short list (`Told`, `Heard`), one question of each at most, so that order pairs them again. A request given up with the connection open,
or a call answered twice, ends the guarantee (`spoiled`), and both are excluded by the
property.

On top of it, `ResultMeansDone`. That a result is returned is decided in the parent, that
every tool was stopped in the child, and what links them is how the two part. `Placed`
says what the program of each end waits for at each of its places. `Course` follows the runner: before
it has the version the child sits in `receive()` and nothing is under way to it (`Listening`);
once the child is leaving, the runner waits for an answer that does not come any more, and hears
nothing but the last words of its peer, so that its call can only end with
PipeShutdownError (`Parted`, `GoneAtOnce`). A runner that has its result therefore finds
the child in `receive()`, with nothing served and nothing under way; the CLOSE that follows is what the
child takes next, and this leads it past the loop, with no exception, to the tools
(`Finishing`). All of this holds until a request is given up with the connection open or the child
has left with exit code 1 (`Lost`); the property excludes the first, and `Join` the second, since the parent
looks at the exit code before it looks at the result. TLC found no state of the `remote_tool` run that
breaks these invariants before they were proved. Results: `AnswersAreOwn`, `ResultsAreDone`.

Proved for all values of the constants, and therefore in no run besides:
`WaitsForItsTask`, `InstalledBefore`, `ExitsContained`, `OverrideLostOnlyToSet`.

Only model-checked are the liveness properties (`PlanBuildingEnds`, `BuildEnds`,
`ResolutionEnds`, `LoadingEnds`, `ToolRunEnds`), which need fairness and `ENABLED`. Every
invariant of a passing run, and the refinement, is proved. That Tarjan's algorithm, with its stack and
its low links, does find the strongly connected components is taken from the literature: what
is proved is what the code makes of them.

## 5. Not modelled

The map covers some 2000 of the 12 thousand lines that are PyBuilder's own. Another 245 thousand lines under
`src` are third-party packages in `_vendor`, which are copied into the repository and not
maintained in it; they are not modelled, and are the reason why the modelled share of all
lines is below one percent. Of PyBuilder's own code the following is left out.

* `spawn_process` (`python_utils.py`) and `run_integration_tests_in_parallel`
  (`integrationtest_plugin.py`) have no caller; the call of the second is commented out (66-73).
* `pip_install_batches`: `DeferredPlugins` leaves open which packages an installation brings,
  which is more than any batching can do.
* The steps of Tarjan's algorithm: `HasCycle` is what is decided with its result, and
  `CycleIsComponent` proves that it is. Property expansion,
  `validate_dependencies` and the offsets of `ImportTransformer` are sequential functions of
  their input; nothing interleaves with them.
* Packaging, upload, scaffolding, linters, documentation, reports and CI servers do one thing
  after the other: run a command, write a file. What could be wrong with them is in the text they write.
* Versions, of plugins and of the pickle protocol: no text says what the right outcome of
  a conflict is.
