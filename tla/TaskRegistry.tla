---------------------------- MODULE TaskRegistry ----------------------------
(***************************************************************************)
(* How the task graph of a build comes about.                              *)
(* Reactor.collect_project_annotations (pybuilder/reactor.py) goes over    *)
(* one module after the other - the plugins, then build.py - and registers *)
(* what it declares; ExecutionManager.resolve_dependencies                 *)
(* (pybuilder/execution.py) then turns it into one graph.                  *)
(*                                                                         *)
(* An edge of the graph is declared at the task that depends ("depends on  *)
(* u") or at the task depended on ("dependents are t"), and in the second  *)
(* case possibly before t is registered, or after, by another module.      *)
(***************************************************************************)
EXTENDS Naturals, Sequences, FiniteSets

CONSTANTS
  Name,    \* task names
  Label,   \* action names
  Builds   \* the builds considered: sequences of modules

Dependency == [name : Name, optional : BOOLEAN]

\* Task `task` depends on task `on`.
Edge == [task : Name, on : Name, optional : BOOLEAN]

Action == [name : Label, before : Seq(Name), after : Seq(Name)]

\* What the dir() of a module yields. Tasks and actions are registered in one
\* loop; neither takes notice of the other, so they are listed apart.
Module ==
  [ dependents : Seq(Edge),
    tasks      : Seq([name : Name, deps : Seq(Dependency)]),
    actions    : Seq(Action) ]

ASSUME TaskRegistryAssumption ==
  /\ Builds \subseteq Seq(Module) \ {<<>>}
  /\ \A b \in Builds : \A m \in DOMAIN b : \A i \in DOMAIN b[m].dependents :
       \E j \in DOMAIN b[m].tasks : b[m].tasks[j].name = b[m].dependents[i].on

\* An operator whose name starts with Bug is no part of the specification: it is
\* a plausible mistake in the definition that follows it, for the properties to
\* notice.

VARIABLES
  build,     \* the modules of this build: the plugins', and build.py at last
  phase,     \* the loop that is under way
  module,    \* position in the modules
  at,        \* position of the loop of the phase
  turn,      \* position of the loop inside it
  injected,  \* injected_task_dependencies: <<>> for a name it does not have
  tasks,     \* the names in _tasks, in order of registration
  deps,      \* the `dependencies` of the registered tasks
  pending,   \* _dependencies_pending_tasks: <<>> for a name it does not have
  actions,   \* _actions: those of one name stay together
  resolved,  \* _task_dependencies
  before,    \* _execute_before
  after,     \* _execute_after
  outcome    \* "registering", "resolved", or the exception raised

vars == <<build, phase, module, at, turn, injected, tasks, deps, pending, actions,
          resolved, before, after, outcome>>

Failures == {"NoSuchTask", "MissingTaskDependency", "MissingActionDependency"}

Elements(s) == {s[i] : i \in DOMAIN s}

None == [n \in Name |-> <<>>]

TypeOK ==
  /\ build \in Seq(Module)
  /\ phase \in {"inject", "tasks", "actions", "pending", "dependencies", "attach"}
  /\ module \in 1..(Len(build) + 1)
  /\ at \in Nat \ {0}
  /\ turn \in Nat \ {0}
  /\ injected \in [Name -> Seq(Dependency)]
  /\ tasks \in Seq(Name)
  /\ deps \in [Name -> Seq(Dependency)]
  /\ pending \in [Name -> Seq(Dependency)]
  /\ actions \in Seq(Action)
  /\ resolved \in [Name -> Seq(Dependency)]
  /\ before \in [Name -> Seq(Action)]
  /\ after \in [Name -> Seq(Action)]
  /\ outcome \in {"registering", "resolved"} \cup Failures

Init ==
  /\ build \in Builds
  /\ phase = "inject"
  /\ module = 1
  /\ at = 1
  /\ turn = 1
  /\ injected = None
  /\ tasks = <<>>
  /\ deps = None
  /\ pending = None
  /\ actions = <<>>
  /\ resolved = None
  /\ before = None
  /\ after = None
  /\ outcome = "registering"

Registering(ph) == outcome = "registering" /\ phase = ph

InLoop(ph, s) == Registering(ph) /\ at <= Len(s)
LoopOver(ph, s) == Registering(ph) /\ at > Len(s)

Current == build[module]
Registered == Elements(tasks)

Begin(ph) == phase' = ph /\ at' = 1 /\ turn' = 1

Raise(failure) ==
  /\ outcome' = failure
  /\ UNCHANGED <<build, phase, module, at, turn, injected, tasks, deps, pending,
                 actions, resolved, before, after>>

----------------------------------------------------------------------------
(* Reactor.collect_project_annotations *)

\* The bare name is kept instead of a TaskDependency.
BugNameInjected ==
  /\ InLoop("inject", Current.dependents)
  /\ LET e == Current.dependents[at] IN
     injected' = [injected EXCEPT ![e.task] = Append(@, e.on)]
  /\ at' = at + 1
  /\ UNCHANGED <<build, phase, module, turn, tasks, deps, pending, actions, resolved,
                 before, after, outcome>>

\* add_task_dependency: the edge is kept under the name of the task that
\* depends, whether or not there is such a task.
InjectDependency ==
  /\ InLoop("inject", Current.dependents)
  /\ LET e == Current.dependents[at] IN
     injected' = [injected EXCEPT ![e.task] =
                    Append(@, [name |-> e.on, optional |-> e.optional])]
  /\ at' = at + 1
  /\ UNCHANGED <<build, phase, module, turn, tasks, deps, pending, actions, resolved,
                 before, after, outcome>>

BeginTasks ==
  /\ LoopOver("inject", Current.dependents)
  /\ Begin("tasks")
  /\ UNCHANGED <<build, module, injected, tasks, deps, pending, actions, resolved,
                 before, after, outcome>>

\* A task that was registered before is replaced instead of extended.
BugReplaceTask ==
  /\ InLoop("tasks", Current.tasks)
  /\ LET t == Current.tasks[at] IN
     /\ tasks' = IF t.name \in Registered THEN tasks ELSE Append(tasks, t.name)
     /\ deps' = [deps EXCEPT ![t.name] = t.deps \o injected[t.name]]
     /\ injected' = [injected EXCEPT ![t.name] = <<>>]
  /\ at' = at + 1
  /\ UNCHANGED <<build, phase, module, turn, pending, actions, resolved, before, after,
                 outcome>>

\* register_task, with the edges injected for it in this module; a task that
\* has this name already is extended.
RegisterTask ==
  /\ InLoop("tasks", Current.tasks)
  /\ LET t == Current.tasks[at] IN
     /\ tasks' = IF t.name \in Registered THEN tasks ELSE Append(tasks, t.name)
     /\ deps' = [deps EXCEPT ![t.name] = @ \o t.deps \o injected[t.name]]
     /\ injected' = [injected EXCEPT ![t.name] = <<>>]
  /\ at' = at + 1
  /\ UNCHANGED <<build, phase, module, turn, pending, actions, resolved, before, after,
                 outcome>>

BeginActions ==
  /\ LoopOver("tasks", Current.tasks)
  /\ Begin("actions")
  /\ UNCHANGED <<build, module, injected, tasks, deps, pending, actions, resolved,
                 before, after, outcome>>

\* The action takes the place of the one that has its name.
BugReplaceAction ==
  /\ InLoop("actions", Current.actions)
  /\ LET a == Current.actions[at] IN
     actions' = IF \E i \in DOMAIN actions : actions[i].name = a.name
                THEN [i \in DOMAIN actions |-> IF actions[i].name = a.name THEN a ELSE actions[i]]
                ELSE Append(actions, a)
  /\ at' = at + 1
  /\ UNCHANGED <<build, phase, module, turn, injected, tasks, deps, pending, resolved,
                 before, after, outcome>>

\* register_action: behind the last action of its name, or at the end.
RegisterAction ==
  /\ InLoop("actions", Current.actions)
  /\ LET a == Current.actions[at]
         same == {i \in DOMAIN actions : actions[i].name = a.name}
     IN \E i \in 0..Len(actions) :
          /\ IF same = {} THEN i = Len(actions) ELSE i \in same /\ \A j \in same : j <= i
          /\ actions' = SubSeq(actions, 1, i) \o <<a>> \o SubSeq(actions, i + 1, Len(actions))
  /\ at' = at + 1
  /\ UNCHANGED <<build, phase, module, turn, injected, tasks, deps, pending, resolved,
                 before, after, outcome>>

NextModule ==
  /\ module' = module + 1
  /\ Begin(IF module = Len(build) THEN "pending" ELSE "inject")

\* register_late_task_dependencies: what is left of the injected edges joins
\* the pending ones, and those of registered tasks are added to their tasks.
RegisterLate ==
  /\ LoopOver("actions", Current.actions)
  /\ deps' = [n \in Name |-> IF n \in Registered THEN deps[n] \o pending[n] \o injected[n]
                                                 ELSE deps[n]]
  /\ pending' = [n \in Name |-> IF n \in Registered THEN <<>> ELSE pending[n] \o injected[n]]
  /\ injected' = None
  /\ NextModule
  /\ UNCHANGED <<build, tasks, actions, resolved, before, after, outcome>>

----------------------------------------------------------------------------
(* ExecutionManager.resolve_dependencies *)

UnknownPending == {n \in Name \ Registered : pending[n] # <<>>}

RejectPending ==
  /\ Registering("pending")
  /\ UnknownPending # {}
  /\ Raise("NoSuchTask")

\* What is pending is cleared without a look.
BugPendingForgotten ==
  /\ Registering("pending")
  /\ deps' = [n \in Name |-> IF n \in Registered THEN deps[n] \o pending[n] ELSE deps[n]]
  /\ pending' = None
  /\ Begin("dependencies")
  /\ UNCHANGED <<build, module, injected, tasks, actions, resolved, before, after, outcome>>

\* register_late_task_dependencies({}), then _dependencies_pending_tasks.clear()
FlushPending ==
  /\ Registering("pending")
  /\ UnknownPending = {}
  /\ deps' = [n \in Name |-> deps[n] \o pending[n]]
  /\ pending' = None
  /\ Begin("dependencies")
  /\ UNCHANGED <<build, module, injected, tasks, actions, resolved, before, after, outcome>>

ResolvingTask == tasks[at]

InDependencies == InLoop("dependencies", tasks) /\ turn <= Len(deps[ResolvingTask])

Declaration == deps[ResolvingTask][turn]

\* The positions of the dependency in what is resolved of this task.
Existing == {k \in DOMAIN resolved[ResolvingTask] :
               resolved[ResolvingTask][k].name = Declaration.name}

Resolve(list) ==
  /\ resolved' = [resolved EXCEPT ![ResolvingTask] = list]
  /\ turn' = turn + 1
  /\ UNCHANGED <<build, phase, module, at, injected, tasks, deps, pending, actions,
                 before, after, outcome>>

RejectMissing ==
  /\ InDependencies
  /\ Declaration.name \notin Registered
  /\ Raise("MissingTaskDependency")

AddDependency ==
  /\ InDependencies
  /\ Declaration.name \in Registered
  /\ Existing = {}
  /\ Resolve(Append(resolved[ResolvingTask], Declaration))

\* The latest declaration decides, not the strongest.
BugLatestWins ==
  /\ InDependencies
  /\ Declaration.name \in Registered
  /\ Existing # {}
  /\ Resolve([k \in DOMAIN resolved[ResolvingTask] |->
                IF k \in Existing THEN Declaration ELSE resolved[ResolvingTask][k]])

\* An optional dependency that is also declared required becomes required; a
\* required one stays so.
MergeDependency ==
  /\ InDependencies
  /\ Declaration.name \in Registered
  /\ Existing # {}
  /\ Resolve([k \in DOMAIN resolved[ResolvingTask] |->
                IF k \in Existing /\ ~ Declaration.optional
                THEN Declaration ELSE resolved[ResolvingTask][k]])

\* The loop over the tasks starts again.
BugTasksRestart ==
  /\ InLoop("dependencies", tasks) /\ turn > Len(deps[ResolvingTask])
  /\ at' = 1
  /\ turn' = 1
  /\ UNCHANGED <<build, phase, module, injected, tasks, deps, pending, actions, resolved,
                 before, after, outcome>>

NextTask ==
  /\ InLoop("dependencies", tasks) /\ turn > Len(deps[ResolvingTask])
  /\ at' = at + 1
  /\ turn' = 1
  /\ UNCHANGED <<build, phase, module, injected, tasks, deps, pending, actions, resolved,
                 before, after, outcome>>

BeginAttach ==
  /\ LoopOver("dependencies", tasks)
  /\ Begin("attach")
  /\ UNCHANGED <<build, module, injected, tasks, deps, pending, actions, resolved,
                 before, after, outcome>>

Attaching == actions[at]

\* The turns of the two loops of an action: over execute_before, then over
\* execute_after from its end.
InBefore == InLoop("attach", actions) /\ turn <= Len(Attaching.before)
InAfter == /\ InLoop("attach", actions) /\ turn > Len(Attaching.before)
           /\ turn <= Len(Attaching.before) + Len(Attaching.after)

AfterTurn == Len(Attaching.before) + Len(Attaching.after) + 1 - turn

RejectAction ==
  /\ \/ InBefore /\ Attaching.before[turn] \notin Registered
     \/ InAfter /\ Attaching.after[AfterTurn] \notin Registered
  /\ Raise("MissingActionDependency")

AttachBefore ==
  /\ InBefore
  /\ Attaching.before[turn] \in Registered
  /\ before' = [before EXCEPT ![Attaching.before[turn]] = Append(@, Attaching)]
  /\ turn' = turn + 1
  /\ UNCHANGED <<build, phase, module, at, injected, tasks, deps, pending, actions,
                 resolved, after, outcome>>

AttachAfter ==
  /\ InAfter
  /\ Attaching.after[AfterTurn] \in Registered
  /\ after' = [after EXCEPT ![Attaching.after[AfterTurn]] = Append(@, Attaching)]
  /\ turn' = turn + 1
  /\ UNCHANGED <<build, phase, module, at, injected, tasks, deps, pending, actions,
                 resolved, before, outcome>>

NextAction ==
  /\ InLoop("attach", actions) /\ turn > Len(Attaching.before) + Len(Attaching.after)
  /\ at' = at + 1
  /\ turn' = 1
  /\ UNCHANGED <<build, phase, module, injected, tasks, deps, pending, actions, resolved,
                 before, after, outcome>>

\* _dependencies_resolved = True
Resolved ==
  /\ LoopOver("attach", actions)
  /\ outcome' = "resolved"
  /\ UNCHANGED <<build, phase, module, at, turn, injected, tasks, deps, pending,
                 actions, resolved, before, after>>

Ended == outcome # "registering" /\ UNCHANGED vars

Next ==
  \/ InjectDependency \/ BeginTasks \/ RegisterTask
  \/ BeginActions \/ RegisterAction \/ RegisterLate
  \/ RejectPending \/ FlushPending
  \/ RejectMissing \/ AddDependency \/ MergeDependency \/ NextTask
  \/ BeginAttach \/ RejectAction \/ AttachBefore \/ AttachAfter \/ NextAction
  \/ Resolved
  \/ Ended

Spec == Init /\ [][Next]_vars /\ WF_vars(Next)

----------------------------------------------------------------------------
(* Properties *)

ModuleTasks(m) == {m.tasks[i].name : i \in DOMAIN m.tasks}

DeclaredTasks == UNION {ModuleTasks(build[m]) : m \in DOMAIN build}

\* Module m says that task t depends on task u.
DependsOn(m, t, u, optional) ==
  \E i \in DOMAIN m.tasks :
    m.tasks[i].name = t /\ [name |-> u, optional |-> optional] \in Elements(m.tasks[i].deps)

IsDependent(m, t, u, optional) ==
  [task |-> t, on |-> u, optional |-> optional] \in Elements(m.dependents)

Declares(m, t, u, optional) == DependsOn(m, t, u, optional) \/ IsDependent(m, t, u, optional)

\* Some module of the build does.
Declared(t, u, optional) == \E m \in DOMAIN build : Declares(build[m], t, u, optional)

\* The resolved graph has each declared edge once, and nothing else, whichever
\* of its two ends declared it, in whatever order the modules came; an edge is
\* optional only if every declaration of it is (collect_project_annotations,
\* register_late_task_dependencies and resolve_dependencies together).
ResolvedAsDeclared ==
  outcome = "resolved" =>
    \A t \in Name :
      /\ \A i, j \in DOMAIN resolved[t] : resolved[t][i].name = resolved[t][j].name => i = j
      /\ \A d \in Dependency :
           d \in Elements(resolved[t]) <=>
             /\ Declared(t, d.name, d.optional)
             /\ d.optional => ~ Declared(t, d.name, FALSE)

\* A name that a module mentions and no module declares refuses the build, and
\* nothing else does.
UnknownDependent ==
  \E m \in DOMAIN build : \E i \in DOMAIN build[m].dependents :
    build[m].dependents[i].task \notin DeclaredTasks

UnknownDependency ==
  \E m \in DOMAIN build : \E i \in DOMAIN build[m].tasks :
    \E d \in Elements(build[m].tasks[i].deps) : d.name \notin DeclaredTasks

UnknownInAction ==
  \E m \in DOMAIN build : \E a \in Elements(build[m].actions) :
    ~ (Elements(a.before) \cup Elements(a.after)) \subseteq DeclaredTasks

UnknownRefused ==
  /\ outcome = "NoSuchTask" => UnknownDependent
  /\ outcome = "MissingTaskDependency" => UnknownDependency
  /\ outcome = "MissingActionDependency" => UnknownInAction
  /\ outcome = "resolved" => ~ (UnknownDependent \/ UnknownDependency \/ UnknownInAction)

\* From one module to the next, an edge waits only as long as the task that
\* depends is not registered (register_late_task_dependencies).
WaitsForItsTask ==
  phase \in {"inject", "pending"} =>
    \A n \in Name : pending[n] # <<>> => n \notin Registered

Occurrences(n, s) == {k \in DOMAIN s : s[k] = n}

DeclaredActions == UNION {Elements(build[m].actions) : m \in DOMAIN build}

ActionPositions == UNION {{m} \X DOMAIN build[m].actions : m \in DOMAIN build}

\* How often the actions of the build mention task n.
MentionsBefore(n) ==
  Cardinality(UNION {{p} \X Occurrences(n, build[p[1]].actions[p[2]].before) : p \in ActionPositions})

MentionsAfter(n) ==
  Cardinality(UNION {{p} \X Occurrences(n, build[p[1]].actions[p[2]].after) : p \in ActionPositions})

\* Each mention of a task by a declared action attaches that action once, also
\* when several modules declare actions of one name (register_action).
ActionsAttached ==
  outcome = "resolved" =>
    \A n \in Name :
      /\ Elements(before[n]) = {a \in DeclaredActions : n \in Elements(a.before)}
      /\ Elements(after[n]) = {a \in DeclaredActions : n \in Elements(a.after)}
      /\ Len(before[n]) = MentionsBefore(n)
      /\ Len(after[n]) = MentionsAfter(n)

\* Registration and resolution end, with a graph or with an exception.
ResolutionEnds == <>(outcome # "registering")

=============================================================================
