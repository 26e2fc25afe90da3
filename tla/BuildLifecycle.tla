--------------------------- MODULE BuildLifecycle ---------------------------
(***************************************************************************)
(* From the command line to the exit code (pybuilder/cli.py, reactor.py,   *)
(* execution.py).                                                          *)
(*                                                                         *)
(* main makes a reactor, prepares the build, with the import of the        *)
(* interpreter replaced in the meantime, and lists tasks, prints the       *)
(* project or builds: initializers, tasks, finalizers. Anything on the way *)
(* may raise. main is also called as a function (pep517.py, setup.py), so  *)
(* that one process may see several runs, which share the import and the   *)
(* current reactor. What happens in the loading of plugins, in the         *)
(* resolution and in the execution of a plan is in modules of their own;   *)
(* here each of them succeeds or raises.                                   *)
(***************************************************************************)
EXTENDS Integers, SequencesExt

CONSTANTS
  Task,           \* names of tasks
  Environment,    \* what -E may activate
  Contributions,  \* the initializers and finalizers modules come with
  Defaults,       \* the values default_task may have, as lists
  Requests,       \* the tasks command lines ask for
  MaxRuns         \* bound: calls of main in one process

Initializer == [environments : SUBSET Environment,
                sets : {"nothing", "always", "if_unset"}]  \* of the property
Finalizer == [environments : SUBSET Environment]
Contribution == [initializers : Seq(Initializer), finalizers : Seq(Finalizer)]

\* A task on the command line: name, +name or ^name.
Argument == [op : {"plain", "append", "remove"}, name : Task]

ASSUME BuildLifecycleAssumption ==
  /\ Contributions \subseteq Contribution
  /\ Defaults \subseteq Seq(Task)
  /\ Requests \subseteq Seq(Argument)
  /\ MaxRuns \in Nat

\* "help" is -h, --help or --version.
Flag == {"help", "start_project", "update_project", "project_info", "list_tasks",
         "list_plan_tasks"}
Raised == {"PyBuilderException", "Exception", "SystemExit", "KeyboardInterrupt"}
Run == 1..MaxRuns

\* An operator whose name starts with Bug is no part of the specification: it is
\* a plausible mistake in the definition that follows it, for the properties to
\* notice.

VARIABLES
  run,           \* the call of main, and its reactor
  outcome,       \* of each run: the exit code, or what main raised
  stage,         \* what the run is going to do
  error,         \* what was raised in it
  flags,         \* the options that select what main does
  overridden,    \* whether -P sets the property that is followed here
  environments,  \* of this run
  requested,     \* the tasks on its command line
  hook,          \* __import__: the reactor whose method it is, 0 for the interpreter's
  saved,         \* _old_import of each reactor
  current,       \* Reactor._current_instance, 0 for none
  projects,      \* the reactors that have a project
  default_task,  \* of the project
  registered,    \* _initializers and _finalizers
  position,      \* in the list that is being executed
  property,      \* who gave the property its value
  tasks,         \* the tasks the build is for
  done           \* the initializers, the plan and the finalizers executed, in order

options == <<flags, overridden, environments>>
process == <<hook, saved, current, projects>>
project == <<default_task, registered, property>>
progress == <<position, requested, tasks, done>>
vars == <<run, outcome, stage, error, options, process, project, progress>>

Mode == IF "help" \in flags THEN "help"
        ELSE IF flags \cap {"start_project", "update_project"} # {} THEN "scaffold"
        ELSE IF "project_info" \in flags THEN "info"
        ELSE IF "list_tasks" \in flags THEN "list"
        ELSE IF "list_plan_tasks" \in flags THEN "plan"
        ELSE "build"

Event == [what : {"initializer", "finalizer"}, at : Nat \ {0}]
         \cup [what : {"tasks"}, at : {0}]

Initialized(i) == [what |-> "initializer", at |-> i]
Finalized(i) == [what |-> "finalizer", at |-> i]
TasksDone == [what |-> "tasks", at |-> 0]

TypeOK ==
  /\ run \in 0..MaxRuns
  /\ outcome \in [Run -> Raised \cup {"none", "success", "failure"}]
  /\ stage \in {"idle", "usage", "reactor", "directory", "venv", "descriptor", "attributes",
                "annotations", "resolve", "initialize", "request", "tasks", "finalize",
                "answer", "raised"}
  /\ error \in Raised \cup {"none"}
  /\ flags \subseteq Flag
  /\ overridden \in BOOLEAN
  /\ environments \subseteq Environment
  /\ requested \in Seq(Argument)
  /\ hook \in 0..MaxRuns
  /\ saved \in [Run -> 0..MaxRuns]
  /\ current \in 0..MaxRuns
  /\ projects \subseteq Run
  /\ default_task \in Seq(Task)
  /\ registered \in Contribution
  /\ position \in Nat
  /\ property \in {"unset", "command_line", "initializer"}
  /\ tasks \in Seq(Task)
  /\ done \in Seq(Event)
  /\ stage # "idle" => run \in Run

Nothing == [initializers |-> <<>>, finalizers |-> <<>>]

Init ==
  /\ run = 0
  /\ outcome = [r \in Run |-> "none"]
  /\ stage = "idle"
  /\ error = "none"
  /\ flags = {}
  /\ overridden = FALSE
  /\ environments = {}
  /\ requested = <<>>
  /\ hook = 0
  /\ saved = [r \in Run |-> 0]
  /\ current = 0
  /\ projects = {}
  /\ default_task = <<>>
  /\ registered = Nothing
  /\ position = 0
  /\ property = "unset"
  /\ tasks = <<>>
  /\ done = <<>>

-----------------------------------------------------------------------------
(* main: the command line and the answer *)

Return(o) == /\ outcome' = [outcome EXCEPT ![run] = o]
             /\ stage' = "idle"

Conflicting(f) ==
  \/ {"list_tasks", "list_plan_tasks"} \subseteq f
  \/ "project_info" \in f /\ f # {"project_info"}
  \/ {"start_project", "update_project"} \subseteq f

\* -P may also be given what is no definition of a property.
Begin ==
  /\ stage = "idle"
  /\ run < MaxRuns
  /\ run' = run + 1
  /\ flags' \in SUBSET Flag
  /\ overridden' \in BOOLEAN
  /\ environments' \in SUBSET Environment
  /\ stage' \in IF "help" \in flags' \/ Conflicting(flags') THEN {"usage"} ELSE {"usage", "reactor"}
  /\ error' = "none"
  /\ default_task' = <<>>
  /\ registered' = Nothing
  /\ property' = "unset"
  /\ position' = 0
  /\ requested' = <<>>
  /\ tasks' = <<>>
  /\ done' = <<>>
  /\ UNCHANGED <<outcome, process>>

UsageError ==
  /\ stage = "usage"
  /\ Return("failure")
  /\ UNCHANGED <<run, error, options, process, project, progress>>

\* optparse prints the help, or the version, and calls sys.exit when it meets the
\* option, which may be after an error in the arguments before it.
ShowHelp ==
  /\ stage = "usage"
  /\ "help" \in flags
  /\ Return("SystemExit")
  /\ UNCHANGED <<run, error, options, process, project, progress>>

\* --start-project and --update-project; only the former can be cancelled.
Scaffold ==
  /\ stage = "reactor"
  /\ Mode = "scaffold"
  /\ \/ Return("success")
     \/ "start_project" \in flags /\ Return("failure")
  /\ UNCHANGED <<run, error, options, process, project, progress>>

BugAlwaysFine ==
  /\ stage = "answer"
  /\ Return("success")
  /\ UNCHANGED <<run, error, options, process, project, progress>>

\* The listing, or the summary, has been printed.
Answer ==
  /\ stage = "answer"
  /\ Return(IF error = "none" THEN "success" ELSE "failure")
  /\ UNCHANGED <<run, error, options, process, project, progress>>

\* No handler of main is around the making of the reactor, and around the
\* answer only that of the listings, for exceptions of PyBuilder.
Escape ==
  /\ stage \in {"reactor", "answer"}
  /\ \E e \in {"Exception", "KeyboardInterrupt"} : Return(e)
  /\ UNCHANGED <<run, error, options, process, project, progress>>

\* Code of the user runs in build.py, plugins, initializers, tasks and
\* finalizers; elsewhere nothing leaves the interpreter. Attributes and
\* properties are only assigned.
MayRaise ==
  [s \in {"directory", "venv", "descriptor", "attributes", "annotations", "resolve",
          "initialize", "request", "tasks", "finalize"} |->
     IF s \in {"descriptor", "initialize", "tasks", "finalize"} THEN Raised
     ELSE IF s = "attributes" THEN {"Exception", "KeyboardInterrupt"}
     ELSE Raised \ {"SystemExit"}]

Raise ==
  /\ stage \in DOMAIN MayRaise
  /\ error' \in MayRaise[stage]
  /\ stage' = "raised"
  /\ UNCHANGED <<run, outcome, options, process, project, progress>>

\* An interrupt becomes the exception "Build aborted".
FailBuild ==
  /\ stage = "raised"
  /\ Mode = "build"
  /\ stage' = "answer"
  /\ UNCHANGED <<run, outcome, error, options, process, project, progress>>

FailListing ==
  /\ stage = "raised"
  /\ Mode # "build"
  /\ Return(IF error = "PyBuilderException" THEN "failure" ELSE error)
  /\ UNCHANGED <<run, error, options, process, project, progress>>

-----------------------------------------------------------------------------
(* prepare_build *)

BugCurrentKept ==
  /\ stage = "reactor"
  /\ Mode # "scaffold"
  /\ current' = IF current = 0 THEN run ELSE current
  /\ stage' = "directory"
  /\ UNCHANGED <<run, outcome, error, options, hook, saved, projects, project, progress>>

PrepareBuild ==
  /\ stage = "reactor"
  /\ Mode # "scaffold"
  /\ current' = run
  /\ stage' = "directory"
  /\ UNCHANGED <<run, outcome, error, options, hook, saved, projects, project, progress>>

\* The directory has a descriptor.
CreateProject ==
  /\ stage = "directory"
  /\ projects' = projects \cup {run}
  /\ stage' = "venv"
  /\ UNCHANGED <<run, outcome, error, options, hook, saved, current, project, progress>>

\* The directory of the plugins has been set up.
PatchImport ==
  /\ stage = "venv"
  /\ saved' = [saved EXCEPT ![run] = hook]
  /\ hook' = run
  /\ stage' = "descriptor"
  /\ UNCHANGED <<run, outcome, error, options, current, projects, project, progress>>

Joined(c, d) == [initializers |-> c.initializers \o d.initializers,
                 finalizers |-> c.finalizers \o d.finalizers]

\* build.py and the plugins are loaded, and the annotations of the plugins
\* collected.
CollectPlugins ==
  /\ stage = "descriptor"
  /\ registered' \in Contributions
  /\ stage' = "attributes"
  /\ UNCHANGED <<run, outcome, error, options, process, default_task, property, progress>>

\* apply_project_attributes and override_properties
ApplyAttributes ==
  /\ stage = "attributes"
  /\ default_task' \in Defaults
  /\ property' = IF overridden THEN "command_line" ELSE property
  /\ stage' = "annotations"
  /\ UNCHANGED <<run, outcome, error, options, process, registered, progress>>

CollectDescriptor ==
  /\ stage = "annotations"
  /\ \E c \in Contributions : registered' = Joined(registered, c)
  /\ stage' = "resolve"
  /\ UNCHANGED <<run, outcome, error, options, process, default_task, property, progress>>

BugImportKept ==
  /\ stage = "resolve"
  /\ stage' = IF Mode = "list" THEN "answer" ELSE "initialize"
  /\ position' = 1
  /\ UNCHANGED <<run, outcome, error, options, process, project, requested, tasks, done>>

\* The dependencies are resolved and the import is put back. All but
\* --list-tasks go on with the initializers.
RestoreImport ==
  /\ stage = "resolve"
  /\ hook' = saved[run]
  /\ stage' = IF Mode = "list" THEN "answer" ELSE "initialize"
  /\ position' = 1
  /\ UNCHANGED <<run, outcome, error, options, saved, current, projects, project,
                 requested, tasks, done>>

-----------------------------------------------------------------------------
(* build, create_execution_plan and print_project_info *)

IsApplicable(action) ==
  \/ action.environments = {}
  \/ action.environments \cap environments # {}

\* set_property and set_property_if_unset
PropertyAfter(i) ==
  CASE i.sets = "always" -> "initializer"
    [] i.sets = "if_unset" /\ property = "unset" -> "initializer"
    [] OTHER -> property

ExecuteInitializer ==
  /\ stage = "initialize"
  /\ position <= Len(registered.initializers)
  /\ LET i == registered.initializers[position] IN
       IF IsApplicable(i)
       THEN /\ property' = PropertyAfter(i)
            /\ done' = Append(done, Initialized(position))
       ELSE UNCHANGED <<property, done>>
  /\ position' = position + 1
  /\ UNCHANGED <<run, outcome, stage, error, options, process, default_task, registered,
                 requested, tasks>>

InitializersExecuted ==
  /\ stage = "initialize"
  /\ position = Len(registered.initializers) + 1
  /\ stage' = IF Mode = "info" THEN "answer" ELSE "request"
  /\ UNCHANGED <<run, outcome, error, options, process, project, progress>>

BugPrefixKept(op, asked) == SelectSeq(asked, LAMBDA a : a.op = op)

\* The names that are given with op, in their order.
Named(op, asked) ==
  LET named[i \in 0..Len(asked)] ==
        IF i = 0 THEN <<>>
        ELSE IF asked[i].op = op THEN Append(named[i - 1], asked[i].name)
        ELSE named[i - 1]
  IN named[Len(asked)]

BugRemoveAll(asked, default) ==
  LET base == IF Named("plain", asked) # <<>> THEN Named("plain", asked) ELSE default
  IN FoldLeft(Remove, base \o Named("append", asked), Named("remove", asked))

\* _prepare_tasks: +name adds to what is asked for, or to the default, and
\* ^name takes one such task away, if there is one.
PreparedTasks(asked, default) ==
  LET base == IF Named("plain", asked) # <<>> THEN Named("plain", asked) ELSE default
      removed == Named("remove", asked)
      left[i \in 0..Len(removed)] ==
        IF i = 0 THEN base \o Named("append", asked)
        ELSE RemoveFirst(left[i - 1], removed[i])
  IN left[Len(removed)]

\* The project is valid and the plan can be built. A request may leave no task.
PrepareTasks ==
  /\ stage = "request"
  /\ \E asked \in Requests :
       /\ asked # <<>> \/ default_task # <<>>
       /\ requested' = asked
       /\ tasks' = PreparedTasks(asked, default_task)
  /\ stage' = IF Mode = "plan" THEN "answer" ELSE "tasks"
  /\ UNCHANGED <<run, outcome, error, options, process, project, position, done>>

\* "No default task given."
NoTasks ==
  /\ stage = "request"
  /\ default_task = <<>>
  /\ error' = "PyBuilderException"
  /\ stage' = "raised"
  /\ UNCHANGED <<run, outcome, options, process, project, progress>>

ExecutePlan ==
  /\ stage = "tasks"
  /\ done' = Append(done, TasksDone)
  /\ position' = Len(registered.finalizers)
  /\ stage' = "finalize"
  /\ UNCHANGED <<run, outcome, error, options, process, project, requested, tasks>>

BugFinalizersForward ==
  /\ stage = "finalize"
  /\ position > 0
  /\ LET at == Len(registered.finalizers) + 1 - position IN
       done' = IF IsApplicable(registered.finalizers[at])
               THEN Append(done, Finalized(at)) ELSE done
  /\ position' = position - 1
  /\ UNCHANGED <<run, outcome, stage, error, options, process, project, requested, tasks>>

\* From the last one registered to the first.
ExecuteFinalizer ==
  /\ stage = "finalize"
  /\ position > 0
  /\ done' = IF IsApplicable(registered.finalizers[position])
             THEN Append(done, Finalized(position)) ELSE done
  /\ position' = position - 1
  /\ UNCHANGED <<run, outcome, stage, error, options, process, project, requested, tasks>>

FinalizersExecuted ==
  /\ stage = "finalize"
  /\ position = 0
  /\ stage' = "answer"
  /\ UNCHANGED <<run, outcome, error, options, process, project, progress>>

-----------------------------------------------------------------------------

Next ==
  \/ Begin \/ UsageError \/ ShowHelp \/ Scaffold \/ PrepareBuild \/ CreateProject \/ PatchImport
  \/ CollectPlugins \/ ApplyAttributes \/ CollectDescriptor \/ RestoreImport
  \/ ExecuteInitializer \/ InitializersExecuted \/ PrepareTasks \/ NoTasks
  \/ ExecutePlan \/ ExecuteFinalizer \/ FinalizersExecuted
  \/ Raise \/ FailBuild \/ FailListing \/ Answer \/ Escape

Spec == Init /\ [][Next]_vars

-----------------------------------------------------------------------------
(* Properties *)

Ended == stage = "idle" /\ run > 0

\* What the current run has to execute, as numbers that say in which order.
Rank(e) ==
  CASE e.what = "initializer" -> e.at
    [] e.what = "tasks" -> Len(registered.initializers) + 1
    [] e.what = "finalizer" ->
         Len(registered.initializers) + Len(registered.finalizers) + 2 - e.at

Due ==
  {Initialized(i) : i \in {j \in DOMAIN registered.initializers :
                             IsApplicable(registered.initializers[j])}}
  \cup {TasksDone}
  \cup {Finalized(i) : i \in {j \in DOMAIN registered.finalizers :
                                IsApplicable(registered.finalizers[j])}}

\* Whatever fails, what a build has executed is due in the environments given,
\* follows the order of registration up to the plan and its reverse after it,
\* happened once, and has no gap: no task runs when an initializer failed, and
\* no finalizer when a task or an earlier finalizer did.
ExecutedInOrder ==
  /\ \A i \in DOMAIN done : done[i] \in Due
  /\ \A i, j \in DOMAIN done : i < j => Rank(done[i]) < Rank(done[j])
  /\ \A i \in DOMAIN done, e \in Due :
       Rank(e) < Rank(done[i]) => \E j \in DOMAIN done : done[j] = e

\* A run that returns 0 has not raised anything and executed all it had to: a
\* build everything that is due, --project-info and --list-plan-tasks only the
\* initializers, and --list-tasks nothing.
ZeroMeansDone ==
  Ended /\ outcome[run] = "success" =>
    /\ error = "none"
    /\ {done[i] : i \in DOMAIN done} =
         CASE Mode = "build" -> Due
           [] Mode \in {"info", "plan"} -> {e \in Due : e.what = "initializer"}
           [] OTHER -> {}

\* A build answers sys.exit anywhere in the code of its user, even sys.exit(0),
\* with an exit code of its own, and no run lets an exception of PyBuilder out.
ExitsContained ==
  Ended => /\ outcome[run] # "PyBuilderException"
           /\ Mode = "build" => outcome[run] # "SystemExit"

\* The import that is in place delegates to older reactors and finally to the
\* interpreter's, and the only reactors on the way are the one that is preparing
\* its build, and those whose run did not succeed.
HookEndsAtInterpreter ==
  \A h \in {hook} \cup {saved[r] : r \in Run} :
    h # 0 => /\ saved[h] < h
             /\ outcome[h] # "success"
             /\ outcome[h] = "none" => h = run /\ stage # "idle"

\* After a run that returned 0 and was to do something with a project, the
\* current reactor is the one of that run and has a project, as build_with_pyb
\* expects.
ReactorIsReady ==
  Ended /\ outcome[run] = "success" /\ Mode # "scaffold" =>
    current = run /\ run \in projects

\* How often x is in s.
Times(s, x) == Cardinality({i \in DOMAIN s : s[i] = x})

\* The plan is built for the tasks asked for, or the default ones, together with
\* those added, less one for every one removed.
TasksAsRequested ==
  LET Plain == \E i \in DOMAIN requested : requested[i].op = "plain"
      Asked(op, t) == Times(requested, [op |-> op, name |-> t])
      Wanted(t) == (IF Plain THEN Asked("plain", t) ELSE Times(default_task, t))
                   + Asked("append", t)
  IN stage = "tasks" =>
       \A t \in Task :
         Times(tasks, t) = IF Wanted(t) > Asked("remove", t)
                           THEN Wanted(t) - Asked("remove", t) ELSE 0

\* An initializer takes away the value that -P gave only if it has been executed
\* and calls set_property, and not by set_property_if_unset.
OverrideLostOnlyToSet ==
  stage \in {"initialize", "request", "tasks"} /\ overridden /\ property # "command_line" =>
    \E i \in DOMAIN registered.initializers :
      /\ Initialized(i) \in {done[j] : j \in DOMAIN done}
      /\ registered.initializers[i].sets = "always"

\* What the help says of -P, "Set/ override a property value": the tasks see it.
OverrideStands == stage = "tasks" /\ overridden => property = "command_line"

=============================================================================
