----------------------------- MODULE PlanGraph -----------------------------
(***************************************************************************)
(* The data an execution plan is computed from, once                       *)
(* ExecutionManager.resolve_dependencies has run: the resolved             *)
(* dependencies of every registered task, the exclusions given on the      *)
(* command line and the task names the build was asked for.                *)
(*                                                                         *)
(* A project never changes while a plan is built from it, so everything    *)
(* here is a constant-level operator of a project.                         *)
(***************************************************************************)
EXTENDS Naturals, Sequences

CONSTANTS
  Task,       \* names of the registered tasks (ExecutionManager._tasks)
  Name,       \* names a build can ask for; those not in Task are unknown
  Projects    \* the projects considered

\* A TaskDependency: the name of the task depended on, and its flag.
Dependency == [name : Task, optional : BOOLEAN]

\* What resolve_dependencies leaves behind, with the request of one build.
Project ==
  [ deps               : [Task -> Seq(Dependency)],  \* _task_dependencies
    excludeOptional    : SUBSET Task,                \* _exclude_optional_tasks
    exclude            : SUBSET Task,                \* _exclude_tasks
    excludeAllOptional : BOOLEAN,                    \* _exclude_all_optional
    requested          : Seq(Name) ]                 \* task_names

ASSUME PlanGraphAssumption ==
  /\ Task \subseteq Name
  /\ Projects \subseteq Project

Elements(s) == {s[i] : i \in DOMAIN s}

\* The names a task depends on, whatever their flags and the exclusions.
Successors(p, t) == {d.name : d \in Elements(p.deps[t])}

\* _should_omit_dependency returns True.
Omitted(p, d) ==
  \/ d.optional /\ p.excludeAllOptional
  \/ d.optional /\ d.name \in p.excludeOptional
  \/ d.name \in p.exclude /\ (d.optional \/ d.name \notin p.excludeOptional)

\* _should_omit_dependency raises RequiredTaskExclusionException.
Forbidden(p, d) == ~d.optional /\ d.name \in p.excludeOptional

Kept(p, d) == ~Omitted(p, d) /\ ~Forbidden(p, d)

\* The tasks that must run before t runs.
Prerequisites(p, t) == {d.name : d \in {e \in Elements(p.deps[t]) : Kept(p, e)}}

RequestedTasks(p) == Elements(p.requested) \cap Task

\* The tasks a plan must hold: the requested ones, their prerequisites, the
\* prerequisites of those, and so on; nothing that only an omitted dependency
\* leads to. (The least such set: the intersection of all closed ones.)
HoldsPrerequisites(p, S) ==
  RequestedTasks(p) \subseteq S /\ \A t \in S : Prerequisites(p, t) \subseteq S

Wanted(p) ==
  {t \in Task : \A S \in SUBSET Task : HoldsPrerequisites(p, S) => t \in S}

\* The tasks the cycle check looks at: omitted dependencies are followed too.
HoldsSuccessors(p, S) ==
  RequestedTasks(p) \subseteq S /\ \A t \in S : Successors(p, t) \subseteq S

Reachable(p) ==
  {t \in Task : \A S \in SUBSET Task : HoldsSuccessors(p, S) => t \in S}

\* Every task of a nonempty set C depends on a task of C. This holds of some
\* C within S just when the dependencies among S form a cycle, a task that
\* depends on itself included.
HasCycle(p, S) ==
  \E C \in SUBSET S : C # {} /\ \A t \in C : Successors(p, t) \cap C # {}

\* A plan that is right for a project: it holds the wanted tasks and nothing
\* else, none of them twice, each after its prerequisites, and none of them
\* has a dependency that must not be omitted and was excluded.
RightPlan(p, plan) ==
  /\ Elements(plan) = Wanted(p)
  /\ \A i, j \in DOMAIN plan : plan[i] = plan[j] => i = j
  /\ \A i \in DOMAIN plan : \A u \in Prerequisites(p, plan[i]) :
       \E j \in 1..(i - 1) : plan[j] = u
  /\ \A i \in DOMAIN plan : \A d \in Elements(p.deps[plan[i]]) : ~ Forbidden(p, d)

=============================================================================
