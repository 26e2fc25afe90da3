--------------------------- MODULE ExecutionPlan ---------------------------
(***************************************************************************)
(* ExecutionManager.build_execution_plan (pybuilder/execution.py): collect *)
(* every task the requested ones lead to, refuse a circular graph, then    *)
(* enqueue depth first, each task after its dependencies.                  *)
(*                                                                         *)
(* _enqueue_task is recursive. Its Python call stack is the variable       *)
(* `stack`: a frame holds the task of the call and the position of its     *)
(* `for dependency in ...` loop, so that a step is one turn of one loop.   *)
(***************************************************************************)
EXTENDS PlanGraph

VARIABLES
  project,    \* resolved dependencies, exclusions and the request
  phase,      \* "collect" or "enqueue"
  next,       \* position of the loop over the requested names
  pending,    \* tasks found and not yet visited by _collect_transitive_tasks
  collected,  \* the `visited` sets of all requested tasks together
  stack,      \* the open calls of _enqueue_task, innermost last
  plan,       \* execution_plan
  outcome     \* "building", "planned", or the exception raised

vars == <<project, phase, next, pending, collected, stack, plan, outcome>>

Frame == [task : Task, at : Nat]

Failures == {"NoSuchTask", "CircularTaskDependency", "RequiredTaskExclusion"}

TypeOK ==
  /\ project \in Projects
  /\ phase \in {"collect", "enqueue"}
  /\ next \in Nat \ {0}
  /\ pending \in SUBSET Task
  /\ collected \in SUBSET Task
  /\ stack \in Seq(Frame)
  /\ plan \in Seq(Task)
  /\ outcome \in {"building", "planned"} \cup Failures

Init ==
  /\ project \in Projects
  /\ phase = "collect"
  /\ next = 1
  /\ pending = {}
  /\ collected = {}
  /\ stack = <<>>
  /\ plan = <<>>
  /\ outcome = "building"

Building(ph) == outcome = "building" /\ phase = ph

\* An operator whose name starts with Bug is an action as a plausible mistake
\* would have it. It is part of no behaviour: it stands in for the action that
\* follows it, to show that a property notices.

Raise(failure) ==
  /\ outcome' = failure
  /\ UNCHANGED <<project, phase, next, pending, collected, stack, plan>>

----------------------------------------------------------------------------
(* collect_all_transitive_tasks, then the cycle check *)

\* The name is not looked up.
BugCollectUnchecked ==
  /\ Building("collect") /\ pending = {}
  /\ next <= Len(project.requested)
  /\ pending' = {project.requested[next]}
  /\ next' = next + 1
  /\ UNCHANGED <<project, phase, collected, stack, plan, outcome>>

\* The next requested name is looked up; its transitive tasks come first.
CollectRequested ==
  /\ Building("collect") /\ pending = {}
  /\ next <= Len(project.requested)
  /\ project.requested[next] \in Task
  /\ pending' = {project.requested[next]}
  /\ next' = next + 1
  /\ UNCHANGED <<project, phase, collected, stack, plan, outcome>>

RejectUnknown ==
  /\ Building("collect") /\ pending = {}
  /\ next <= Len(project.requested)
  /\ project.requested[next] \notin Task
  /\ Raise("NoSuchTask")

\* A task is visited again each time an edge leads to it.
BugCollectAgain(t) ==
  /\ Building("collect") /\ t \in pending
  /\ collected' = collected \cup {t}
  /\ pending' = (pending \ {t}) \cup Successors(project, t)
  /\ UNCHANGED <<project, phase, next, stack, plan, outcome>>

\* Only the dependencies that will be enqueued are followed.
BugCollectKept(t) ==
  /\ Building("collect") /\ t \in pending
  /\ collected' = collected \cup {t}
  /\ pending' = (pending \cup Prerequisites(project, t)) \ collected'
  /\ UNCHANGED <<project, phase, next, stack, plan, outcome>>

\* The order of the visits is that of a depth first walk; only the resulting
\* set is used, so any order will do.
Collect(t) ==
  /\ Building("collect") /\ t \in pending
  /\ collected' = collected \cup {t}
  /\ pending' = (pending \cup Successors(project, t)) \ collected'
  /\ UNCHANGED <<project, phase, next, stack, plan, outcome>>

AllCollected ==
  /\ Building("collect") /\ pending = {}
  /\ next > Len(project.requested)

AcceptAcyclic ==
  /\ AllCollected
  /\ ~ HasCycle(project, collected)
  /\ phase' = "enqueue"
  /\ next' = 1
  /\ UNCHANGED <<project, pending, collected, stack, plan, outcome>>

RejectCircular ==
  /\ AllCollected
  /\ HasCycle(project, collected)
  /\ Raise("CircularTaskDependency")

----------------------------------------------------------------------------
(* _enqueue_task *)

Top == stack[Len(stack)]
Caller == SubSeq(stack, 1, Len(stack) - 1)
TopDeps == project.deps[Top.task]
TopDependency == TopDeps[Top.at]

\* The loop of the innermost call moves on to its next dependency.
Advanced == Append(Caller, [Top EXCEPT !.at = @ + 1])

\* The early return is missing.
BugCallAlways(s, t) == stack' = Append(s, [task |-> t, at |-> 1])

\* A call of _enqueue_task for task t from the calls s: it returns at once if
\* t is in the plan, else its loop over the dependencies of t starts.
CallEnqueue(s, t) ==
  stack' = IF t \in Elements(plan) THEN s ELSE Append(s, [task |-> t, at |-> 1])

EnqueueRequested ==
  /\ Building("enqueue") /\ stack = <<>>
  /\ next <= Len(project.requested)
  /\ CallEnqueue(<<>>, project.requested[next])
  /\ next' = next + 1
  /\ UNCHANGED <<project, phase, pending, collected, plan, outcome>>

InLoop == Building("enqueue") /\ stack # <<>> /\ Top.at <= Len(TopDeps)

OmitDependency ==
  /\ InLoop
  /\ Omitted(project, TopDependency)
  /\ stack' = Advanced
  /\ UNCHANGED <<project, phase, next, pending, collected, plan, outcome>>

RejectExclusion ==
  /\ InLoop
  /\ Forbidden(project, TopDependency)
  /\ Raise("RequiredTaskExclusion")

\* The answer of _should_omit_dependency is not looked at.
BugEnqueueOmitted ==
  /\ InLoop
  /\ CallEnqueue(Advanced, TopDependency.name)
  /\ UNCHANGED <<project, phase, next, pending, collected, plan, outcome>>

EnqueueDependency ==
  /\ InLoop
  /\ Kept(project, TopDependency)
  /\ CallEnqueue(Advanced, TopDependency.name)
  /\ UNCHANGED <<project, phase, next, pending, collected, plan, outcome>>

\* The task is appended before its loop is over.
BugAppendEarly ==
  /\ Building("enqueue") /\ stack # <<>>
  /\ plan' = Append(plan, Top.task)
  /\ stack' = Caller
  /\ UNCHANGED <<project, phase, next, pending, collected, outcome>>

\* The loop is over: the task goes to the end of the plan, the call returns.
AppendTask ==
  /\ Building("enqueue") /\ stack # <<>>
  /\ Top.at > Len(TopDeps)
  /\ plan' = Append(plan, Top.task)
  /\ stack' = Caller
  /\ UNCHANGED <<project, phase, next, pending, collected, outcome>>

ReturnPlan ==
  /\ Building("enqueue") /\ stack = <<>>
  /\ next > Len(project.requested)
  /\ outcome' = "planned"
  /\ UNCHANGED <<project, phase, next, pending, collected, stack, plan>>

\* The caller has its plan, or its exception.
Ended == outcome # "building" /\ UNCHANGED vars

Next ==
  \/ CollectRequested \/ RejectUnknown
  \/ \E t \in Task : Collect(t)
  \/ AcceptAcyclic \/ RejectCircular
  \/ EnqueueRequested
  \/ OmitDependency \/ RejectExclusion \/ EnqueueDependency
  \/ AppendTask
  \/ ReturnPlan
  \/ Ended

\* Plan building is one thread that never waits.
Spec == Init /\ [][Next]_vars /\ WF_vars(Next)

----------------------------------------------------------------------------
(* Properties *)

Order == INSTANCE PlanOrder WITH project <- project, plan <- plan, outcome <- outcome

\* A plan that is returned is right in every respect: it holds the requested
\* tasks and what they need through kept dependencies, nothing else, no task
\* twice, and each task after its prerequisites; and it was only returned
\* because nothing forbade it (build_execution_plan as a whole).
PlanIsRight == outcome = "planned" => RightPlan(project, plan)

\* The open calls of _enqueue_task are for distinct tasks that are not in the
\* plan yet: the check for cycles, made on another set of edges than the one
\* the calls follow, is what bounds the recursion.
NoReentrantCall ==
  /\ \A i, j \in DOMAIN stack : stack[i].task = stack[j].task => i = j
  /\ \A i \in DOMAIN stack : stack[i].task \notin Elements(plan)

\* A build is refused only for a reason that exists, and a circular graph is
\* refused even if only an omitted dependency closes the circle.
RefusalIsJustified ==
  /\ outcome = "NoSuchTask" => ~ Elements(project.requested) \subseteq Task
  /\ outcome = "CircularTaskDependency" => HasCycle(project, Reachable(project))
  /\ outcome = "RequiredTaskExclusion" =>
       \E t \in Wanted(project) : \E d \in Elements(project.deps[t]) : Forbidden(project, d)
  /\ outcome = "planned" => ~ HasCycle(project, Reachable(project))

\* Every step places a wanted task in a right order, completes, refuses for a
\* reason that exists, or is internal to the search.
ImplementsPlanOrder == Order!Spec

\* Building a plan ends: recursion on any graph returns or raises.
PlanBuildingEnds == <>(outcome # "building")

=============================================================================
