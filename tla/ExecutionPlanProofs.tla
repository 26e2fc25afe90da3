------------------------ MODULE ExecutionPlanProofs ------------------------
(***************************************************************************)
(* For every set of tasks and every project: build_execution_plan only     *)
(* returns a right plan, only refuses for a reason that exists, never      *)
(* re-enters _enqueue_task for a task already being enqueued, and          *)
(* implements PlanOrder.                                                   *)
(*                                                                         *)
(* The strengthening has two parts. While collecting, what was found is    *)
(* reachable and what was visited has its successors among what was found. *)
(* While enqueueing, the open calls form a path of the dependency graph    *)
(* whose handled dependencies are all in the plan: a second call for a     *)
(* task of the path would close a cycle among collected tasks, which the   *)
(* check made before has excluded.                                         *)
(*                                                                         *)
(* At the end, for finite graphs: HasCycle is what assert_no_cycles_present*)
(* makes of the strongly connected components. A set in which each task    *)
(* has a successor, and which has no smaller one, is such a component's.   *)
(***************************************************************************)
EXTENDS ExecutionPlan, SequenceTheorems, FiniteSetTheorems, WellFoundedInduction, TLAPS

Found == collected \cup pending

CollectInv ==
  /\ Found \subseteq Reachable(project)
  /\ \A t \in collected : Successors(project, t) \subseteq Found
  /\ phase = "collect" =>
       /\ stack = <<>> /\ plan = <<>>
       /\ \A i \in DOMAIN project.requested :
            i < next => project.requested[i] \in Found

CollectedInv ==
  phase = "enqueue" =>
    /\ pending = {}
    /\ Elements(project.requested) \subseteq collected
    /\ ~ HasCycle(project, collected)

\* A dependency the loop of an open call has passed.
Handled(d) == ~ Forbidden(project, d) /\ (Kept(project, d) => d.name \in Elements(plan))

\* The open calls: a call's loop has handled the dependencies before its
\* position, but for the one whose call comes next on the stack.
FrameInv(i) ==
  LET f == stack[i]
      deps == project.deps[f.task]
  IN  /\ f.task \in collected \cap Wanted(project)
      /\ f.task \notin Elements(plan)
      /\ f.at \in 1..(Len(deps) + 1)
      /\ i = Len(stack) => \A k \in 1..(f.at - 1) : Handled(deps[k])
      /\ i < Len(stack) =>
           /\ f.at > 1
           /\ Kept(project, deps[f.at - 1])
           /\ deps[f.at - 1].name = stack[i + 1].task
           /\ \A k \in 1..(f.at - 2) : Handled(deps[k])

StackInv == \A i \in DOMAIN stack : FrameInv(i)

StackDistinct == \A i, j \in DOMAIN stack : stack[i].task = stack[j].task => i = j

PlanInv ==
  \A i \in DOMAIN plan :
    /\ plan[i] \in Wanted(project)
    /\ \A j \in DOMAIN plan : plan[i] = plan[j] => i = j
    /\ \A u \in Prerequisites(project, plan[i]) : \E j \in 1..(i - 1) : plan[j] = u
    /\ \A d \in Elements(project.deps[plan[i]]) : ~ Forbidden(project, d)

RequestInv ==
  phase = "enqueue" =>
    \A i \in DOMAIN project.requested : i < next =>
      \/ project.requested[i] \in Elements(plan)
      \/ stack # <<>> /\ project.requested[i] = stack[1].task

OutcomeInv ==
  /\ outcome = "planned" =>
       phase = "enqueue" /\ stack = <<>> /\ next > Len(project.requested)
  /\ outcome = "NoSuchTask" => ~ Elements(project.requested) \subseteq Task
  /\ outcome = "CircularTaskDependency" => HasCycle(project, Reachable(project))
  /\ outcome = "RequiredTaskExclusion" =>
       \E t \in Wanted(project) : \E d \in Elements(project.deps[t]) : Forbidden(project, d)

IInv ==
  /\ TypeOK
  /\ CollectInv
  /\ CollectedInv
  /\ StackInv
  /\ StackDistinct
  /\ PlanInv
  /\ RequestInv
  /\ OutcomeInv

(* Lemmas about projects and graphs *)

LEMMA ProjectType ==
  ASSUME NEW p \in Projects
  PROVE  /\ p.deps \in [Task -> Seq(Dependency)]
         /\ p.requested \in Seq(Name)
         /\ \A t \in Task : Successors(p, t) \subseteq Task
         /\ \A t \in Task : Prerequisites(p, t) \subseteq Task
<1>1. p \in Project
  BY PlanGraphAssumption
<1>2. p.deps \in [Task -> Seq(Dependency)] /\ p.requested \in Seq(Name)
  BY <1>1 DEF Project
<1>3. \A t \in Task : p.deps[t] \in Seq(Dependency)
  BY <1>2
<1>4. \A t \in Task : \A d \in Elements(p.deps[t]) : d \in Dependency
  BY <1>3 DEF Elements
<1>5. \A d \in Dependency : d.name \in Task
  BY DEF Dependency
<1>6. \A t \in Task : \A d \in Elements(p.deps[t]) : d.name \in Task
  BY <1>4, <1>5
<1> QED
  BY <1>2, <1>6 DEF Successors, Prerequisites

\* Reachable(p) and Wanted(p) are closed and lie within every closed set.
LEMMA ReachableClosed ==
  ASSUME NEW p \in Projects, NEW t \in Reachable(p)
  PROVE  Successors(p, t) \subseteq Reachable(p)
BY ProjectType DEF Reachable, HoldsSuccessors

LEMMA RequestedReachable ==
  ASSUME NEW p \in Projects
  PROVE  RequestedTasks(p) \subseteq Reachable(p) /\ RequestedTasks(p) \subseteq Wanted(p)
BY DEF Reachable, Wanted, HoldsSuccessors, HoldsPrerequisites, RequestedTasks

LEMMA ReachableLeast ==
  ASSUME NEW p \in Projects, NEW S \in SUBSET Task,
         RequestedTasks(p) \subseteq S,
         \A t \in S : Successors(p, t) \subseteq S
  PROVE  Reachable(p) \subseteq S
BY DEF Reachable, HoldsSuccessors

LEMMA WantedClosed ==
  ASSUME NEW p \in Projects, NEW t \in Wanted(p)
  PROVE  Prerequisites(p, t) \subseteq Wanted(p)
BY ProjectType DEF Wanted, HoldsPrerequisites

LEMMA WantedLeast ==
  ASSUME NEW p \in Projects, NEW S \in SUBSET Task,
         RequestedTasks(p) \subseteq S,
         \A t \in S : Prerequisites(p, t) \subseteq S
  PROVE  Wanted(p) \subseteq S
BY DEF Wanted, HoldsPrerequisites

\* A larger set of tasks has the cycles of a smaller one.
LEMMA HasCycleMonotone ==
  ASSUME NEW p, NEW S, NEW T, S \subseteq T, HasCycle(p, S)
  PROVE  HasCycle(p, T)
BY DEF HasCycle

----------------------------------------------------------------------------
(* Lemmas about the stack *)

LEMMA FrameFields ==
  ASSUME NEW s \in Seq(Frame), NEW i \in DOMAIN s
  PROVE  s[i] \in Frame /\ s[i].task \in Task /\ s[i].at \in Nat
<1>1. s[i] \in Frame
  OBVIOUS
<1> QED
  BY <1>1 DEF Frame

\* Popping the innermost call.
LEMMA CallerFacts ==
  ASSUME stack \in Seq(Frame), stack # <<>>
  PROVE  /\ Len(stack) \in Nat \ {0}
         /\ DOMAIN stack = 1..Len(stack)
         /\ Top \in Frame
         /\ Caller \in Seq(Frame)
         /\ Len(Caller) = Len(stack) - 1
         /\ \A i \in 1..(Len(stack) - 1) : Caller[i] = stack[i]
<1>1. Len(stack) \in Nat \ {0} /\ DOMAIN stack = 1..Len(stack)
  BY EmptySeq, LenProperties
<1>2. \A i \in 1..Len(stack) : stack[i] \in Frame
  BY ElementOfSeq
<1>3. /\ Caller \in Seq(Frame)
      /\ Len(Caller) = Len(stack) - 1
      /\ \A i \in 1..(Len(stack) - 1) : Caller[i] = stack[i]
  BY <1>1, <1>2, SubSeqProperties DEF Caller
<1> QED
  BY <1>1, <1>2, <1>3 DEF Top

\* Moving the innermost call's loop on.
LEMMA AdvancedFacts ==
  ASSUME stack \in Seq(Frame), stack # <<>>
  PROVE  /\ Advanced \in Seq(Frame)
         /\ Len(Advanced) = Len(stack)
         /\ \A i \in 1..(Len(stack) - 1) : Advanced[i] = stack[i]
         /\ Advanced[Len(stack)].task = Top.task
         /\ Advanced[Len(stack)].at = Top.at + 1
<1>1. [Top EXCEPT !.at = @ + 1] \in Frame
  BY CallerFacts DEF Frame
<1>2. /\ [Top EXCEPT !.at = @ + 1].task = Top.task
      /\ [Top EXCEPT !.at = @ + 1].at = Top.at + 1
  BY CallerFacts DEF Frame
<1>3. /\ Advanced \in Seq(Frame)
      /\ Len(Advanced) = Len(Caller) + 1
      /\ \A i \in 1..Len(Caller) : Advanced[i] = Caller[i]
      /\ Advanced[Len(Caller) + 1] = [Top EXCEPT !.at = @ + 1]
  BY <1>1, CallerFacts, AppendProperties DEF Advanced
<1>4. /\ Len(stack) \in Nat \ {0}
      /\ Len(Caller) = Len(stack) - 1
      /\ \A i \in 1..(Len(stack) - 1) : Caller[i] = stack[i]
  BY CallerFacts
<1>5. Len(Caller) + 1 = Len(stack)
  BY <1>4
<1> QED
  BY <1>2, <1>3, <1>4, <1>5

\* Opening a call for task t on top of the calls s.
LEMMA PushFacts ==
  ASSUME NEW s \in Seq(Frame), NEW t \in Task
  PROVE  LET r == Append(s, [task |-> t, at |-> 1])
         IN  /\ r \in Seq(Frame)
             /\ Len(r) = Len(s) + 1
             /\ \A i \in 1..Len(s) : r[i] = s[i]
             /\ r[Len(s) + 1].task = t
             /\ r[Len(s) + 1].at = 1
<1>1. [task |-> t, at |-> 1] \in Frame
  BY DEF Frame
<1> QED
  BY <1>1

LEMMA AppendElements ==
  ASSUME NEW s \in Seq(Task), NEW t \in Task
  PROVE  /\ Elements(Append(s, t)) = Elements(s) \cup {t}
         /\ Len(Append(s, t)) = Len(s) + 1
         /\ \A i \in 1..Len(s) : Append(s, t)[i] = s[i]
         /\ Append(s, t)[Len(s) + 1] = t
<1>1. /\ Len(Append(s, t)) = Len(s) + 1
      /\ DOMAIN Append(s, t) = 1..(Len(s) + 1)
      /\ \A i \in 1..Len(s) : Append(s, t)[i] = s[i]
      /\ Append(s, t)[Len(s) + 1] = t
  OBVIOUS
<1>2. DOMAIN s = 1..Len(s) /\ Len(s) \in Nat
  OBVIOUS
<1> QED
  BY <1>1, <1>2 DEF Elements

----------------------------------------------------------------------------
(* The initial states *)

LEMMA InitIInv == Init => IInv
<1> SUFFICES ASSUME Init PROVE IInv
  OBVIOUS
<1> USE DEF Init
<1>1. TypeOK
  BY DEF TypeOK
<1>2. CollectInv
  <2>1. project.requested \in Seq(Name)
    BY ProjectType
  <2>2. DOMAIN project.requested = 1..Len(project.requested)
    BY <2>1
  <2> QED
    BY <2>2 DEF CollectInv, Found
<1>3. StackInv /\ StackDistinct /\ PlanInv
  BY DEF StackInv, StackDistinct, PlanInv
<1> QED
  BY <1>1, <1>2, <1>3 DEF IInv, CollectedInv, RequestInv, OutcomeInv

----------------------------------------------------------------------------
(* The collecting steps *)

LEMMA CollectRequestedStep ==
  ASSUME IInv, CollectRequested
  PROVE  IInv'
<1> USE DEF CollectRequested, Building, IInv
<1>0. /\ DOMAIN project.requested = 1..Len(project.requested)
      /\ Len(project.requested) \in Nat
      /\ next \in 1..Len(project.requested)
  BY ProjectType, LenProperties DEF TypeOK
<1>1. TypeOK'
  BY DEF TypeOK
<1>2. CollectInv'
  <2>1. project.requested[next] \in RequestedTasks(project)
    BY <1>0 DEF RequestedTasks, Elements
  <2>2. project.requested[next] \in Reachable(project)
    BY <2>1, RequestedReachable DEF TypeOK
  <2>3. Found' = Found \cup {project.requested[next]}
    BY DEF Found
  <2> QED
    BY <1>0, <2>2, <2>3 DEF CollectInv, TypeOK
<1>3. StackInv' /\ StackDistinct' /\ PlanInv'
  BY DEF StackInv, StackDistinct, PlanInv, CollectInv
<1> QED
  BY <1>1, <1>2, <1>3 DEF CollectedInv, RequestInv, OutcomeInv

LEMMA CollectStep ==
  ASSUME IInv, NEW t \in Task, Collect(t)
  PROVE  IInv'
<1> USE DEF Collect, Building, IInv
<1>1. Successors(project, t) \subseteq Task \cap Reachable(project)
  BY ProjectType, ReachableClosed DEF TypeOK, CollectInv, Found, Reachable
<1>2. TypeOK'
  BY <1>1 DEF TypeOK
<1>3. CollectInv'
  <2>1. Found' = Found \cup Successors(project, t)
    BY DEF Found
  <2> QED
    BY <1>1, <2>1 DEF CollectInv
<1>4. StackInv' /\ StackDistinct' /\ PlanInv'
  BY DEF StackInv, StackDistinct, PlanInv, CollectInv
<1> QED
  BY <1>2, <1>3, <1>4 DEF CollectedInv, RequestInv, OutcomeInv

\* Once nothing is pending, the collected tasks are the reachable ones.
LEMMA CollectedIsReachable ==
  ASSUME IInv, pending = {}, Elements(project.requested) \cap Task \subseteq collected
  PROVE  collected = Reachable(project)
<1>1. collected \subseteq Reachable(project)
  BY DEF IInv, CollectInv, Found
<1>2. \A t \in collected : Successors(project, t) \subseteq collected
  BY DEF IInv, CollectInv, Found
<1> QED
  BY <1>1, <1>2, ReachableLeast DEF IInv, TypeOK, RequestedTasks

\* When the loop over the requested names is over, all of them are collected.
LEMMA AllRequestedCollected ==
  ASSUME IInv, AllCollected
  PROVE  Elements(project.requested) \subseteq collected
<1>1. /\ DOMAIN project.requested = 1..Len(project.requested)
      /\ Len(project.requested) \in Nat
      /\ next \in Nat
  BY ProjectType, LenProperties DEF IInv, TypeOK
<1>2. \A i \in DOMAIN project.requested : i < next
  BY <1>1 DEF AllCollected
<1> QED
  BY <1>2 DEF AllCollected, Building, IInv, CollectInv, Found, Elements

LEMMA AcceptAcyclicStep ==
  ASSUME IInv, AcceptAcyclic
  PROVE  IInv'
<1> USE DEF AcceptAcyclic, AllCollected, Building, IInv
<1>1. TypeOK'
  BY DEF TypeOK
<1>2. CollectInv'
  BY DEF CollectInv, Found
<1>3. CollectedInv'
  BY AllRequestedCollected DEF CollectedInv
<1>4. StackInv' /\ StackDistinct' /\ PlanInv'
  BY DEF StackInv, StackDistinct, PlanInv, CollectInv
<1>5. RequestInv'
  BY ProjectType, LenProperties DEF RequestInv, TypeOK
<1> QED
  BY <1>1, <1>2, <1>3, <1>4, <1>5 DEF OutcomeInv

----------------------------------------------------------------------------
(* The refusing steps *)

LEMMA RaiseStep ==
  ASSUME IInv, NEW failure \in Failures, Raise(failure),
         failure = "NoSuchTask" => ~ Elements(project.requested) \subseteq Task,
         failure = "CircularTaskDependency" => HasCycle(project, Reachable(project)),
         failure = "RequiredTaskExclusion" =>
           \E t \in Wanted(project) : \E d \in Elements(project.deps[t]) : Forbidden(project, d)
  PROVE  IInv'
<1> USE DEF Raise, IInv
<1>1. TypeOK' /\ CollectInv' /\ CollectedInv' /\ RequestInv'
  BY DEF TypeOK, CollectInv, Found, CollectedInv, RequestInv
<1>2. StackInv' /\ StackDistinct' /\ PlanInv'
  BY DEF StackInv, StackDistinct, PlanInv, FrameInv, Handled
<1>3. OutcomeInv'
  BY DEF OutcomeInv, Failures
<1> QED
  BY <1>1, <1>2, <1>3

LEMMA RejectUnknownStep ==
  ASSUME IInv, RejectUnknown
  PROVE  IInv'
<1>1. next \in DOMAIN project.requested
  BY ProjectType, LenProperties DEF RejectUnknown, IInv, TypeOK
<1>2. ~ Elements(project.requested) \subseteq Task
  BY <1>1 DEF RejectUnknown, Elements
<1> QED
  BY <1>2, RaiseStep DEF RejectUnknown, Failures

LEMMA RejectCircularStep ==
  ASSUME IInv, RejectCircular
  PROVE  IInv'
<1>1. collected \subseteq Reachable(project)
  BY DEF IInv, CollectInv, Found
<1>2. HasCycle(project, Reachable(project))
  BY <1>1, HasCycleMonotone DEF RejectCircular
<1> QED
  BY <1>2, RaiseStep DEF RejectCircular, Failures

\* The dependency the innermost call looks at.
LEMMA TopFacts ==
  ASSUME IInv, InLoop
  PROVE  /\ stack \in Seq(Frame) /\ stack # <<>>
         /\ Len(stack) \in DOMAIN stack
         /\ Top.task \in collected \cap Wanted(project) \cap Task
         /\ Top.at \in Nat \ {0}
         /\ Top.at \in DOMAIN TopDeps
         /\ DOMAIN TopDeps = 1..Len(TopDeps)
         /\ TopDependency \in Elements(TopDeps)
         /\ TopDependency.name \in Successors(project, Top.task)
         /\ TopDependency.name \in Task
<1>1. stack \in Seq(Frame) /\ stack # <<>>
  BY DEF InLoop, IInv, TypeOK
<1>2. Len(stack) \in DOMAIN stack /\ Top \in Frame
  BY <1>1, CallerFacts
<1>3. FrameInv(Len(stack))
  BY <1>2 DEF IInv, StackInv
<1>4. Top.task \in collected \cap Wanted(project) \cap Task
  BY <1>2, <1>3 DEF FrameInv, Top, Frame
<1>5. TopDeps \in Seq(Dependency)
  BY <1>4, ProjectType DEF TopDeps, IInv, TypeOK
<1>6. Len(TopDeps) \in Nat /\ DOMAIN TopDeps = 1..Len(TopDeps)
  BY <1>5, LenProperties
<1>7. Top.at \in Nat \ {0}
  BY <1>3, <1>6 DEF FrameInv, Top, TopDeps
<1>8. Top.at \in DOMAIN TopDeps
  BY <1>6, <1>7 DEF InLoop
<1>9. TopDependency \in Elements(TopDeps)
  BY <1>8 DEF TopDependency, Elements
<1>10. TopDependency.name \in Successors(project, Top.task)
  BY <1>9 DEF Successors, TopDeps
<1> QED
  BY <1>1, <1>2, <1>4, <1>6, <1>7, <1>8, <1>9, <1>10, ProjectType DEF IInv, TypeOK

LEMMA RejectExclusionStep ==
  ASSUME IInv, RejectExclusion
  PROVE  IInv'
<1>1. Top.task \in Wanted(project) /\ TopDependency \in Elements(project.deps[Top.task])
  BY TopFacts DEF RejectExclusion, TopDeps
<1> QED
  BY <1>1, RaiseStep DEF RejectExclusion, Failures

----------------------------------------------------------------------------
(* The enqueueing steps *)

\* The invariant of a call below the top survives when its frame and its
\* callee stay, whatever enters the plan meanwhile but its own task.
LEMMA FrameKept ==
  ASSUME NEW i, FrameInv(i), i < Len(stack), i # Len(stack'),
         stack'[i] = stack[i], stack'[i + 1].task = stack[i + 1].task,
         project' = project, collected' = collected,
         Elements(plan) \subseteq Elements(plan'),
         stack[i].task \notin Elements(plan')
  PROVE  FrameInv(i)'
<1>1. PICK f, deps : f = stack[i] /\ deps = project.deps[f.task]
  OBVIOUS
<1>2. /\ f.task \in collected \cap Wanted(project)
      /\ f.at \in 1..(Len(deps) + 1)
      /\ f.at > 1
      /\ Kept(project, deps[f.at - 1])
      /\ deps[f.at - 1].name = stack[i + 1].task
      /\ \A k \in 1..(f.at - 2) : Handled(deps[k])
  BY <1>1 DEF FrameInv
<1>3. \A k \in 1..(f.at - 2) : Handled(deps[k])'
  BY <1>2 DEF Handled
<1>4. stack'[i] = f /\ project'.deps[f.task] = deps
  BY <1>1
<1> QED
  BY <1>1, <1>2, <1>3, <1>4 DEF FrameInv

\* Moving on past a dependency that has been dealt with.
LEMMA AdvanceStack ==
  ASSUME IInv, InLoop, Handled(TopDependency), stack' = Advanced,
         UNCHANGED <<project, collected, plan>>
  PROVE  StackInv' /\ StackDistinct'
<1>0. PICK n : n = Len(stack)
  OBVIOUS
<1>1. /\ stack \in Seq(Frame) /\ stack # <<>>
      /\ n = Len(stack)
      /\ n \in Nat \ {0}
      /\ DOMAIN stack = 1..n
      /\ DOMAIN stack' = 1..n /\ Len(stack') = n
      /\ \A i \in 1..(n - 1) : stack'[i] = stack[i]
      /\ stack'[n].task = Top.task
      /\ stack'[n].at = Top.at + 1
  BY <1>0, TopFacts, CallerFacts, AdvancedFacts, LenProperties
<1>2. \A i \in 1..n : stack'[i].task = stack[i].task
  BY <1>1 DEF Top
<1>3. StackDistinct'
  BY <1>1, <1>2 DEF IInv, StackDistinct
<1>4. ASSUME NEW i \in 1..(n - 1)
      PROVE  FrameInv(i)'
  <2>1. i \in DOMAIN stack /\ i < Len(stack) /\ i # Len(stack')
    BY <1>1
  <2>2. FrameInv(i)
    BY <2>1 DEF IInv, StackInv
  <2>3. stack'[i] = stack[i] /\ stack'[i + 1].task = stack[i + 1].task
    BY <1>1, <1>2
  <2>4. stack[i].task \notin Elements(plan')
    BY <2>2 DEF FrameInv
  <2> QED
    BY <2>1, <2>2, <2>3, <2>4, FrameKept
<1>5. FrameInv(n)'
  <2>1. FrameInv(n)
    BY <1>1 DEF IInv, StackInv
  <2>2. \A k \in 1..(Top.at - 1) : Handled(TopDeps[k])
    BY <1>1, <2>1 DEF FrameInv, Top, TopDeps
  <2>3. \A k \in 1..Top.at : Handled(TopDeps[k])
    BY <2>2, TopFacts DEF TopDependency
  <2>4. Top.at + 1 \in 1..(Len(TopDeps) + 1)
    BY TopFacts DEF InLoop
  <2>5. /\ stack'[n].task = Top.task /\ stack'[n].at = Top.at + 1
        /\ project'.deps[stack'[n].task] = TopDeps
        /\ (Top.at + 1) - 1 = Top.at
    BY <1>1, TopFacts DEF TopDeps
  <2>6. Top.task \in collected \cap Wanted(project) /\ Top.task \notin Elements(plan)
    BY <1>1, <2>1 DEF FrameInv, Top
  <2> QED
    BY <1>1, <2>3, <2>4, <2>5, <2>6 DEF FrameInv, Handled
<1>6. StackInv'
  BY <1>1, <1>4, <1>5 DEF StackInv
<1> QED
  BY <1>3, <1>6

\* The open calls are a path of the dependency graph.
LEMMA CallEdge ==
  ASSUME IInv, NEW i \in DOMAIN stack, i < Len(stack)
  PROVE  stack[i + 1].task \in Successors(project, stack[i].task)
<1>1. FrameInv(i)
  BY DEF IInv, StackInv
<1>2. PICK f, deps : f = stack[i] /\ deps = project.deps[f.task]
  OBVIOUS
<1>3. f.task \in Task
  BY <1>1, <1>2 DEF FrameInv, IInv, TypeOK
<1>4. deps \in Seq(Dependency)
  BY <1>2, <1>3, ProjectType DEF IInv, TypeOK
<1>5. Len(deps) \in Nat /\ DOMAIN deps = 1..Len(deps)
  BY <1>4, LenProperties
<1>6. f.at \in 1..(Len(deps) + 1) /\ f.at > 1 /\ deps[f.at - 1].name = stack[i + 1].task
  BY <1>1, <1>2 DEF FrameInv
<1>7. f.at - 1 \in DOMAIN deps
  BY <1>5, <1>6
<1>8. deps[f.at - 1] \in Elements(deps)
  BY <1>7 DEF Elements
<1> QED
  BY <1>2, <1>6, <1>8 DEF Successors

\* Opening a call for a kept dependency. That the callee is not being
\* enqueued already is where the check for cycles is needed.
LEMMA PushStack ==
  ASSUME IInv, InLoop, Kept(project, TopDependency),
         TopDependency.name \notin Elements(plan),
         stack' = Append(Advanced, [task |-> TopDependency.name, at |-> 1]),
         UNCHANGED <<project, collected, plan>>
  PROVE  StackInv' /\ StackDistinct'
<1>0. PICK n, u, ds, at :
        n = Len(stack) /\ u = TopDependency.name /\ ds = TopDeps /\ at = Top.at
  OBVIOUS
<1>1. /\ n = Len(stack) /\ u = TopDependency.name
      /\ stack \in Seq(Frame) /\ stack # <<>>
      /\ n \in Nat \ {0}
      /\ DOMAIN stack = 1..n
      /\ Advanced \in Seq(Frame) /\ Len(Advanced) = n
      /\ \A i \in 1..(n - 1) : Advanced[i] = stack[i]
      /\ Advanced[n].task = Top.task
      /\ Advanced[n].at = Top.at + 1
  BY <1>0, TopFacts, CallerFacts, AdvancedFacts
<1>2. /\ stack' \in Seq(Frame)
      /\ Len(stack') = n + 1
      /\ \A i \in 1..n : stack'[i] = Advanced[i]
      /\ stack'[n + 1].task = u
      /\ stack'[n + 1].at = 1
  BY <1>1, TopFacts, PushFacts
<1>3. DOMAIN stack' = 1..(n + 1)
  BY <1>2, LenProperties
<1>4. /\ \A i \in 1..n : stack'[i].task = stack[i].task
      /\ \A i \in 1..(n - 1) : stack'[i] = stack[i]
      /\ stack'[n].task = Top.task
      /\ stack'[n].at = Top.at + 1
  <2>1. n \in Nat \ {0}
    BY <1>1
  <2>2. ASSUME NEW i \in 1..(n - 1) PROVE stack'[i] = stack[i]
    <3>1. i \in 1..n
      BY <2>1
    <3>2. stack'[i] = Advanced[i]
      BY <1>2, <3>1
    <3>3. Advanced[i] = stack[i]
      BY <1>1
    <3> QED
      BY <3>2, <3>3
  <2>3. stack'[n] = Advanced[n]
    BY <1>2, <2>1
  <2>4. stack'[n].task = Top.task /\ stack'[n].at = Top.at + 1
    BY <1>1, <2>3
  <2>5. Top = stack[n]
    BY <1>1 DEF Top
  <2>6. ASSUME NEW i \in 1..n PROVE stack'[i].task = stack[i].task
    <3>1. CASE i = n
      BY <2>4, <2>5, <3>1
    <3>2. CASE i # n
      <4>1. i \in 1..(n - 1)
        BY <2>1, <3>2
      <4> QED
        BY <2>2, <4>1
    <3> QED
      BY <3>1, <3>2
  <2> QED
    BY <2>2, <2>4, <2>6
<1>5. \A i \in 1..n : stack[i].task # u
  <2> SUFFICES ASSUME NEW k \in 1..n, stack[k].task = u
               PROVE  FALSE
    OBVIOUS
  <2> DEFINE C == {stack[i].task : i \in k..n}
  <2>0. \A i \in k..n : i \in DOMAIN stack
    BY <1>1
  <2>1. C \subseteq collected
    BY <2>0 DEF IInv, StackInv, FrameInv
  <2>2. u \in C
    BY <1>1
  <2>3. ASSUME NEW i \in k..n
        PROVE  Successors(project, stack[i].task) \cap C # {}
    <3>1. CASE i = n
      BY <1>0, <1>1, <3>1, <2>2, TopFacts DEF Top
    <3>2. CASE i < n
      <4>1. stack[i + 1].task \in Successors(project, stack[i].task)
        BY <1>1, <2>0, <3>2, CallEdge
      <4>2. i + 1 \in k..n
        BY <1>1, <3>2
      <4>3. stack[i + 1].task \in C
        BY <4>2
      <4> QED
        BY <4>1, <4>3
    <3> QED
      BY <1>1, <3>1, <3>2
  <2>4. C \in SUBSET collected /\ C # {} /\ \A t \in C : Successors(project, t) \cap C # {}
    BY <2>1, <2>2, <2>3
  <2> HIDE DEF C
  <2>5. HasCycle(project, collected)
    BY <2>4 DEF HasCycle
  <2> QED
    BY <2>5 DEF IInv, CollectedInv, InLoop, Building
<1>6. StackDistinct'
  BY <1>1, <1>2, <1>3, <1>4, <1>5 DEF IInv, StackDistinct
<1>7. ASSUME NEW i \in 1..(n - 1)
      PROVE  FrameInv(i)'
  <2>1. i \in DOMAIN stack /\ i < Len(stack) /\ i # Len(stack')
    BY <1>1, <1>2
  <2>2. FrameInv(i)
    BY <2>1 DEF IInv, StackInv
  <2>3. stack'[i] = stack[i] /\ stack'[i + 1].task = stack[i + 1].task
    BY <1>1, <1>4
  <2>4. stack[i].task \notin Elements(plan')
    BY <2>2 DEF FrameInv
  <2> QED
    BY <2>1, <2>2, <2>3, <2>4, FrameKept
<1>8. FrameInv(n)'
  <2>1. FrameInv(n)
    BY <1>1 DEF IInv, StackInv
  <2>2. /\ stack[n] = Top /\ stack[n].task = Top.task
        /\ project.deps[Top.task] = ds
        /\ ds[at].name = u
        /\ Kept(project, ds[at])
    BY <1>0, <1>1 DEF Top, TopDeps, TopDependency
  <2>3. \A k \in 1..(at - 1) : Handled(ds[k])
    BY <1>0, <1>1, <2>1, <2>2 DEF FrameInv
  <2>4. \A k \in 1..(at - 1) : Handled(ds[k])'
    BY <2>3 DEF Handled
  <2>5. at \in Nat \ {0} /\ at + 1 \in 1..(Len(ds) + 1)
    BY <1>0, TopFacts DEF InLoop
  <2>6. at + 1 > 1 /\ at + 1 - 1 = at /\ at + 1 - 2 = at - 1
    BY <2>5
  <2>7. stack'[n].task = Top.task /\ stack'[n].at = at + 1
    BY <1>0, <1>1, <1>4
  <2>8. Top.task \in collected \cap Wanted(project) /\ Top.task \notin Elements(plan)
    BY <2>1, <2>2 DEF FrameInv
  <2>9. n # Len(stack') /\ stack'[n + 1].task = u
    BY <1>1, <1>2
  <2>10. PICK f : f = stack'[n]
    OBVIOUS
  <2>11. /\ f.task \in collected' \cap Wanted(project') /\ f.task \notin Elements(plan')
         /\ project'.deps[f.task] = ds
         /\ f.at = at + 1
    BY <2>2, <2>7, <2>8, <2>10
  <2>12. Kept(project', ds[f.at - 1]) /\ ds[f.at - 1].name = stack'[n + 1].task
    <3>1. f.at - 1 = at
      BY <2>5, <2>11
    <3> QED
      BY <2>2, <2>9, <3>1
  <2>13. \A k \in 1..(f.at - 2) : Handled(ds[k])'
    BY <2>4, <2>5, <2>6, <2>11
  <2>14. f.at \in 1..(Len(ds) + 1) /\ f.at > 1
    BY <2>5, <2>6, <2>11
  <2> QED
    BY <2>9, <2>10, <2>11, <2>12, <2>13, <2>14 DEF FrameInv
<1>9. FrameInv(n + 1)'
  <2>1. u \in Task /\ project.deps[u] \in Seq(Dependency)
    BY <1>1, TopFacts, ProjectType DEF IInv, TypeOK
  <2>2. Len(project.deps[u]) \in Nat
    BY <2>1, LenProperties
  <2>3. u \in Prerequisites(project, Top.task)
    BY <1>1, TopFacts DEF Prerequisites, TopDeps
  <2>4. u \in Wanted(project)
    BY <2>3, TopFacts, WantedClosed DEF IInv, TypeOK
  <2>5. u \in collected
    BY <1>1, TopFacts DEF IInv, CollectInv, CollectedInv, Found, InLoop, Building
  <2> QED
    BY <1>1, <1>2, <2>2, <2>4, <2>5 DEF FrameInv
<1>10. StackInv'
  BY <1>1, <1>3, <1>7, <1>8, <1>9 DEF StackInv
<1> QED
  BY <1>6, <1>10

\* The first call stays the first: requests are placed one after the other.
LEMMA OmitDependencyStep ==
  ASSUME IInv, OmitDependency
  PROVE  IInv'
<1> USE DEF OmitDependency
<1>1. Handled(TopDependency)
  BY DEF Handled, Kept, Omitted, Forbidden
<1>2. StackInv' /\ StackDistinct'
  BY <1>1, AdvanceStack
<1>3. stack \in Seq(Frame) /\ stack # <<>> /\ Len(stack) \in Nat \ {0}
  BY TopFacts, CallerFacts
<1>4. /\ Advanced \in Seq(Frame) /\ Len(Advanced) = Len(stack)
      /\ Advanced[1].task = stack[1].task
  BY <1>3, AdvancedFacts DEF Top
<1>5. TypeOK'
  BY <1>4 DEF IInv, TypeOK
<1>6. RequestInv'
  <2>1. stack' # <<>> /\ stack'[1].task = stack[1].task
    BY <1>3, <1>4, EmptySeq
  <2> QED
    BY <2>1 DEF IInv, RequestInv
<1>7. PlanInv' /\ CollectInv' /\ CollectedInv' /\ OutcomeInv'
  BY DEF IInv, PlanInv, CollectInv, CollectedInv, OutcomeInv, Found, InLoop, Building
<1> QED
  BY <1>2, <1>5, <1>6, <1>7 DEF IInv

LEMMA EnqueueDependencyStep ==
  ASSUME IInv, EnqueueDependency
  PROVE  IInv'
<1> USE DEF EnqueueDependency
<1>1. PICK u : u = TopDependency.name
  OBVIOUS
<1>2. u \in Task
  BY <1>1, TopFacts
<1>3. stack \in Seq(Frame) /\ stack # <<>> /\ Len(stack) \in Nat \ {0}
  BY TopFacts, CallerFacts
<1>4. /\ Advanced \in Seq(Frame) /\ Len(Advanced) = Len(stack)
      /\ Advanced[1].task = stack[1].task
  BY <1>3, AdvancedFacts DEF Top
<1>5. /\ StackInv' /\ StackDistinct'
      /\ stack' \in Seq(Frame) /\ stack' # <<>> /\ stack'[1].task = stack[1].task
  <2>1. CASE u \in Elements(plan)
    <3>1. stack' = Advanced
      BY <1>1, <2>1 DEF CallEnqueue
    <3>2. Handled(TopDependency)
      BY <1>1, <2>1 DEF Handled, Kept
    <3> QED
      BY <1>3, <1>4, <3>1, <3>2, AdvanceStack, EmptySeq
  <2>2. CASE u \notin Elements(plan)
    <3>1. stack' = Append(Advanced, [task |-> u, at |-> 1])
      BY <1>1, <2>2 DEF CallEnqueue
    <3>2. StackInv' /\ StackDistinct'
      BY <1>1, <2>2, <3>1, PushStack
    <3>3. /\ stack' \in Seq(Frame)
          /\ Len(stack') = Len(Advanced) + 1
          /\ stack'[1] = Advanced[1]
      BY <1>2, <1>3, <1>4, <3>1, PushFacts
    <3> QED
      BY <1>3, <1>4, <3>2, <3>3, EmptySeq
  <2> QED
    BY <2>1, <2>2
<1>6. TypeOK'
  BY <1>5 DEF IInv, TypeOK
<1>7. RequestInv'
  BY <1>5 DEF IInv, RequestInv
<1>8. PlanInv' /\ CollectInv' /\ CollectedInv' /\ OutcomeInv'
  BY DEF IInv, PlanInv, CollectInv, CollectedInv, OutcomeInv, Found, InLoop, Building
<1> QED
  BY <1>5, <1>6, <1>7, <1>8 DEF IInv

LEMMA EnqueueRequestedStep ==
  ASSUME IInv, EnqueueRequested
  PROVE  IInv'
<1> USE DEF EnqueueRequested, Building
<1>1. PICK u : u = project.requested[next]
  OBVIOUS
<1>2. /\ DOMAIN project.requested = 1..Len(project.requested)
      /\ Len(project.requested) \in Nat
      /\ next \in DOMAIN project.requested
  BY ProjectType, LenProperties DEF IInv, TypeOK
<1>3. u \in collected /\ u \in Task
  BY <1>1, <1>2 DEF IInv, CollectedInv, TypeOK, Elements
<1>4. u \in Wanted(project)
  <2>1. u \in RequestedTasks(project)
    BY <1>1, <1>2, <1>3 DEF RequestedTasks, Elements
  <2> QED
    BY <2>1, RequestedReachable DEF IInv, TypeOK
<1>5. /\ stack' \in Seq(Frame) /\ StackInv' /\ StackDistinct'
      /\ u \in Elements(plan) \/ (stack' # <<>> /\ stack'[1].task = u)
  <2>1. CASE u \in Elements(plan)
    <3>1. stack' = <<>>
      BY <1>1, <2>1 DEF CallEnqueue
    <3> QED
      BY <2>1, <3>1 DEF StackInv, StackDistinct
  <2>2. CASE u \notin Elements(plan)
    <3>1. PICK none : none = <<>>
      OBVIOUS
    <3>2. none \in Seq(Frame) /\ Len(none) = 0
      BY <3>1, EmptySeq
    <3>3. stack' = Append(none, [task |-> u, at |-> 1])
      BY <1>1, <2>2, <3>1 DEF CallEnqueue
    <3>4. /\ stack' \in Seq(Frame) /\ Len(stack') = 1
          /\ stack'[1].task = u /\ stack'[1].at = 1
      <4>1. /\ stack' \in Seq(Frame) /\ Len(stack') = Len(none) + 1
            /\ stack'[Len(none) + 1].task = u /\ stack'[Len(none) + 1].at = 1
        BY <1>3, <3>2, <3>3, PushFacts
      <4>2. Len(none) + 1 = 1
        BY <3>2
      <4> QED
        BY <4>1, <4>2
    <3>5. DOMAIN stack' = 1..1
      BY <3>4, LenProperties
    <3>6. stack' # <<>>
      <4> HIDE DEF EnqueueRequested, Building
      <4>1. Len(stack') # 0
        BY <3>4
      <4> QED
        BY <3>4, <4>1, EmptySeq
    <3>7. project.deps[u] \in Seq(Dependency)
      BY <1>3, ProjectType DEF IInv, TypeOK
    <3>8. Len(project.deps[u]) \in Nat
      BY <3>7, LenProperties
    <3>9. FrameInv(1)'
      BY <1>3, <1>4, <2>2, <3>4, <3>8 DEF FrameInv
    <3> QED
      BY <3>4, <3>5, <3>6, <3>9 DEF StackInv, StackDistinct
  <2> QED
    BY <2>1, <2>2
<1>6. TypeOK'
  BY <1>5 DEF IInv, TypeOK
<1>7. RequestInv'
  <2> SUFFICES ASSUME NEW i \in DOMAIN project.requested, i < next + 1
               PROVE  \/ project.requested[i] \in Elements(plan)
                      \/ stack' # <<>> /\ project.requested[i] = stack'[1].task
    BY DEF RequestInv
  <2>1. CASE i < next
    BY <2>1 DEF IInv, RequestInv
  <2>2. CASE i = next
    BY <1>1, <1>5, <2>2
  <2> QED
    BY <1>2, <2>1, <2>2
<1>8. PlanInv' /\ CollectInv' /\ CollectedInv' /\ OutcomeInv'
  BY DEF IInv, PlanInv, CollectInv, CollectedInv, OutcomeInv, Found
<1> QED
  BY <1>5, <1>6, <1>7, <1>8 DEF IInv

LEMMA AppendTaskStep ==
  ASSUME IInv, AppendTask
  PROVE  IInv'
<1> USE DEF AppendTask, Building
<1>1. PICK n, t, deps : n = Len(stack) /\ t = Top.task /\ deps = project.deps[t]
  OBVIOUS
<1>2. /\ stack \in Seq(Frame) /\ n \in Nat \ {0} /\ DOMAIN stack = 1..n
      /\ stack[n] = Top /\ stack[n].task = t
      /\ stack' \in Seq(Frame) /\ Len(stack') = n - 1
      /\ \A i \in 1..(n - 1) : stack'[i] = stack[i]
  BY <1>1, CallerFacts DEF IInv, TypeOK, Top
<1>3. DOMAIN stack' = 1..(n - 1)
  BY <1>2, LenProperties
<1>4. /\ FrameInv(n)
      /\ t \in collected \cap Wanted(project) /\ t \in Task /\ t \notin Elements(plan)
  <2>1. n \in DOMAIN stack /\ collected \subseteq Task
    BY <1>2 DEF IInv, TypeOK
  <2>2. FrameInv(n)
    BY <2>1 DEF IInv, StackInv
  <2> QED
    BY <1>2, <2>1, <2>2 DEF FrameInv
<1>5. deps \in Seq(Dependency) /\ Len(deps) \in Nat /\ DOMAIN deps = 1..Len(deps)
  BY <1>1, <1>4, ProjectType, LenProperties DEF IInv, TypeOK
<1>6. \A d \in Elements(deps) : Handled(d)
  <2>1. \A k \in 1..(stack[n].at - 1) : Handled(deps[k])
    BY <1>1, <1>2, <1>4 DEF FrameInv
  <2>2. stack[n].at \in 1..(Len(deps) + 1) /\ stack[n].at > Len(deps)
    BY <1>1, <1>2, <1>4 DEF FrameInv, TopDeps
  <2>3. stack[n].at - 1 = Len(deps)
    <3>1. PICK at : at = stack[n].at
      OBVIOUS
    <3> QED
      BY <1>5, <2>2, <3>1
  <2> QED
    BY <1>5, <2>1, <2>3 DEF Elements
<1>7. /\ plan \in Seq(Task) /\ plan' \in Seq(Task)
      /\ Len(plan) \in Nat /\ DOMAIN plan = 1..Len(plan)
      /\ DOMAIN plan' = 1..(Len(plan) + 1)
      /\ Elements(plan') = Elements(plan) \cup {t}
      /\ \A i \in 1..Len(plan) : plan'[i] = plan[i]
      /\ plan'[Len(plan) + 1] = t
  BY <1>1, <1>4, AppendElements, AppendProperties, LenProperties DEF IInv, TypeOK
<1>8. TypeOK'
  BY <1>2, <1>7 DEF IInv, TypeOK
<1>9. StackDistinct'
  BY <1>2, <1>3 DEF IInv, StackDistinct
<1>10. StackInv'
  <2> SUFFICES ASSUME NEW i \in 1..(n - 1) PROVE FrameInv(i)'
    BY <1>3 DEF StackInv
  <2>0. i \in 1..n /\ i \in DOMAIN stack /\ n \in DOMAIN stack /\ i < n
    BY <1>2
  <2>1. FrameInv(i) /\ i \in 1..n /\ i < n /\ stack'[i] = stack[i]
    BY <1>2, <2>0 DEF IInv, StackInv
  <2>2. stack[i].task \notin Elements(plan')
    <3>1. stack[i].task # t
      BY <1>2, <2>0 DEF IInv, StackDistinct
    <3>2. stack[i].task \notin Elements(plan)
      BY <2>1 DEF FrameInv
    <3> QED
      BY <1>7, <3>1, <3>2
  <2>3. CASE i < n - 1
    <3>1. stack'[i + 1].task = stack[i + 1].task /\ i # Len(stack')
      BY <1>2, <2>3
    <3> QED
      BY <1>1, <1>7, <2>1, <2>2, <3>1, FrameKept
  <2>4. CASE i = n - 1
    <3>1. PICK f, ds : f = stack[i] /\ ds = project.deps[f.task]
      OBVIOUS
    <3>2. /\ f.task \in collected \cap Wanted(project)
          /\ f.at \in 1..(Len(ds) + 1) /\ f.at > 1
          /\ Kept(project, ds[f.at - 1])
          /\ ds[f.at - 1].name = stack[i + 1].task
          /\ \A k \in 1..(f.at - 2) : Handled(ds[k])
      BY <1>1, <2>1, <3>1 DEF FrameInv
    <3>3. stack[i + 1].task = t
      BY <1>2, <2>4
    <3>4. f.task \in Task /\ ds \in Seq(Dependency) /\ Len(ds) \in Nat
      BY <3>1, <3>2, ProjectType, LenProperties DEF IInv, TypeOK
    <3>5. \A k \in 1..(f.at - 1) : k \in 1..(f.at - 2) \/ k = f.at - 1
      BY <3>2, <3>4
    <3>6. \A k \in 1..(f.at - 2) : Handled(ds[k])'
      BY <1>7, <3>2 DEF Handled
    <3>7. Handled(ds[f.at - 1])'
      BY <1>7, <3>2, <3>3 DEF Handled, Kept
    <3>8. \A k \in 1..(f.at - 1) : Handled(ds[k])'
      BY <3>5, <3>6, <3>7
    <3>9. stack'[i] = f /\ project'.deps[f.task] = ds /\ i = Len(stack')
      BY <1>2, <2>1, <2>4, <3>1
    <3>10. ~ (i < Len(stack'))
      BY <1>2, <3>9
    <3>11. f.task \notin Elements(plan') /\ f.task \in collected' \cap Wanted(project')
      BY <2>2, <3>1, <3>2
    <3> QED
      BY <3>2, <3>8, <3>9, <3>10, <3>11 DEF FrameInv
  <2> QED
    BY <1>2, <2>3, <2>4
<1>11. PlanInv'
  <2> SUFFICES ASSUME NEW i \in DOMAIN plan'
               PROVE  /\ plan'[i] \in Wanted(project)
                      /\ \A j \in DOMAIN plan' : plan'[i] = plan'[j] => i = j
                      /\ \A u \in Prerequisites(project, plan'[i]) :
                           \E j \in 1..(i - 1) : plan'[j] = u
                      /\ \A d \in Elements(project.deps[plan'[i]]) : ~ Forbidden(project, d)
    BY DEF PlanInv
  <2>0. i \in 1..Len(plan) \/ i = Len(plan) + 1
    BY <1>7
  <2>1. CASE i \in 1..Len(plan)
    <3>1. /\ plan[i] \in Wanted(project)
          /\ \A j \in DOMAIN plan : plan[i] = plan[j] => i = j
          /\ \A u \in Prerequisites(project, plan[i]) : \E j \in 1..(i - 1) : plan[j] = u
          /\ \A d \in Elements(project.deps[plan[i]]) : ~ Forbidden(project, d)
      BY <1>7, <2>1 DEF IInv, PlanInv
    <3>2. plan'[i] = plan[i] /\ plan[i] \in Elements(plan)
      BY <1>7, <2>1 DEF Elements
    <3>3. \A j \in DOMAIN plan' : plan'[i] = plan'[j] => i = j
      BY <1>4, <1>7, <2>1, <3>1, <3>2
    <3>4. \A j \in 1..(i - 1) : plan'[j] = plan[j]
      BY <1>7, <2>1
    <3> QED
      BY <3>1, <3>2, <3>3, <3>4
  <2>2. CASE i = Len(plan) + 1
    <3>1. plan'[i] = t
      BY <1>7, <2>2
    <3>2. \A j \in DOMAIN plan' : t = plan'[j] => i = j
      BY <1>4, <1>7, <2>2 DEF Elements
    <3>3. \A u \in Prerequisites(project, t) : u \in Elements(plan)
      BY <1>1, <1>6 DEF Prerequisites, Handled
    <3>4. \A u \in Elements(plan) : \E j \in 1..(i - 1) : plan'[j] = u
      BY <1>7, <2>2 DEF Elements
    <3>5. \A d \in Elements(project.deps[t]) : ~ Forbidden(project, d)
      BY <1>1, <1>6 DEF Handled
    <3> QED
      BY <1>4, <3>1, <3>2, <3>3, <3>4, <3>5
  <2> QED
    BY <2>0, <2>1, <2>2
<1>12. RequestInv'
  <2>1. stack # <<>> /\ n = 1 => stack[1].task = t
    BY <1>2
  <2>2. n # 1 => stack' # <<>> /\ stack'[1].task = stack[1].task
    BY <1>2, EmptySeq
  <2> QED
    BY <1>7, <2>1, <2>2 DEF IInv, RequestInv
<1>13. CollectInv' /\ CollectedInv' /\ OutcomeInv'
  BY DEF IInv, CollectInv, CollectedInv, OutcomeInv, Found
<1> QED
  BY <1>8, <1>9, <1>10, <1>11, <1>12, <1>13 DEF IInv

LEMMA ReturnPlanStep ==
  ASSUME IInv, ReturnPlan
  PROVE  IInv'
<1> USE DEF ReturnPlan, Building, IInv
<1>1. TypeOK' /\ CollectInv' /\ CollectedInv' /\ RequestInv' /\ OutcomeInv'
  BY DEF TypeOK, CollectInv, Found, CollectedInv, RequestInv, OutcomeInv
<1>2. StackInv' /\ StackDistinct' /\ PlanInv'
  BY DEF StackInv, StackDistinct, PlanInv
<1> QED
  BY <1>1, <1>2

----------------------------------------------------------------------------
(* Invariance *)

LEMMA StutterStep ==
  ASSUME IInv, UNCHANGED vars
  PROVE  IInv'
<1> USE DEF vars, IInv
<1>1. TypeOK' /\ CollectInv' /\ CollectedInv' /\ RequestInv' /\ OutcomeInv'
  BY DEF TypeOK, CollectInv, Found, CollectedInv, RequestInv, OutcomeInv
<1>2. StackInv' /\ StackDistinct' /\ PlanInv'
  BY DEF StackInv, StackDistinct, PlanInv, FrameInv, Handled
<1> QED
  BY <1>1, <1>2

LEMMA NextIInv == IInv /\ [Next]_vars => IInv'
<1> SUFFICES ASSUME IInv, [Next]_vars PROVE IInv'
  OBVIOUS
<1>1. CASE CollectRequested  BY <1>1, CollectRequestedStep
<1>2. CASE RejectUnknown  BY <1>2, RejectUnknownStep
<1>3. ASSUME NEW t \in Task, Collect(t) PROVE IInv'  BY <1>3, CollectStep
<1>4. CASE AcceptAcyclic  BY <1>4, AcceptAcyclicStep
<1>5. CASE RejectCircular  BY <1>5, RejectCircularStep
<1>6. CASE EnqueueRequested  BY <1>6, EnqueueRequestedStep
<1>7. CASE OmitDependency  BY <1>7, OmitDependencyStep
<1>8. CASE RejectExclusion  BY <1>8, RejectExclusionStep
<1>9. CASE EnqueueDependency  BY <1>9, EnqueueDependencyStep
<1>10. CASE AppendTask  BY <1>10, AppendTaskStep
<1>11. CASE ReturnPlan  BY <1>11, ReturnPlanStep
<1>12. CASE Ended \/ UNCHANGED vars  BY <1>12, StutterStep DEF Ended
<1> QED
  BY <1>1, <1>2, <1>3, <1>4, <1>5, <1>6, <1>7, <1>8, <1>9, <1>10, <1>11, <1>12 DEF Next

\* The strengthening is an invariant: what every theorem below is read off.
THEOREM Invariance == Spec => []IInv
BY InitIInv, NextIInv, PTL DEF Spec

----------------------------------------------------------------------------
(* The properties *)

\* Every variable has its type in every reachable state (the state of
\* build_execution_plan and of the open calls of _enqueue_task).
THEOREM TypeCorrect == Spec => []TypeOK
<1>1. IInv => TypeOK
  BY DEF IInv
<1> QED
  BY <1>1, Invariance, PTL

\* A finished plan holds exactly the wanted tasks.
LEMMA FinishedPlan ==
  ASSUME IInv, phase = "enqueue", stack = <<>>, next > Len(project.requested)
  PROVE  /\ Elements(plan) = Wanted(project)
         /\ Elements(project.requested) \subseteq Task
         /\ ~ HasCycle(project, Reachable(project))
<1>1. /\ project \in Projects /\ plan \in Seq(Task) /\ collected \subseteq Task
      /\ next \in Nat
  BY DEF IInv, TypeOK
<1>2. /\ DOMAIN project.requested = 1..Len(project.requested)
      /\ Len(project.requested) \in Nat
  BY <1>1, ProjectType, LenProperties
<1>3. \A i \in DOMAIN project.requested : i < next
  BY <1>1, <1>2
<1>4. Elements(project.requested) \subseteq Elements(plan)
  BY <1>3 DEF IInv, RequestInv, Elements
<1>5. Elements(plan) \subseteq Wanted(project)
  BY DEF IInv, PlanInv, Elements
<1>6. Elements(plan) \subseteq Task
  BY <1>5 DEF Wanted
<1>7. \A t \in Elements(plan) : Prerequisites(project, t) \subseteq Elements(plan)
  <2> SUFFICES ASSUME NEW i \in DOMAIN plan, NEW u \in Prerequisites(project, plan[i])
               PROVE  u \in Elements(plan)
    BY DEF Elements
  <2>1. PICK j \in 1..(i - 1) : plan[j] = u
    BY DEF IInv, PlanInv
  <2>2. DOMAIN plan = 1..Len(plan) /\ Len(plan) \in Nat
    BY <1>1, LenProperties
  <2>3. j \in DOMAIN plan
    BY <2>2
  <2> QED
    BY <2>1, <2>3 DEF Elements
<1>8. Wanted(project) \subseteq Elements(plan)
  BY <1>1, <1>4, <1>6, <1>7, WantedLeast DEF RequestedTasks
<1>9. ~ HasCycle(project, collected) /\ collected = Reachable(project)
      /\ Elements(project.requested) \subseteq Task
  BY <1>1, CollectedIsReachable DEF IInv, CollectedInv
<1> QED
  BY <1>5, <1>8, <1>9

\* A returned plan is right: complete, minimal, without repetition, every task
\* after its prerequisites (build_execution_plan, _enqueue_task).
THEOREM PlanRight == Spec => []PlanIsRight
<1>1. IInv => PlanIsRight
  <2> SUFFICES ASSUME IInv, outcome = "planned"
               PROVE  /\ Elements(plan) = Wanted(project)
                      /\ PlanInv
    BY DEF PlanIsRight, PlanInv, RightPlan
  <2> QED
    BY FinishedPlan DEF IInv, OutcomeInv
<1> QED
  BY <1>1, Invariance, PTL

\* _enqueue_task is never re-entered for a task whose call is still open, so
\* its recursion is never deeper than the number of collected tasks.
THEOREM NoReentry == Spec => []NoReentrantCall
<1>1. IInv => NoReentrantCall
  BY DEF IInv, StackInv, FrameInv, StackDistinct, NoReentrantCall
<1> QED
  BY <1>1, Invariance, PTL

\* Every exception of build_execution_plan names a reason that exists, and a
\* plan is only returned for a graph without a cycle.
THEOREM RefusalRight == Spec => []RefusalIsJustified
<1>1. IInv => RefusalIsJustified
  <2> SUFFICES ASSUME IInv, outcome = "planned"
               PROVE  ~ HasCycle(project, Reachable(project))
    BY DEF IInv, OutcomeInv, RefusalIsJustified
  <2> QED
    BY FinishedPlan DEF IInv, OutcomeInv
<1> QED
  BY <1>1, Invariance, PTL

----------------------------------------------------------------------------
(* ExecutionPlan implements PlanOrder *)

\* The instance has operators of its own for the data both modules read.
LEMMA SameData ==
  /\ \A s : Order!Elements(s) = Elements(s)
  /\ \A p : Order!Wanted(p) = Wanted(p) /\ Order!Reachable(p) = Reachable(p)
  /\ \A p, t : Order!Prerequisites(p, t) = Prerequisites(p, t)
  /\ \A p, d : Order!Forbidden(p, d) = Forbidden(p, d)
  /\ \A p, S : Order!HasCycle(p, S) = HasCycle(p, S)
<1>1. \A s : Order!Elements(s) = Elements(s)
  BY DEF Order!Elements, Elements
<1>2. \A p, d : Order!Forbidden(p, d) = Forbidden(p, d) /\ Order!Kept(p, d) = Kept(p, d)
  BY DEF Order!Forbidden, Forbidden, Order!Kept, Kept, Order!Omitted, Omitted
<1>3. \A p, t : /\ Order!Prerequisites(p, t) = Prerequisites(p, t)
                /\ Order!Successors(p, t) = Successors(p, t)
  BY <1>1, <1>2 DEF Order!Prerequisites, Prerequisites, Order!Successors, Successors
<1>4. \A p : Order!RequestedTasks(p) = RequestedTasks(p)
  BY <1>1 DEF Order!RequestedTasks, RequestedTasks
<1>5. \A p : Order!Wanted(p) = Wanted(p) /\ Order!Reachable(p) = Reachable(p)
  BY <1>3, <1>4 DEF Order!Wanted, Wanted, Order!HoldsPrerequisites, HoldsPrerequisites,
       Order!Reachable, Reachable, Order!HoldsSuccessors, HoldsSuccessors
<1>6. \A p, S : Order!HasCycle(p, S) = HasCycle(p, S)
  BY <1>3 DEF Order!HasCycle, HasCycle
<1> QED
  BY <1>1, <1>2, <1>3, <1>5, <1>6

LEMMA AppendTaskPlaces ==
  ASSUME IInv, IInv', AppendTask
  PROVE  Order!Place(Top.task)
<1>1. PICK t : t = Top.task
  OBVIOUS
<1>2. t \in Wanted(project) \ Elements(plan)
  <2>1. Len(stack) \in DOMAIN stack
    BY CallerFacts DEF IInv, TypeOK, AppendTask
  <2>2. FrameInv(Len(stack))
    BY <2>1 DEF IInv, StackInv
  <2> QED
    BY <1>1, <2>2 DEF FrameInv, Top
<1>3. /\ plan \in Seq(Task) /\ t \in Task /\ plan' = Append(plan, t)
      /\ project' = project /\ outcome' = outcome /\ outcome = "building"
  BY <1>1, <1>2 DEF IInv, TypeOK, AppendTask, Wanted, Building
<1>4. /\ DOMAIN plan = 1..Len(plan) /\ Len(plan) \in Nat
      /\ DOMAIN plan' = 1..(Len(plan) + 1)
      /\ plan'[Len(plan) + 1] = t
      /\ \A i \in 1..Len(plan) : plan'[i] = plan[i]
  BY <1>3, AppendProperties, LenProperties
<1>5. Prerequisites(project, t) \subseteq Elements(plan)
  <2> SUFFICES ASSUME NEW u \in Prerequisites(project, t) PROVE u \in Elements(plan)
    OBVIOUS
  <2>1. Len(plan) + 1 \in DOMAIN plan'
    BY <1>4
  <2>2. \E j \in 1..(Len(plan) + 1 - 1) : plan'[j] = u
    BY <1>3, <1>4, <2>1 DEF IInv, PlanInv
  <2> QED
    BY <1>4, <2>2 DEF Elements
<1> QED
  BY <1>1, <1>2, <1>3, <1>5, SameData DEF Order!Place

LEMMA StepRefines ==
  ASSUME IInv, IInv', [Next]_vars
  PROVE  [Order!Next]_(Order!vars)
<1> USE DEF Order!vars
<1>1. CASE AppendTask
  <2>1. Top.task \in Task
    BY <1>1, AppendTaskPlaces, SameData DEF Order!Place, Wanted
  <2> QED
    BY <1>1, <2>1, AppendTaskPlaces DEF Order!Next
<1>2. CASE ReturnPlan
  <2>1. /\ Elements(plan) = Wanted(project)
        /\ Elements(project.requested) \subseteq Task
        /\ ~ HasCycle(project, Reachable(project))
    BY <1>2, FinishedPlan DEF ReturnPlan, Building
  <2>2. Order!Complete
    BY <1>2, <2>1, SameData DEF ReturnPlan, Building, Order!Complete
  <2> QED
    BY <2>2 DEF Order!Next
<1>3. CASE RejectUnknown
  <2>1. Order!RefuseUnknown
    BY <1>3, SameData DEF RejectUnknown, Raise, Building, IInv, OutcomeInv, Order!RefuseUnknown
  <2> QED
    BY <2>1 DEF Order!Next
<1>4. CASE RejectCircular
  <2>1. Order!RefuseCircular
    BY <1>4, SameData
       DEF RejectCircular, AllCollected, Raise, Building, IInv, OutcomeInv, Order!RefuseCircular
  <2> QED
    BY <2>1 DEF Order!Next
<1>5. CASE RejectExclusion
  <2>1. Order!RefuseExclusion
    BY <1>5, SameData
       DEF RejectExclusion, InLoop, Raise, Building, IInv, OutcomeInv, Order!RefuseExclusion
  <2> QED
    BY <2>1 DEF Order!Next
<1>6. CASE UNCHANGED <<project, plan, outcome>>
  BY <1>6
<1>7. \/ AppendTask \/ ReturnPlan \/ RejectUnknown \/ RejectCircular \/ RejectExclusion
      \/ UNCHANGED <<project, plan, outcome>>
  BY DEF Next, CollectRequested, Collect, AcceptAcyclic, EnqueueRequested,
         OmitDependency, EnqueueDependency, Ended, vars
<1> QED
  BY <1>1, <1>2, <1>3, <1>4, <1>5, <1>6, <1>7

\* build_execution_plan implements PlanOrder: each append to the plan places a
\* wanted task after its prerequisites, each exception is a justified refusal,
\* and every other step of the search is invisible.
THEOREM Refinement == Spec => ImplementsPlanOrder
<1>1. Init => Order!Init
  BY DEF Init, Order!Init
<1>2. IInv /\ IInv' /\ [Next]_vars => [Order!Next]_(Order!vars)
  BY StepRefines
<1> QED
  BY <1>1, <1>2, Invariance, PTL DEF Spec, ImplementsPlanOrder, Order!Spec

----------------------------------------------------------------------------
(* What the cycle check looks for. graph_utils.tarjan_scc takes the tasks     *)
(* apart into strongly connected components, and assert_no_cycles_present     *)
(* reports those of more than one task and the tasks that depend on           *)
(* themselves. For a finite graph that comes to HasCycle.                     *)

\* The tasks of S that t leads to along dependencies among S, t included.
LedTo(p, S, t) ==
  {u \in S : \A C \in SUBSET S :
               t \in C /\ (\A v \in C : Successors(p, v) \cap S \subseteq C) => u \in C}

\* The strongly connected component of t.
Component(p, S, t) == {u \in S : u \in LedTo(p, S, t) /\ t \in LedTo(p, S, u)}

\* assert_no_cycles_present returns something.
CyclesPresent(p, S) ==
  \E t \in S : (\E u \in Component(p, S, t) : u # t) \/ t \in Successors(p, t)

LEMMA LedToFacts ==
  ASSUME NEW p, NEW S, NEW t \in S
  PROVE  /\ LedTo(p, S, t) \subseteq S /\ t \in LedTo(p, S, t)
         /\ \A v \in LedTo(p, S, t) : Successors(p, v) \cap S \subseteq LedTo(p, S, t)
         /\ \A C \in SUBSET S :
              t \in C /\ (\A v \in C : Successors(p, v) \cap S \subseteq C)
              => LedTo(p, S, t) \subseteq C
<1>1. LedTo(p, S, t) \subseteq S /\ t \in LedTo(p, S, t)
  BY DEF LedTo
<1>2. ASSUME NEW C \in SUBSET S, t \in C, \A v \in C : Successors(p, v) \cap S \subseteq C
      PROVE  LedTo(p, S, t) \subseteq C
  BY <1>2 DEF LedTo
<1>3. ASSUME NEW v \in LedTo(p, S, t), NEW w \in Successors(p, v) \cap S
      PROVE  w \in LedTo(p, S, t)
  <2> SUFFICES ASSUME NEW C \in SUBSET S, t \in C,
                      \A x \in C : Successors(p, x) \cap S \subseteq C
               PROVE  w \in C
    BY DEF LedTo
  <2>1. v \in C
    BY <1>2
  <2> QED
    BY <1>3, <2>1
<1> QED
  BY <1>1, <1>2, <1>3

LEMMA LedOn ==
  ASSUME NEW p, NEW S, NEW t \in S, NEW u \in LedTo(p, S, t)
  PROVE  LedTo(p, S, u) \subseteq LedTo(p, S, t)
<1>1. LedTo(p, S, t) \in SUBSET S /\ u \in S
  BY LedToFacts
<1>2. \A v \in LedTo(p, S, t) : Successors(p, v) \cap S \subseteq LedTo(p, S, t)
  BY LedToFacts
<1> QED
  BY <1>1, <1>2, LedToFacts

\* What t leads to, and is not t, one of its dependencies leads to.
LEMMA FirstEdge ==
  ASSUME NEW p, NEW S, NEW t \in S, NEW u \in LedTo(p, S, t), u # t
  PROVE  \E w \in Successors(p, t) \cap S : u \in LedTo(p, S, w)
<1> DEFINE C == {t} \cup {v \in S : \E w \in Successors(p, t) \cap S : v \in LedTo(p, S, w)}
<1>1. C \in SUBSET S /\ t \in C
  OBVIOUS
<1>2. ASSUME NEW v \in C, NEW x \in Successors(p, v) \cap S PROVE x \in C
  <2>1. CASE v = t
    <3>1. x \in LedTo(p, S, x)
      BY LedToFacts
    <3> QED
      BY <1>2, <2>1, <3>1
  <2>2. CASE v # t
    <3>1. PICK w \in Successors(p, t) \cap S : v \in LedTo(p, S, w)
      BY <2>2
    <3>2. x \in LedTo(p, S, w)
      BY <1>2, <3>1, LedToFacts
    <3> QED
      BY <3>1, <3>2
  <2> QED
    BY <2>1, <2>2
<1> HIDE DEF C
<1>3. LedTo(p, S, t) \subseteq C
  BY <1>1, <1>2, LedToFacts
<1> QED
  BY <1>3 DEF C

\* The fewer the tasks, the less they lead to.
LEMMA LedWithin ==
  ASSUME NEW p, NEW S, NEW T \in SUBSET S, NEW t \in T
  PROVE  LedTo(p, T, t) \subseteq LedTo(p, S, t)
<1> DEFINE C == LedTo(p, S, t) \cap T
<1>1. C \in SUBSET T /\ t \in C
  BY LedToFacts
<1>2. \A v \in C : Successors(p, v) \cap T \subseteq C
  BY LedToFacts
<1> HIDE DEF C
<1>3. LedTo(p, T, t) \subseteq C
  BY <1>1, <1>2, LedToFacts
<1> QED
  BY <1>3 DEF C

\* The sets HasCycle looks for: each member has a successor in the set.
Cyclic(p, C) == C # {} /\ \A t \in C : Successors(p, t) \cap C # {}

\* Of numbers there is a least one.
LEMMA SmallestNumber ==
  ASSUME NEW N, N \subseteq Nat, N # {}
  PROVE  \E n \in N : \A m \in N : ~ (m < n)
<1>1. \E n \in N : \A m \in N : <<m, n>> \notin OpToRel(<, Nat)
  BY NatLessThanWellFounded, WFMin
<1> QED
  BY <1>1 DEF OpToRel

\* Of the sets that are cyclic one has the fewest members.
LEMMA FewestCyclic ==
  ASSUME NEW p, NEW S, IsFiniteSet(S), HasCycle(p, S)
  PROVE  \E C \in SUBSET S : /\ Cyclic(p, C) /\ IsFiniteSet(C)
                             /\ \A D \in SUBSET C : Cyclic(p, D) => D = C
<1> DEFINE N == {Cardinality(C) : C \in {D \in SUBSET S : Cyclic(p, D)}}
<1>1. N \subseteq Nat /\ N # {}
  BY FS_Subset, FS_CardinalityType DEF HasCycle, Cyclic
<1>2. PICK n \in N : \A m \in N : ~ (m < n)
  BY <1>1, SmallestNumber
<1>3. PICK C \in SUBSET S : Cyclic(p, C) /\ n = Cardinality(C)
  OBVIOUS
<1>4. IsFiniteSet(C)
  BY FS_Subset
<1>5. ASSUME NEW D \in SUBSET C, Cyclic(p, D) PROVE D = C
  <2>1. Cardinality(D) \in N
    BY <1>5
  <2>2. IsFiniteSet(D) /\ Cardinality(D) <= Cardinality(C)
        /\ (Cardinality(C) = Cardinality(D) => C = D)
    BY <1>4, FS_Subset
  <2>3. Cardinality(D) \in Nat /\ Cardinality(C) \in Nat
    BY <1>4, <2>2, FS_CardinalityType
  <2> QED
    BY <1>2, <1>3, <2>1, <2>2, <2>3
<1> QED
  BY <1>3, <1>4, <1>5

\* The cycle check of the model is the one of the code: some set of tasks each
\* of which depends on one of the set is there just when a strongly connected
\* component has more than one task, or a task depends on itself.
THEOREM CycleIsComponent ==
  ASSUME NEW p, NEW S, IsFiniteSet(S)
  PROVE  HasCycle(p, S) <=> CyclesPresent(p, S)
<1>1. ASSUME NEW t \in S, t \in Successors(p, t) PROVE HasCycle(p, S)
  <2>1. {t} \in SUBSET S /\ {t} # {} /\ \A v \in {t} : Successors(p, v) \cap {t} # {}
    BY <1>1
  <2> QED
    BY <2>1 DEF HasCycle
<1>2. ASSUME NEW t \in S, NEW u \in Component(p, S, t), u # t PROVE HasCycle(p, S)
  <2>1. u \in S /\ u \in LedTo(p, S, t) /\ t \in LedTo(p, S, u)
    BY DEF Component
  <2>2. ASSUME NEW v \in Component(p, S, t)
        PROVE  Successors(p, v) \cap Component(p, S, t) # {}
    <3>1. v \in S /\ v \in LedTo(p, S, t) /\ t \in LedTo(p, S, v)
      BY DEF Component
    <3>2. PICK x \in {t, u} : x # v
      BY <1>2
    <3>3. x \in LedTo(p, S, v) /\ t \in LedTo(p, S, x)
      BY <2>1, <3>1, LedOn, LedToFacts
    <3>4. PICK w \in Successors(p, v) \cap S : x \in LedTo(p, S, w)
      BY <3>1, <3>2, <3>3, FirstEdge
    <3>5. w \in LedTo(p, S, t)
      BY <3>1, <3>4, LedToFacts
    <3>6. t \in LedTo(p, S, w)
      BY <3>3, <3>4, LedOn
    <3> QED
      BY <3>4, <3>5, <3>6 DEF Component
  <2>3. Component(p, S, t) \in SUBSET S /\ Component(p, S, t) # {}
    BY DEF Component
  <2> QED
    BY <2>2, <2>3 DEF HasCycle
<1>3. ASSUME HasCycle(p, S) PROVE CyclesPresent(p, S)
  <2>1. PICK C \in SUBSET S : /\ Cyclic(p, C) /\ IsFiniteSet(C)
                              /\ \A D \in SUBSET C : Cyclic(p, D) => D = C
    BY <1>3, FewestCyclic
  <2>2. PICK t \in C : TRUE
    BY <2>1 DEF Cyclic
  <2> DEFINE D == {u \in C : \E w \in Successors(p, t) \cap C : u \in LedTo(p, C, w)}
  <2>3. D \in SUBSET C
    OBVIOUS
  <2>4. D # {}
    <3>1. PICK w \in Successors(p, t) \cap C : TRUE
      BY <2>1, <2>2 DEF Cyclic
    <3>2. w \in LedTo(p, C, w)
      BY LedToFacts
    <3> QED
      BY <3>1, <3>2
  <2>5. ASSUME NEW u \in D PROVE Successors(p, u) \cap D # {}
    <3>1. PICK w \in Successors(p, t) \cap C : u \in LedTo(p, C, w)
      BY <2>5
    <3>2. PICK v \in Successors(p, u) \cap C : TRUE
      BY <2>1, <2>5 DEF Cyclic
    <3>3. v \in LedTo(p, C, w)
      BY <3>1, <3>2, LedToFacts
    <3> QED
      BY <3>1, <3>2, <3>3
  <2>6. t \in D
    <3>1. Cyclic(p, D)
      BY <2>4, <2>5 DEF Cyclic
    <3> HIDE DEF D
    <3> QED
      BY <2>1, <2>2, <2>3, <3>1
  <2>7. PICK w \in Successors(p, t) \cap C : t \in LedTo(p, C, w)
    BY <2>6
  <2>8. t \in S /\ w \in S /\ t \in LedTo(p, S, w)
    BY <2>2, <2>7, LedWithin
  <2>9. w \in LedTo(p, S, t)
    BY <2>7, <2>8, LedToFacts
  <2>10. CASE w = t
    BY <2>7, <2>8, <2>10 DEF CyclesPresent
  <2>11. CASE w # t
    BY <2>8, <2>9, <2>11 DEF CyclesPresent, Component
  <2> QED
    BY <2>10, <2>11
<1> QED
  BY <1>1, <1>2, <1>3 DEF CyclesPresent

\* What a build is told of its graph, when there are finitely many tasks: that
\* it is circular only if the tasks to be looked at have such a component or a
\* task that depends on itself, and never that there is a plan if they have.
CircularIsPresent ==
  /\ outcome = "CircularTaskDependency" => CyclesPresent(project, Reachable(project))
  /\ outcome = "planned" => ~ CyclesPresent(project, Reachable(project))

\* build_execution_plan refuses a graph as circular for such a component only,
\* and plans none that has one.
THEOREM CircularRight ==
  ASSUME IsFiniteSet(Task)
  PROVE  Spec => []CircularIsPresent
<1>1. RefusalIsJustified => CircularIsPresent
  <2>1. Reachable(project) \in SUBSET Task
    BY DEF Reachable
  <2>2. IsFiniteSet(Reachable(project))
    BY <2>1, FS_Subset
  <2>3. HasCycle(project, Reachable(project)) <=> CyclesPresent(project, Reachable(project))
    BY <2>2, CycleIsComponent
  <2> QED
    BY <2>3 DEF RefusalIsJustified, CircularIsPresent
<1> QED
  BY <1>1, RefusalRight, PTL

=============================================================================
