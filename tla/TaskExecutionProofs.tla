------------------------- MODULE TaskExecutionProofs -------------------------
(***************************************************************************)
(* For every project, every set of plans build_execution_plan can return   *)
(* and every way the callables fail and call the reactor: tasks run after  *)
(* their prerequisites, a failure is contained, teardown runs before the   *)
(* error is raised and a task that counts as executed was done completely. *)
(*                                                                         *)
(* The strengthening says of every open call what it owes to the past: the *)
(* tasks before its position were executed, and the steps before its       *)
(* position were called, not due, or skipped for an error. It only depends *)
(* on what was executed so far, which only grows, so calls that nest       *)
(* inside another one cannot spoil it.                                     *)
(***************************************************************************)
EXTENDS TaskExecution, SequenceTheorems, TLAPS

InBounds(c) ==
  /\ c.pos <= Len(c.plan) => c.step <= Len(StepsOf(c)) + 1
  /\ c.pos > Len(c.plan) => c.pos = Len(c.plan) + 1 /\ c.step = 0
  /\ c.running => c.step \in 1..Len(StepsOf(c))

\* A prerequisite of a task of the plan is before it or in E, the tasks executed.
Ordered(c, E) ==
  c.kind # "task" =>
    \A j \in DOMAIN c.plan : \A u \in Prerequisites(Build, c.plan[j]) :
      u \in E \/ \E k \in 1..(j - 1) : c.plan[k] = u

Passed(c, E) == \A k \in 1..(c.pos - 1) : c.plan[k] \in E

\* NotDue, when A is the set of the actions executed.
NotDueIn(c, s, A) ==
  \/ s.part = "body" /\ s.callable \notin c.bodies
  \/ s.callable \in OnlyOnce \cap A

Accounted(c, A) ==
  \A k \in 1..(c.step - 1) :
    \/ k \in c.began
    \/ NotDueIn(c, StepsOf(c)[k], A)
    \/ c.error # 0 /\ ~ IsTeardown(StepsOf(c)[k])

Contained(c) ==
  /\ c.error = IF c.failures = <<>> THEN 0 ELSE c.failures[1]
  /\ c.failures # <<>> => c.error # 0
  /\ c.error < c.step
  /\ \A k \in c.began : k <= c.step
  /\ c.running => c.step \in c.began
  /\ c.error # 0 => \A k \in c.began : k > c.error => IsTeardown(StepsOf(c)[k])

CallInv(c, E, A) ==
  /\ c \in Call
  /\ InBounds(c)
  /\ Ordered(c, E)
  /\ Passed(c, E)
  /\ InTask(c) => Accounted(c, A) /\ Contained(c)

CallsInv(s, E, A) == \A i \in DOMAIN s : CallInv(s[i], E, A)

RootInv(s) == s # <<>> => s[1].plan = PlanOf[request] /\ result = "running"

IInv ==
  /\ TypeOK
  /\ CallsInv(calls, Elements(tasks_executed), actions_executed)
  /\ RootInv(calls)
  /\ result = "succeeded" => Elements(PlanOf[request]) \subseteq Elements(tasks_executed)

----------------------------------------------------------------------------
(* Lemmas about calls *)

\* The plans of two requests are made from the same dependencies.
LEMMA SamePrerequisites ==
  ASSUME NEW r, NEW t
  PROVE  Prerequisites(For(r), t) = Prerequisites(Build, t)
<1>1. Build \in Project
  BY TaskExecutionAssumption, PlanGraphAssumption
<1>2. /\ For(r).deps = Build.deps /\ For(r).exclude = Build.exclude
      /\ For(r).excludeOptional = Build.excludeOptional
      /\ For(r).excludeAllOptional = Build.excludeAllOptional
  BY <1>1 DEF For, Project
<1> QED
  BY <1>2 DEF Prerequisites, Kept, Omitted, Forbidden

\* What a call owes is paid for good: more tasks and actions executed help.
LEMMA CallMonotone ==
  ASSUME NEW c, NEW E, NEW F, E \subseteq F, NEW A, NEW B, A \subseteq B,
         CallInv(c, E, A)
  PROVE  CallInv(c, F, B)
<1>1. Ordered(c, F) /\ Passed(c, F)
  BY DEF CallInv, Ordered, Passed
<1>2. InTask(c) => Accounted(c, B)
  BY DEF CallInv, Accounted, NotDueIn
<1> QED
  BY <1>1, <1>2 DEF CallInv

LEMMA CallsMonotone ==
  ASSUME NEW s, NEW E, NEW F, E \subseteq F, NEW A, NEW B, A \subseteq B,
         CallsInv(s, E, A)
  PROVE  CallsInv(s, F, B)
BY CallMonotone DEF CallsInv

\* The innermost call, and the steps it is in.
LEMMA InnerFacts ==
  ASSUME NEW s \in Seq(Call), s # <<>>, NEW E, NEW A, CallsInv(s, E, A)
  PROVE  /\ Len(s) \in Nat \ {0} /\ DOMAIN s = 1..Len(s) /\ Len(s) \in DOMAIN s
         /\ s[Len(s)] \in Call /\ CallInv(s[Len(s)], E, A)
<1>1. Len(s) \in Nat \ {0} /\ DOMAIN s = 1..Len(s)
  BY EmptySeq, LenProperties
<1>2. Len(s) \in DOMAIN s
  BY <1>1
<1> QED
  BY <1>1, <1>2 DEF CallsInv, CallInv

LEMMA StepFacts ==
  ASSUME NEW c \in Call, InBounds(c)
  PROVE  /\ c.plan \in Seq(Task) /\ Len(c.plan) \in Nat
         /\ c.pos \in Nat \ {0} /\ c.step \in Nat /\ c.error \in Nat
         /\ DOMAIN c.plan = 1..Len(c.plan)
         /\ c.pos <= Len(c.plan) =>
              /\ TaskOf(c) \in Task /\ TaskOf(c) = c.plan[c.pos]
              /\ StepsOf(c) \in Seq(Step)
              /\ Len(StepsOf(c)) \in Nat /\ DOMAIN StepsOf(c) = 1..Len(StepsOf(c))
         /\ InTask(c) => c.pos <= Len(c.plan)
         /\ c.running => InTask(c)
<1>1. /\ c.plan \in Seq(Task) /\ c.pos \in Nat \ {0} /\ c.step \in Nat /\ c.error \in Nat
  BY DEF Call
<1>2. Len(c.plan) \in Nat /\ DOMAIN c.plan = 1..Len(c.plan)
  BY <1>1, LenProperties
<1>3. InTask(c) => c.pos <= Len(c.plan)
  BY <1>1, <1>2 DEF InBounds, InTask
<1>4. c.running => InTask(c)
  <2>1. c.running => c.step \in 1..Len(StepsOf(c))
    BY DEF InBounds
  <2> QED
    BY <2>1, <1>1 DEF InTask
<1>5. ASSUME c.pos <= Len(c.plan)
      PROVE  /\ TaskOf(c) \in Task /\ TaskOf(c) = c.plan[c.pos]
             /\ StepsOf(c) \in Seq(Step)
             /\ Len(StepsOf(c)) \in Nat /\ DOMAIN StepsOf(c) = 1..Len(StepsOf(c))
  <2>1. c.pos \in DOMAIN c.plan
    BY <1>1, <1>2, <1>5
  <2>2. c.plan[c.pos] \in Task
    BY <1>1, <2>1
  <2>3. StepsOf(c) \in Seq(Step)
    BY <2>2, TaskExecutionAssumption DEF StepsOf, TaskOf
  <2> QED
    BY <2>2, <2>3, LenProperties DEF TaskOf
<1> QED
  BY <1>1, <1>2, <1>3, <1>4, <1>5

----------------------------------------------------------------------------
(* The three ways the stack of calls changes *)

LEMMA ReplaceInner ==
  ASSUME NEW s \in Seq(Call), s # <<>>, NEW d, NEW E, NEW A,
         CallsInv(s, E, A), CallInv(d, E, A), d.plan = s[Len(s)].plan,
         NEW t, t = [s EXCEPT ![Len(s)] = d]
  PROVE  /\ t \in Seq(Call) /\ t # <<>> /\ t[1].plan = s[1].plan
         /\ CallsInv(t, E, A)
<1>1. Len(s) \in Nat \ {0} /\ DOMAIN s = 1..Len(s) /\ Len(s) \in DOMAIN s
  BY InnerFacts
<1>2. d \in Call
  BY DEF CallInv
<1>3. t \in Seq(Call) /\ Len(t) = Len(s) /\ DOMAIN t = DOMAIN s
  BY <1>1, <1>2
<1>4. t[Len(s)] = d /\ \A i \in DOMAIN s : i # Len(s) => t[i] = s[i]
  BY <1>1
<1>5. CallsInv(t, E, A)
  BY <1>3, <1>4 DEF CallsInv
<1>6. t # <<>>
  BY <1>1, <1>3
<1>7. t[1].plan = s[1].plan
  BY <1>1, <1>4
<1> QED
  BY <1>3, <1>5, <1>6, <1>7

LEMMA PopInner ==
  ASSUME NEW s \in Seq(Call), s # <<>>, NEW E, NEW A, CallsInv(s, E, A),
         NEW t, t = SubSeq(s, 1, Len(s) - 1)
  PROVE  /\ t \in Seq(Call) /\ CallsInv(t, E, A)
         /\ Len(s) = 1 => t = <<>>
         /\ Len(s) # 1 => t # <<>> /\ t[1] = s[1]
<1>1. Len(s) \in Nat \ {0} /\ DOMAIN s = 1..Len(s)
  BY InnerFacts
<1>2. /\ t \in Seq(Call) /\ Len(t) = Len(s) - 1
      /\ \A i \in 1..(Len(s) - 1) : t[i] = s[i]
  <2>1. \A i \in 1..(Len(s) - 1) : s[i] \in Call
    BY <1>1
  <2> QED
    BY <1>1, <2>1, SubSeqProperties
<1>3. DOMAIN t = 1..(Len(s) - 1)
  BY <1>2, LenProperties
<1>4. CallsInv(t, E, A)
  BY <1>1, <1>2, <1>3 DEF CallsInv
<1>5. Len(s) = 1 => t = <<>>
  BY <1>1, <1>2, EmptySeq
<1>6. Len(s) # 1 => t # <<>> /\ t[1] = s[1]
  <2> SUFFICES ASSUME Len(s) # 1 PROVE t # <<>> /\ t[1] = s[1]
    OBVIOUS
  <2>1. 1 \in 1..(Len(s) - 1) /\ Len(t) # 0
    BY <1>1, <1>2
  <2> QED
    BY <1>2, <2>1, EmptySeq
<1> QED
  BY <1>2, <1>4, <1>5, <1>6

LEMMA PushCall ==
  ASSUME NEW s \in Seq(Call), s # <<>>, NEW E, NEW A, CallsInv(s, E, A),
         NEW d, CallInv(d, E, A), NEW t, t = Append(s, d)
  PROVE  t \in Seq(Call) /\ CallsInv(t, E, A) /\ t # <<>> /\ t[1] = s[1]
<1>1. Len(s) \in Nat \ {0} /\ DOMAIN s = 1..Len(s)
  BY InnerFacts
<1>2. d \in Call
  BY DEF CallInv
<1>3. /\ t \in Seq(Call) /\ Len(t) = Len(s) + 1 /\ DOMAIN t = 1..(Len(s) + 1)
      /\ \A i \in 1..Len(s) : t[i] = s[i]
      /\ t[Len(s) + 1] = d
  BY <1>1, <1>2, AppendProperties, LenProperties
<1>4. CallsInv(t, E, A)
  <2>1. \A i \in 1..(Len(s) + 1) : i \in 1..Len(s) \/ i = Len(s) + 1
    BY <1>1
  <2> QED
    BY <1>1, <1>3, <2>1 DEF CallsInv
<1>5. t # <<>> /\ t[1] = s[1]
  BY <1>1, <1>3, EmptySeq
<1> QED
  BY <1>3, <1>4, <1>5

\* The part of the type invariant about calls follows from CallsInv.
LEMMA CallsType ==
  ASSUME NEW s \in Seq(Call), NEW E, NEW A, CallsInv(s, E, A)
  PROVE  \A i \in DOMAIN s :
           LET c == s[i] IN
           /\ c.pos <= Len(c.plan) => c.step <= Len(StepsOf(c)) + 1
           /\ c.pos > Len(c.plan) => c.pos = Len(c.plan) + 1 /\ c.step = 0
           /\ c.running => c.step \in 1..Len(StepsOf(c))
BY DEF CallsInv, CallInv, InBounds

\* The innermost call becomes d, and what was executed grows.
LEMMA BecomesStep ==
  ASSUME IInv, Open, NEW d, Becomes(d), d.plan = Inner.plan,
         CallInv(d, Elements(tasks_executed'), actions_executed'),
         tasks_executed' \in Seq(Task), actions_executed' \in SUBSET Callable,
         Elements(tasks_executed) \subseteq Elements(tasks_executed'),
         actions_executed \subseteq actions_executed',
         current_task' \in Task \cup {NoTask},
         UNCHANGED <<request, current_plan, made, result>>
  PROVE  IInv'
<1>1. PICK E, A : E = Elements(tasks_executed') /\ A = actions_executed'
  OBVIOUS
<1>2. calls \in Seq(Call) /\ calls # <<>>
  BY DEF IInv, TypeOK, Open
<1>3. CallsInv(calls, E, A)
  BY <1>1, CallsMonotone DEF IInv
<1>4. /\ calls' \in Seq(Call) /\ calls' # <<>> /\ calls'[1].plan = calls[1].plan
      /\ CallsInv(calls', E, A)
  BY <1>1, <1>2, <1>3, ReplaceInner DEF Becomes, Inner
<1>5. TypeOK'
  BY <1>4, CallsType DEF IInv, TypeOK
<1>6. RootInv(calls)'
  BY <1>2, <1>4 DEF IInv, RootInv
<1> QED
  BY <1>1, <1>2, <1>4, <1>5, <1>6 DEF IInv

\* The innermost call is left, and nothing else changes but the result.
LEMMA LeaveStep ==
  ASSUME IInv, Open, NEW how \in {"succeeded", "failed", "interrupted"}, Leave(how),
         how = "succeeded" /\ Len(calls) = 1 =>
           Elements(PlanOf[request]) \subseteq Elements(tasks_executed),
         UNCHANGED <<request, current_task, current_plan, tasks_executed, actions_executed, made>>
  PROVE  IInv'
<1>1. PICK E, A : E = Elements(tasks_executed) /\ A = actions_executed
  OBVIOUS
<1>2. calls \in Seq(Call) /\ calls # <<>> /\ CallsInv(calls, E, A)
  BY <1>1 DEF IInv, TypeOK, Open
<1>3. /\ calls' \in Seq(Call) /\ CallsInv(calls', E, A)
      /\ Len(calls) = 1 => calls' = <<>>
      /\ Len(calls) # 1 => calls' # <<>> /\ calls'[1] = calls[1]
  BY <1>2, PopInner DEF Leave, Outer
<1>4. TypeOK'
  BY <1>3, CallsType DEF IInv, TypeOK, Leave
<1>5. RootInv(calls)'
  BY <1>2, <1>3 DEF IInv, RootInv, Leave
<1>6. result' = "succeeded" => Elements(PlanOf[request]) \subseteq Elements(tasks_executed)
  BY DEF IInv, Leave
<1> QED
  BY <1>1, <1>3, <1>4, <1>5, <1>6 DEF IInv

\* A running callable calls the reactor.
LEMMA EnterStep ==
  ASSUME IInv, NEW d, Enter(d), current_plan' \in Seq(Task),
         CallInv(d, Elements(tasks_executed), actions_executed)
  PROVE  IInv'
<1>1. PICK E, A : E = Elements(tasks_executed) /\ A = actions_executed
  OBVIOUS
<1>2. calls \in Seq(Call) /\ calls # <<>> /\ CallsInv(calls, E, A)
  BY <1>1 DEF IInv, TypeOK, Enter, Running, Open
<1>3. calls' \in Seq(Call) /\ CallsInv(calls', E, A) /\ calls' # <<>> /\ calls'[1] = calls[1]
  BY <1>1, <1>2, PushCall DEF Enter
<1>4. made' \in 0..MaxCalls
  BY TaskExecutionAssumption DEF IInv, TypeOK, Enter
<1>5. TypeOK'
  BY <1>3, <1>4, CallsType DEF IInv, TypeOK, Enter
<1>6. RootInv(calls)'
  BY <1>2, <1>3 DEF IInv, RootInv, Enter
<1> QED
  BY <1>1, <1>3, <1>5, <1>6 DEF IInv, Enter

----------------------------------------------------------------------------
(* What each step makes of the innermost call. These lemmas are about two   *)
(* records, the call before and after, and sets E and A of what is executed *)

\* The call stays at its task.
LEMMA SamePlace ==
  ASSUME NEW c, NEW d, NEW E, NEW A,
         d.plan = c.plan, d.pos = c.pos, d.kind = c.kind, d.bodies = c.bodies
  PROVE  /\ TaskOf(d) = TaskOf(c) /\ StepsOf(d) = StepsOf(c)
         /\ Ordered(c, E) => Ordered(d, E)
         /\ Passed(c, E) => Passed(d, E)
         /\ \A s : NotDueIn(d, s, A) <=> NotDueIn(c, s, A)
BY DEF TaskOf, StepsOf, Ordered, Passed, NotDueIn

LEMMA TaskBegun ==
  ASSUME NEW c, NEW E, NEW A, CallInv(c, E, A), ~ InTask(c), c.pos <= Len(c.plan),
         NEW d, d = [c EXCEPT !.step = 1, !.error = 0, !.began = {}, !.failures = <<>>]
  PROVE  CallInv(d, E, A) /\ d.plan = c.plan /\ TaskOf(c) \in Task
<1>1. c \in Call /\ InBounds(c) /\ Ordered(c, E) /\ Passed(c, E)
  BY DEF CallInv
<1>2. d \in Call
  <2>1. <<>> \in Seq(Nat)
    BY EmptySeq
  <2> QED
    BY <1>1, <2>1 DEF Call
<1>3. /\ d.plan = c.plan /\ d.pos = c.pos /\ d.kind = c.kind /\ d.bodies = c.bodies
      /\ d.running = c.running /\ d.step = 1 /\ d.error = 0 /\ d.began = {} /\ d.failures = <<>>
  BY <1>1 DEF Call
<1>4. /\ StepsOf(d) = StepsOf(c) /\ Ordered(d, E) /\ Passed(d, E)
  BY <1>1, <1>3, SamePlace
<1>5. ~ c.running /\ Len(StepsOf(c)) \in Nat /\ TaskOf(c) \in Task /\ Len(c.plan) \in Nat
      /\ c.pos \in Nat
  BY <1>1, StepFacts
<1>6. InBounds(d)
  BY <1>3, <1>4, <1>5 DEF InBounds
<1>7. Accounted(d, A)
  BY <1>3 DEF Accounted
<1>8. Contained(d)
  BY <1>3, <1>5 DEF Contained
<1> QED
  BY <1>2, <1>3, <1>4, <1>5, <1>6, <1>7, <1>8 DEF CallInv

LEMMA StepSkipped ==
  ASSUME NEW c, NEW E, NEW A, CallInv(c, E, A),
         InTask(c), ~ c.running, c.step <= Len(StepsOf(c)),
         \/ NotDueIn(c, StepsOf(c)[c.step], A)
         \/ c.error # 0 /\ ~ IsTeardown(StepsOf(c)[c.step]),
         NEW d, d = [c EXCEPT !.step = @ + 1]
  PROVE  CallInv(d, E, A) /\ d.plan = c.plan
<1>1. c \in Call /\ InBounds(c) /\ Ordered(c, E) /\ Passed(c, E) /\ Accounted(c, A) /\ Contained(c)
  BY DEF CallInv
<1>2. c.step \in Nat \ {0} /\ c.error \in Nat /\ Len(StepsOf(c)) \in Nat /\ c.pos <= Len(c.plan)
      /\ c.pos \in Nat /\ Len(c.plan) \in Nat
  BY <1>1, StepFacts DEF InTask
<1>3. d \in Call
  <2>1. c.step + 1 \in Nat
    BY <1>2
  <2> QED
    BY <1>1, <2>1 DEF Call
<1>4. /\ d.plan = c.plan /\ d.pos = c.pos /\ d.kind = c.kind /\ d.bodies = c.bodies
      /\ d.running = c.running /\ d.step = c.step + 1 /\ d.error = c.error
      /\ d.began = c.began /\ d.failures = c.failures
  BY <1>1 DEF Call
<1>5. /\ StepsOf(d) = StepsOf(c) /\ Ordered(d, E) /\ Passed(d, E)
      /\ \A s : NotDueIn(d, s, A) <=> NotDueIn(c, s, A)
  BY <1>1, <1>4, SamePlace
<1>6. InBounds(d)
  BY <1>2, <1>4, <1>5 DEF InBounds
<1>7. Accounted(d, A)
  <2> SUFFICES ASSUME NEW k \in 1..c.step
               PROVE  \/ k \in c.began
                      \/ NotDueIn(c, StepsOf(c)[k], A)
                      \/ c.error # 0 /\ ~ IsTeardown(StepsOf(c)[k])
    <3>1. d.step - 1 = c.step
      BY <1>2, <1>4
    <3> QED
      BY <1>4, <1>5, <3>1 DEF Accounted
  <2>1. k = c.step \/ k \in 1..(c.step - 1)
    BY <1>2
  <2> QED
    BY <1>1, <2>1 DEF Accounted
<1>8. Contained(d)
  <2>1. c.error < c.step /\ \A k \in c.began : k <= c.step
    BY <1>1 DEF Contained
  <2>2. d.error < d.step
    BY <1>2, <1>4, <2>1
  <2>3. \A k \in d.began : k <= d.step
    <3>1. \A k \in c.began : k \in Nat
      BY <1>1 DEF Call
    <3> QED
      BY <1>2, <1>4, <2>1, <3>1
  <2> QED
    BY <1>1, <1>4, <1>5, <2>2, <2>3 DEF Contained
<1> QED
  BY <1>3, <1>4, <1>5, <1>6, <1>7, <1>8 DEF CallInv

LEMMA StepStarted ==
  ASSUME NEW c, NEW E, NEW A, CallInv(c, E, A),
         InTask(c), ~ c.running, c.step <= Len(StepsOf(c)),
         c.error # 0 => IsTeardown(StepsOf(c)[c.step]),
         NEW d, d = [c EXCEPT !.running = TRUE, !.began = @ \cup {c.step}]
  PROVE  CallInv(d, E, A) /\ d.plan = c.plan
<1>1. c \in Call /\ InBounds(c) /\ Ordered(c, E) /\ Passed(c, E) /\ Accounted(c, A) /\ Contained(c)
  BY DEF CallInv
<1>2. c.step \in Nat \ {0} /\ c.error \in Nat /\ Len(StepsOf(c)) \in Nat /\ c.pos <= Len(c.plan)
      /\ c.pos \in Nat /\ Len(c.plan) \in Nat
  BY <1>1, StepFacts DEF InTask
<1>3. d \in Call
  BY <1>1, <1>2 DEF Call
<1>4. /\ d.plan = c.plan /\ d.pos = c.pos /\ d.kind = c.kind /\ d.bodies = c.bodies
      /\ d.running = TRUE /\ d.step = c.step /\ d.error = c.error
      /\ d.began = c.began \cup {c.step} /\ d.failures = c.failures
  BY <1>1 DEF Call
<1>5. /\ StepsOf(d) = StepsOf(c) /\ Ordered(d, E) /\ Passed(d, E)
      /\ \A s : NotDueIn(d, s, A) <=> NotDueIn(c, s, A)
  BY <1>1, <1>4, SamePlace
<1>6. InBounds(d)
  BY <1>2, <1>4, <1>5 DEF InBounds
<1>7. Accounted(d, A)
  BY <1>1, <1>4, <1>5 DEF Accounted
<1>8. Contained(d)
  <2>1. \A k \in d.began : k <= d.step
    BY <1>1, <1>2, <1>4 DEF Contained
  <2>2. d.error # 0 => \A k \in d.began : k > d.error => IsTeardown(StepsOf(d)[k])
    BY <1>1, <1>4, <1>5 DEF Contained
  <2> QED
    BY <1>1, <1>4, <2>1, <2>2 DEF Contained
<1> QED
  BY <1>3, <1>4, <1>5, <1>6, <1>7, <1>8 DEF CallInv

\* A callable is over: with or without an error of its own.
LEMMA StepOver ==
  ASSUME NEW c, NEW E, NEW A, CallInv(c, E, A), c.running,
         NEW d, NEW error, NEW failures,
         d = [c EXCEPT !.running = FALSE, !.step = @ + 1, !.error = error, !.failures = failures],
         \/ error = c.error /\ failures = c.failures
         \/ /\ error = IF c.error = 0 THEN c.step ELSE c.error
            /\ failures = Append(c.failures, c.step)
  PROVE  CallInv(d, E, A) /\ d.plan = c.plan
<1>1. c \in Call /\ InBounds(c) /\ Ordered(c, E) /\ Passed(c, E)
  BY DEF CallInv
<1>2. InTask(c)
  BY <1>1, StepFacts
<1>3. Accounted(c, A) /\ Contained(c)
  BY <1>2 DEF CallInv
<1>4. c.step \in Nat \ {0} /\ c.error \in Nat /\ Len(StepsOf(c)) \in Nat /\ c.pos <= Len(c.plan)
      /\ c.pos \in Nat /\ Len(c.plan) \in Nat
  BY <1>1, <1>2, StepFacts DEF InTask
<1>5. c.failures \in Seq(Nat) /\ c.began \in SUBSET Nat
  BY <1>1 DEF Call
<1>6. failures \in Seq(Nat) /\ error \in Nat /\ c.step + 1 \in Nat
  <2>1. Append(c.failures, c.step) \in Seq(Nat)
    BY <1>4, <1>5, AppendProperties
  <2>2. c.step \in Nat /\ c.step + 1 \in Nat
    BY <1>4
  <2> QED
    BY <1>4, <1>5, <2>1, <2>2
<1>7. d \in Call
  BY <1>1, <1>6 DEF Call
<1>8. /\ d.plan = c.plan /\ d.pos = c.pos /\ d.kind = c.kind /\ d.bodies = c.bodies
      /\ d.running = FALSE /\ d.step = c.step + 1 /\ d.error = error
      /\ d.began = c.began /\ d.failures = failures
  BY <1>1 DEF Call
<1>9. /\ StepsOf(d) = StepsOf(c) /\ Ordered(d, E) /\ Passed(d, E)
      /\ \A s : NotDueIn(d, s, A) <=> NotDueIn(c, s, A)
  BY <1>1, <1>8, SamePlace
<1>10. c.step <= Len(StepsOf(c))
  BY <1>1, <1>4 DEF InBounds
<1>11. InBounds(d)
  BY <1>4, <1>8, <1>9, <1>10 DEF InBounds
<1>12. c.error # 0 => error # 0
  OBVIOUS
<1>13. Accounted(d, A)
  <2> SUFFICES ASSUME NEW k \in 1..c.step
               PROVE  \/ k \in c.began
                      \/ NotDueIn(c, StepsOf(c)[k], A)
                      \/ error # 0 /\ ~ IsTeardown(StepsOf(c)[k])
    <3>1. d.step - 1 = c.step
      BY <1>4, <1>8
    <3> QED
      BY <1>8, <1>9, <3>1 DEF Accounted
  <2>1. k = c.step \/ k \in 1..(c.step - 1)
    BY <1>4
  <2> QED
    BY <1>3, <1>12, <2>1 DEF Accounted, Contained
<1>14. Contained(d)
  <2>1. c.error < c.step /\ (\A k \in c.began : k <= c.step)
        /\ c.error = (IF c.failures = <<>> THEN 0 ELSE c.failures[1])
        /\ (c.error # 0 => \A k \in c.began : k > c.error => IsTeardown(StepsOf(c)[k]))
    BY <1>3 DEF Contained
  <2>2. \A k \in d.began : k <= d.step
    BY <1>4, <1>5, <1>8, <2>1
  <2>3. error < d.step
    BY <1>4, <1>8, <2>1
  <2>4. error # 0 => \A k \in d.began : k > error => IsTeardown(StepsOf(d)[k])
    <3>1. CASE error = c.error
      BY <1>8, <1>9, <2>1, <3>1
    <3>2. CASE error = c.step
      <4>1. \A k \in c.began : ~ (k > c.step)
        BY <1>4, <1>5, <2>1
      <4> QED
        BY <1>8, <3>2, <4>1
    <3> QED
      BY <3>1, <3>2
  <2>5. error = IF failures = <<>> THEN 0 ELSE failures[1]
    <3>1. CASE failures = c.failures /\ error = c.error
      BY <2>1, <3>1
    <3>2. CASE /\ error = IF c.error = 0 THEN c.step ELSE c.error
               /\ failures = Append(c.failures, c.step)
      <4>1. PICK n : n = Len(c.failures)
        OBVIOUS
      <4>2. n \in Nat /\ Len(failures) = n + 1 /\ failures[n + 1] = c.step
            /\ (\A i \in 1..n : failures[i] = c.failures[i])
            /\ (\A i \in 1..n : c.failures[i] \in Nat)
        BY <1>4, <1>5, <3>2, <4>1, AppendProperties, LenProperties
      <4>3. failures # <<>>
        BY <1>6, <4>2, EmptySeq
      <4>4. CASE c.failures = <<>>
        <5>1. n = 0
          BY <4>1, <4>4, EmptySeq
        <5> QED
          BY <2>1, <3>2, <4>2, <4>3, <4>4, <5>1
      <4>5. CASE c.failures # <<>>
        <5>1. n # 0
          BY <1>5, <4>1, <4>5, EmptySeq
        <5>2. 1 \in 1..n
          BY <4>2, <5>1
        <5>3. failures[1] = c.error
          BY <2>1, <4>2, <4>5, <5>2
        <5>4. c.error # 0
          BY <1>3, <4>5 DEF Contained
        <5> QED
          BY <3>2, <4>3, <5>3, <5>4
      <4> QED
        BY <4>4, <4>5
    <3> QED
      BY <3>1, <3>2
  <2>6. failures # <<>> => error # 0
    <3>1. c.failures # <<>> => c.error # 0
      BY <1>3 DEF Contained
    <3>2. c.step # 0
      BY <1>4
    <3> QED
      BY <3>1, <3>2
  <2> QED
    BY <1>8, <2>2, <2>3, <2>4, <2>5, <2>6 DEF Contained
<1> QED
  BY <1>7, <1>8, <1>9, <1>11, <1>13, <1>14 DEF CallInv

LEMMA TaskOver ==
  ASSUME NEW c, NEW E, NEW A, CallInv(c, E, A),
         InTask(c), ~ c.running, TaskOf(c) \in E,
         NEW d, d = [c EXCEPT !.step = 0, !.pos = @ + 1]
  PROVE  CallInv(d, E, A) /\ d.plan = c.plan
<1>1. c \in Call /\ InBounds(c) /\ Ordered(c, E) /\ Passed(c, E)
  BY DEF CallInv
<1>2. /\ Len(c.plan) \in Nat /\ c.pos \in Nat \ {0} /\ c.pos <= Len(c.plan)
      /\ TaskOf(c) = c.plan[c.pos] /\ c.pos + 1 \in Nat \ {0}
  BY <1>1, StepFacts
<1>3. d \in Call
  BY <1>1, <1>2 DEF Call
<1>4. /\ d.plan = c.plan /\ d.pos = c.pos + 1 /\ d.kind = c.kind
      /\ d.running = c.running /\ d.step = 0
  BY <1>1 DEF Call
<1>5. Ordered(d, E)
  BY <1>1, <1>4 DEF Ordered
<1>6. Passed(d, E)
  <2>1. \A k \in 1..(d.pos - 1) : k = c.pos \/ k \in 1..(c.pos - 1)
    BY <1>2, <1>4
  <2> QED
    BY <1>1, <1>2, <1>4, <2>1 DEF Passed
<1>7. InBounds(d)
  <2>1. d.pos <= Len(d.plan) =>
          /\ StepsOf(d) \in Seq(Step) /\ Len(StepsOf(d)) \in Nat
    <3> SUFFICES ASSUME d.pos <= Len(d.plan)
                 PROVE  StepsOf(d) \in Seq(Step) /\ Len(StepsOf(d)) \in Nat
      OBVIOUS
    <3>1. d.plan \in Seq(Task) /\ d.pos \in DOMAIN d.plan
      BY <1>1, <1>2, <1>4 DEF Call
    <3>2. d.plan[d.pos] \in Task
      BY <3>1
    <3>3. StepsOf(d) \in Seq(Step)
      BY <3>2, TaskExecutionAssumption DEF StepsOf, TaskOf
    <3> QED
      BY <3>3, LenProperties
  <2>2. d.pos > Len(d.plan) => d.pos = Len(d.plan) + 1
    BY <1>2, <1>4
  <2> QED
    BY <1>4, <2>1, <2>2 DEF InBounds
<1> QED
  BY <1>3, <1>4, <1>5, <1>6, <1>7 DEF CallInv, InTask

\* A call that begins owes nothing but a plan in the right order.
LEMMA CallBegun ==
  ASSUME NEW kind \in {"plan", "shortest", "task"}, NEW r \in Seq(Task),
         NEW plan \in Seq(Task), NEW bodies \in SUBSET Callable, NEW E, NEW A,
         NEW d, d = NewCall(kind, r, plan, bodies), Ordered(d, E)
  PROVE  CallInv(d, E, A)
<1>1. <<>> \in Seq(Nat)
  BY EmptySeq
<1>2. d \in Call
  BY <1>1 DEF NewCall, Call
<1>3. d.plan = plan /\ d.pos = 1 /\ d.step = 0 /\ d.running = FALSE
  BY DEF NewCall
<1>4. Passed(d, E) /\ ~ InTask(d)
  BY <1>3 DEF Passed, InTask
<1>5. Len(plan) \in Nat /\ DOMAIN plan = 1..Len(plan)
  BY LenProperties
<1>6. InBounds(d)
  <2>1. ASSUME 1 <= Len(plan) PROVE Len(StepsOf(d)) \in Nat
    <3>1. plan[1] \in Task
      BY <1>5, <2>1
    <3>2. StepsOf(d) \in Seq(Step)
      BY <1>3, <3>1, TaskExecutionAssumption DEF StepsOf, TaskOf
    <3> QED
      BY <3>2, LenProperties
  <2> QED
    BY <1>3, <1>5, <2>1 DEF InBounds
<1> QED
  BY <1>2, <1>4, <1>6 DEF CallInv

\* What ExecutionPlan shows of a plan, for the requests of this build.
LEMMA PlanFacts ==
  ASSUME NEW r \in Requests
  PROVE  /\ r \in Seq(Task) /\ PlanOf[r] \in Seq(Task)
         /\ DOMAIN PlanOf[r] = 1..Len(PlanOf[r]) /\ Len(PlanOf[r]) \in Nat
         /\ \A i \in DOMAIN PlanOf[r] : \A u \in Prerequisites(Build, PlanOf[r][i]) :
              \E j \in 1..(i - 1) : PlanOf[r][j] = u
         /\ Elements(PlanOf[r]) = Wanted(For(r))
<1>1. r \in Seq(Task) /\ PlanOf[r] \in Seq(Task) /\ RightPlan(For(r), PlanOf[r])
  BY TaskExecutionAssumption
<1>2. DOMAIN PlanOf[r] = 1..Len(PlanOf[r]) /\ Len(PlanOf[r]) \in Nat
  BY <1>1, LenProperties
<1> QED
  BY <1>1, <1>2, SamePrerequisites DEF RightPlan

LEMMA WholePlanOrdered ==
  ASSUME NEW r \in Requests, NEW E, NEW A
  PROVE  CallInv(NewCall("plan", r, PlanOf[r], Callable), E, A)
<1>1. PICK p : p = PlanOf[r]
  OBVIOUS
<1>2. /\ p \in Seq(Task) /\ r \in Seq(Task)
      /\ \A i \in DOMAIN p : \A u \in Prerequisites(Build, p[i]) : \E j \in 1..(i - 1) : p[j] = u
  BY <1>1, PlanFacts
<1>3. PICK d : d = NewCall("plan", r, p, Callable)
  OBVIOUS
<1>4. d.plan = p
  BY <1>3 DEF NewCall
<1>5. Ordered(d, E)
  BY <1>2, <1>4 DEF Ordered
<1> QED
  BY <1>1, <1>2, <1>3, <1>5, CallBegun

\* The tasks build_shortest_execution_plan drops were all executed.
LEMMA ShortestPlanOrdered ==
  ASSUME NEW r \in Requests, NEW n \in 0..Len(PlanOf[r]), Dropped(r, n), NEW A
  PROVE  /\ Shortest(r, n) \in Seq(Task)
         /\ CallInv(NewCall("shortest", r, Shortest(r, n), Callable),
                    Elements(tasks_executed), A)
<1>1. PICK p, m : p = PlanOf[r] /\ m = Len(PlanOf[r])
  OBVIOUS
<1>2. p \in Seq(Task) /\ m \in Nat /\ DOMAIN p = 1..m /\ n \in 0..m
  BY <1>1, PlanFacts
<1>3. PICK q : q = Shortest(r, n)
  OBVIOUS
<1>4. /\ q \in Seq(Task)
      /\ Len(q) = IF n + 1 <= m THEN m - (n + 1) + 1 ELSE 0
      /\ \A i \in 1..(m - (n + 1) + 1) : q[i] = p[n + 1 + i - 1]
  <2>1. \A i \in (n + 1)..m : p[i] \in Task
    BY <1>2
  <2>2. q = SubSeq(p, n + 1, m)
    BY <1>1, <1>3 DEF Shortest
  <2>3. n + 1 \in Int /\ m \in Int
    BY <1>2
  <2> QED
    BY <2>1, <2>2, <2>3, SubSeqProperties
<1>5. Len(q) = m - n /\ DOMAIN q = 1..(m - n) /\ \A i \in 1..(m - n) : q[i] = p[n + i]
  <2>1. Len(q) = m - n
    BY <1>2, <1>4
  <2>2. DOMAIN q = 1..(m - n)
    BY <1>4, <2>1, LenProperties
  <2>3. \A i \in 1..(m - n) : i \in 1..(m - (n + 1) + 1) /\ n + 1 + i - 1 = n + i
    BY <1>2
  <2> QED
    BY <1>4, <2>1, <2>2, <2>3
<1>6. \A k \in 1..n : p[k] \in Elements(tasks_executed)
  BY <1>1 DEF Dropped, Droppable, Elements
<1>7. PICK d : d = NewCall("shortest", r, q, Callable)
  OBVIOUS
<1>8. d.plan = q
  BY <1>7 DEF NewCall
<1>9. Ordered(d, Elements(tasks_executed))
  <2> SUFFICES ASSUME NEW j \in 1..(m - n), NEW u \in Prerequisites(Build, q[j])
               PROVE  u \in Elements(tasks_executed) \/ \E k \in 1..(j - 1) : q[k] = u
    BY <1>5, <1>8 DEF Ordered
  <2>1. q[j] = p[n + j] /\ n + j \in DOMAIN p
    BY <1>2, <1>5
  <2>0. \A x \in DOMAIN p : \A v \in Prerequisites(Build, p[x]) :
          \E i \in 1..(x - 1) : p[i] = v
    BY <1>1, PlanFacts
  <2>2. PICK i \in 1..(n + j - 1) : p[i] = u
    BY <2>0, <2>1
  <2>3. CASE i <= n
    <3>1. i \in 1..n
      BY <1>2, <2>3
    <3> QED
      BY <1>6, <2>2, <3>1
  <2>4. CASE i > n
    <3>1. i - n \in 1..(j - 1) /\ i - n \in 1..(m - n) /\ n + (i - n) = i
      BY <1>2, <2>4
    <3>2. q[i - n] = u
      BY <1>5, <2>2, <3>1
    <3> QED
      BY <3>1, <3>2
  <2> QED
    BY <1>2, <2>3, <2>4
<1> QED
  BY <1>3, <1>4, <1>7, <1>9, PlanFacts, CallBegun

LEMMA OneExecutable ==
  ASSUME NEW t \in Task, NEW k \in DOMAIN Steps[t], NEW E, NEW A
  PROVE  CallInv(NewCall("task", <<t>>, <<t>>, {Steps[t][k].callable}), E, A)
<1>1. PICK d, b : d = NewCall("task", <<t>>, <<t>>, b) /\ b = {Steps[t][k].callable}
  OBVIOUS
<1>2. Steps[t] \in Seq(Step)
  BY TaskExecutionAssumption
<1>3. Steps[t][k] \in Step
  BY <1>2
<1>4. b \in SUBSET Callable
  BY <1>1, <1>3 DEF Step
<1>5. <<t>> \in Seq(Task)
  OBVIOUS
<1>6. Ordered(d, E)
  BY <1>1 DEF Ordered, NewCall
<1> QED
  BY <1>1, <1>4, <1>5, <1>6, CallBegun

----------------------------------------------------------------------------
(* The initial states and the steps *)

LEMMA InitIInv == Init => IInv
<1> SUFFICES ASSUME Init PROVE IInv
  OBVIOUS
<1> USE DEF Init
<1>1. PICK d : d = NewCall("plan", request, PlanOf[request], Callable)
  OBVIOUS
<1>2. CallInv(d, Elements(tasks_executed), actions_executed) /\ d.plan = PlanOf[request]
  BY <1>1, WholePlanOrdered DEF NewCall
<1>3. d \in Call /\ calls = <<d>>
  BY <1>1, <1>2 DEF CallInv
<1>4. calls \in Seq(Call) /\ DOMAIN calls = {1} /\ calls[1] = d
  BY <1>3
<1>5. CallsInv(calls, Elements(tasks_executed), actions_executed)
  BY <1>2, <1>4 DEF CallsInv
<1>6. /\ current_plan \in Seq(Task) /\ tasks_executed \in Seq(Task) /\ made \in 0..MaxCalls
  BY PlanFacts, EmptySeq, TaskExecutionAssumption
<1>7. TypeOK
  BY <1>4, <1>5, <1>6, CallsType DEF TypeOK
<1>8. RootInv(calls)
  BY <1>2, <1>4 DEF RootInv
<1> QED
  BY <1>5, <1>7, <1>8 DEF IInv

\* The innermost call as every step finds it.
LEMMA Now ==
  ASSUME IInv, Open
  PROVE  /\ calls \in Seq(Call) /\ calls # <<>> /\ Inner \in Call
         /\ Len(calls) \in Nat \ {0}
         /\ CallInv(Inner, Elements(tasks_executed), actions_executed)
         /\ InBounds(Inner)
         /\ tasks_executed \in Seq(Task) /\ actions_executed \in SUBSET Callable
         /\ current_task \in Task \cup {NoTask}
<1>1. calls \in Seq(Call) /\ calls # <<>>
      /\ CallsInv(calls, Elements(tasks_executed), actions_executed)
  BY DEF IInv, TypeOK, Open
<1>2. /\ Len(calls) \in Nat \ {0} /\ Inner \in Call
      /\ CallInv(Inner, Elements(tasks_executed), actions_executed)
  BY <1>1, InnerFacts DEF Inner
<1> QED
  BY <1>1, <1>2 DEF CallInv, IInv, TypeOK

LEMMA NotDueNow ==
  ASSUME NEW c, NEW s
  PROVE  NotDue(c, s) <=> NotDueIn(c, s, actions_executed)
BY DEF NotDue, NotDueIn

LEMMA BeginTaskStep ==
  ASSUME IInv, BeginTask
  PROVE  IInv'
<1>1. Open /\ ~ InTask(Inner) /\ Inner.pos <= Len(Inner.plan)
  BY DEF BeginTask
<1>2. PICK d : d = [Inner EXCEPT !.step = 1, !.error = 0, !.began = {}, !.failures = <<>>]
  OBVIOUS
<1>3. CallInv(d, Elements(tasks_executed), actions_executed) /\ d.plan = Inner.plan
      /\ TaskOf(Inner) \in Task
  BY <1>1, <1>2, Now, TaskBegun
<1>4. Becomes(d)
  BY <1>2 DEF BeginTask
<1> QED
  BY <1>1, <1>3, <1>4, Now, BecomesStep DEF BeginTask

LEMMA SkipStepStep ==
  ASSUME IInv, SkipStep
  PROVE  IInv'
<1>1. Open /\ InTask(Inner) /\ ~ Inner.running /\ Inner.step <= Len(StepsOf(Inner))
  BY DEF SkipStep, BetweenSteps
<1>2. \/ NotDueIn(Inner, StepsOf(Inner)[Inner.step], actions_executed)
      \/ Inner.error # 0 /\ ~ IsTeardown(StepsOf(Inner)[Inner.step])
  BY NotDueNow DEF SkipStep, Skipped
<1>3. PICK d : d = [Inner EXCEPT !.step = @ + 1]
  OBVIOUS
<1>4. CallInv(d, Elements(tasks_executed), actions_executed) /\ d.plan = Inner.plan
  BY <1>1, <1>2, <1>3, Now, StepSkipped
<1>5. Becomes(d)
  BY <1>3 DEF SkipStep
<1> QED
  BY <1>1, <1>4, <1>5, Now, BecomesStep DEF SkipStep

LEMMA StartStepStep ==
  ASSUME IInv, StartStep
  PROVE  IInv'
<1>1. Open /\ InTask(Inner) /\ ~ Inner.running /\ Inner.step <= Len(StepsOf(Inner))
  BY DEF StartStep, BetweenSteps
<1>2. Inner.error # 0 => IsTeardown(StepsOf(Inner)[Inner.step])
  BY DEF StartStep, Skipped
<1>3. PICK d : d = [Inner EXCEPT !.running = TRUE, !.began = @ \cup {Inner.step}]
  OBVIOUS
<1>4. CallInv(d, Elements(tasks_executed), actions_executed) /\ d.plan = Inner.plan
  BY <1>1, <1>2, <1>3, Now, StepStarted
<1>5. Becomes(d)
  BY <1>3 DEF StartStep
<1> QED
  BY <1>1, <1>4, <1>5, Now, BecomesStep DEF StartStep

LEMMA CallableReturnsStep ==
  ASSUME IInv, CallableReturns
  PROVE  IInv'
<1>1. Open /\ Inner.running
  BY DEF CallableReturns, Running
<1>2. PICK d : d = [Inner EXCEPT !.running = FALSE, !.step = @ + 1,
                                 !.error = Inner.error, !.failures = Inner.failures]
  OBVIOUS
<1>3. d = [Inner EXCEPT !.running = FALSE, !.step = @ + 1]
  BY <1>1, <1>2, Now DEF Call
<1>4. PICK E : E = Elements(tasks_executed)
  OBVIOUS
<1>5. CallInv(d, E, actions_executed) /\ d.plan = Inner.plan
  BY <1>1, <1>2, <1>4, Now, StepOver
<1>6. Becomes(d)
  BY <1>3 DEF CallableReturns
<1>7. /\ actions_executed \subseteq actions_executed'
      /\ actions_executed' \in SUBSET Callable
  <2>1. /\ StepsOf(Inner) \in Seq(Step)
        /\ Inner.step \in DOMAIN StepsOf(Inner)
    <3>1. Inner.pos <= Len(Inner.plan)
      BY <1>1, Now, StepFacts
    <3>2. DOMAIN StepsOf(Inner) = 1..Len(StepsOf(Inner)) /\ StepsOf(Inner) \in Seq(Step)
      BY <1>1, <3>1, Now, StepFacts
    <3> QED
      BY <1>1, <3>2, Now DEF InBounds
  <2>2. RunningStep \in Step
    BY <2>1 DEF RunningStep
  <2>3. RunningStep.callable \in Callable
    BY <2>2 DEF Step
  <2> QED
    BY <1>1, <2>3, Now DEF CallableReturns
<1>8. CallInv(d, E, actions_executed')
  BY <1>5, <1>7, CallMonotone
<1>9. tasks_executed' = tasks_executed /\ current_task' = current_task
      /\ UNCHANGED <<request, current_plan, made, result>>
  BY DEF CallableReturns
<1> QED
  BY <1>1, <1>4, <1>5, <1>6, <1>7, <1>8, <1>9, Now, BecomesStep

LEMMA CallableRaisesStep ==
  ASSUME IInv, CallableRaises
  PROVE  IInv'
<1>1. Open /\ Inner.running
  BY DEF CallableRaises, Running
<1>2. PICK error, failures :
        /\ error = IF Inner.error = 0 THEN Inner.step ELSE Inner.error
        /\ failures = Append(Inner.failures, Inner.step)
  OBVIOUS
<1>3. PICK d : d = [Inner EXCEPT !.running = FALSE, !.step = @ + 1,
                                 !.error = error, !.failures = failures]
  OBVIOUS
<1>4. CallInv(d, Elements(tasks_executed), actions_executed) /\ d.plan = Inner.plan
  BY <1>1, <1>2, <1>3, Now, StepOver
<1>5. Becomes(d)
  <2>1. d = [Inner EXCEPT !.running = FALSE, !.step = @ + 1,
                          !.error = IF @ = 0 THEN Inner.step ELSE @,
                          !.failures = Append(@, Inner.step)]
    BY <1>1, <1>2, <1>3, Now DEF Call
  <2> QED
    BY <2>1 DEF CallableRaises
<1> QED
  BY <1>1, <1>4, <1>5, Now, BecomesStep DEF CallableRaises

LEMMA TaskSucceedsStep ==
  ASSUME IInv, TaskSucceeds
  PROVE  IInv'
<1>1. Open /\ InTask(Inner) /\ Inner.step > Len(StepsOf(Inner))
  BY DEF TaskSucceeds, StepsOver
<1>2. PICK t : t = TaskOf(Inner)
  OBVIOUS
<1>3. t \in Task /\ ~ Inner.running
  <2>1. Inner.pos <= Len(Inner.plan)
    BY <1>1, Now, StepFacts
  <2>2. t \in Task /\ Len(StepsOf(Inner)) \in Nat /\ Inner.step \in Nat
    BY <1>1, <1>2, <2>1, Now, StepFacts
  <2> QED
    BY <1>1, <2>2, Now DEF InBounds
<1>4. /\ tasks_executed' \in Seq(Task)
      /\ Elements(tasks_executed') = Elements(tasks_executed) \cup {t}
  <2>1. CASE t \in Elements(tasks_executed)
    BY <1>1, <1>2, <2>1, Now DEF TaskSucceeds
  <2>2. CASE t \notin Elements(tasks_executed)
    <3>1. PICK s : s = tasks_executed
      OBVIOUS
    <3>2. s \in Seq(Task) /\ tasks_executed' = Append(s, t)
      BY <1>1, <1>2, <2>2, <3>1, Now DEF TaskSucceeds
    <3>3. /\ Append(s, t) \in Seq(Task) /\ Len(s) \in Nat /\ DOMAIN s = 1..Len(s)
          /\ DOMAIN Append(s, t) = 1..(Len(s) + 1)
          /\ \A i \in 1..Len(s) : Append(s, t)[i] = s[i]
          /\ Append(s, t)[Len(s) + 1] = t
      BY <1>3, <3>2, AppendProperties, LenProperties
    <3>4. Elements(Append(s, t)) = Elements(s) \cup {t}
      BY <3>3 DEF Elements
    <3> QED
      BY <3>1, <3>2, <3>3, <3>4
  <2> QED
    BY <2>1, <2>2
<1>5. PICK E : E = Elements(tasks_executed')
  OBVIOUS
<1>6. CallInv(Inner, E, actions_executed) /\ t \in E
  BY <1>1, <1>4, <1>5, Now, CallMonotone
<1>7. PICK d : d = [Inner EXCEPT !.step = 0, !.pos = @ + 1]
  OBVIOUS
<1>8. CallInv(d, E, actions_executed) /\ d.plan = Inner.plan
  BY <1>1, <1>2, <1>3, <1>6, <1>7, TaskOver
<1>9. Becomes(d) /\ actions_executed' = actions_executed /\ current_task' = NoTask
      /\ UNCHANGED <<request, current_plan, made, result>>
  BY <1>7 DEF TaskSucceeds
<1> QED
  BY <1>1, <1>4, <1>5, <1>8, <1>9, Now, BecomesStep

LEMMA LeavingStep ==
  ASSUME IInv, CallableRaisesThrough \/ CallableInterrupted \/ TaskRaises \/ PlanReturns
  PROVE  IInv'
<1>1. CASE CallableRaisesThrough \/ CallableInterrupted
  BY <1>1, LeaveStep DEF CallableRaisesThrough, CallableInterrupted, Running
<1>2. CASE TaskRaises
  BY <1>2, LeaveStep DEF TaskRaises, StepsOver
<1>3. CASE PlanReturns
  <2>1. Open /\ Inner.pos > Len(Inner.plan)
    BY <1>3 DEF PlanReturns
  <2>2. ASSUME Len(calls) = 1
        PROVE  Elements(PlanOf[request]) \subseteq Elements(tasks_executed)
    <3>1. Inner.plan = PlanOf[request]
      BY <2>1, <2>2, Now DEF IInv, RootInv, Inner
    <3>2. Passed(Inner, Elements(tasks_executed))
      BY <2>1, Now DEF CallInv
    <3>3. /\ DOMAIN Inner.plan = 1..Len(Inner.plan) /\ Len(Inner.plan) \in Nat
          /\ Inner.pos \in Nat
      BY <2>1, Now, StepFacts
    <3>4. \A k \in DOMAIN Inner.plan : k \in 1..(Inner.pos - 1)
      BY <2>1, <3>3
    <3> QED
      BY <3>1, <3>2, <3>4 DEF Passed, Elements
  <2> QED
    BY <1>3, <2>1, <2>2, LeaveStep DEF PlanReturns
<1> QED
  BY <1>1, <1>2, <1>3

LEMMA CallingStep ==
  ASSUME IInv,
         \/ \E r \in Requests : ExecuteTask(r) \/ ExecuteTaskShortestPlan(r)
         \/ \E t \in Task : \E k \in DOMAIN Steps[t] : ExecuteExecutable(t, k)
  PROVE  IInv'
<1>1. ASSUME NEW r \in Requests, ExecuteTask(r)
      PROVE  IInv'
  BY <1>1, WholePlanOrdered, PlanFacts, EnterStep DEF ExecuteTask
<1>2. ASSUME NEW r \in Requests, ExecuteTaskShortestPlan(r)
      PROVE  IInv'
  <2>1. PICK n \in 0..Len(PlanOf[r]) :
          /\ Dropped(r, n)
          /\ Enter(NewCall("shortest", r, Shortest(r, n), Callable))
          /\ current_plan' = Shortest(r, n)
    BY <1>2 DEF ExecuteTaskShortestPlan
  <2> QED
    BY <2>1, ShortestPlanOrdered, EnterStep
<1>3. ASSUME NEW t \in Task, NEW k \in DOMAIN Steps[t], ExecuteExecutable(t, k)
      PROVE  IInv'
  <2>1. current_plan' \in Seq(Task)
    BY <1>3 DEF ExecuteExecutable, IInv, TypeOK
  <2> QED
    BY <1>3, <2>1, OneExecutable, EnterStep DEF ExecuteExecutable
<1> QED
  BY <1>1, <1>2, <1>3

LEMMA NextIInv == IInv /\ [Next]_vars => IInv'
<1> SUFFICES ASSUME IInv, [Next]_vars PROVE IInv'
  OBVIOUS
<1>1. CASE BeginTask  BY <1>1, BeginTaskStep
<1>2. CASE SkipStep  BY <1>2, SkipStepStep
<1>3. CASE StartStep  BY <1>3, StartStepStep
<1>4. CASE CallableReturns  BY <1>4, CallableReturnsStep
<1>5. CASE CallableRaises  BY <1>5, CallableRaisesStep
<1>6. CASE TaskSucceeds  BY <1>6, TaskSucceedsStep
<1>7. CASE CallableRaisesThrough \/ CallableInterrupted \/ TaskRaises \/ PlanReturns
  BY <1>7, LeavingStep
<1>9. CASE \/ \E r \in Requests : ExecuteTask(r) \/ ExecuteTaskShortestPlan(r)
           \/ \E t \in Task : \E k \in DOMAIN Steps[t] : ExecuteExecutable(t, k)
  BY <1>9, CallingStep
<1>10. CASE Ended \/ UNCHANGED vars
  BY <1>10 DEF Ended, vars, IInv, TypeOK, RootInv
<1> QED
  BY <1>1, <1>2, <1>3, <1>4, <1>5, <1>6, <1>7, <1>9, <1>10 DEF Next

\* The strengthening is an invariant: what every theorem below is read off.
THEOREM Invariance == Spec => []IInv
BY InitIInv, NextIInv, PTL DEF Spec

----------------------------------------------------------------------------
(* The properties *)

\* Every variable has its type, and no loop of execute_task or
\* execute_execution_plan leaves what it ranges over.
THEOREM TypeCorrect == Spec => []TypeOK
<1>1. IInv => TypeOK
  BY DEF IInv
<1> QED
  BY <1>1, Invariance, PTL

LEMMA PrerequisitesHold == IInv => PrerequisitesMet
<1> SUFFICES ASSUME IInv, NEW i \in DOMAIN calls,
                    calls[i].kind # "task", InTask(calls[i]),
                    NEW u \in Prerequisites(Build, TaskOf(calls[i]))
             PROVE  u \in Elements(tasks_executed)
  BY DEF PrerequisitesMet
<1>1. PICK c, E : c = calls[i] /\ E = Elements(tasks_executed)
  OBVIOUS
<1>2. c \in Call /\ InBounds(c) /\ Ordered(c, E) /\ Passed(c, E)
  BY <1>1 DEF IInv, CallsInv, CallInv
<1>3. c.pos \in DOMAIN c.plan /\ TaskOf(c) = c.plan[c.pos] /\ c.pos \in Nat
  BY <1>1, <1>2, StepFacts
<1>4. u \in E \/ \E k \in 1..(c.pos - 1) : c.plan[k] = u
  BY <1>1, <1>2, <1>3 DEF Ordered
<1> QED
  BY <1>1, <1>2, <1>4 DEF Passed

\* A task of a plan runs after its prerequisites, however plans are nested and
\* shortened.
THEOREM PrerequisitesFirst == Spec => []PrerequisitesMet
BY PrerequisitesHold, Invariance, PTL

\* A build that succeeds has executed all that was wanted.
THEOREM SuccessComplete == Spec => []SuccessIsComplete
<1>1. IInv => SuccessIsComplete
  BY PlanFacts DEF IInv, TypeOK, SuccessIsComplete
<1> QED
  BY <1>1, Invariance, PTL

\* After the first error only teardown runs, and that error is the one kept.
THEOREM FailureStaysContained == Spec => []FailureContained
<1>1. IInv => FailureContained
  BY DEF IInv, CallsInv, CallInv, Contained, FailureContained
<1> QED
  BY <1>1, Invariance, PTL

\* When the steps of a task are over, all of them are accounted for.
LEMMA AllAccounted ==
  ASSUME IInv, StepsOver
  PROVE  /\ Contained(Inner)
         /\ \A k \in DOMAIN StepsOf(Inner) :
              \/ k \in Inner.began
              \/ NotDue(Inner, StepsOf(Inner)[k])
              \/ Inner.error # 0 /\ ~ IsTeardown(StepsOf(Inner)[k])
<1>1. Open /\ InTask(Inner) /\ Inner.step > Len(StepsOf(Inner))
  BY DEF StepsOver
<1>2. Accounted(Inner, actions_executed) /\ Contained(Inner)
  BY <1>1, Now DEF CallInv
<1>3. Inner.pos <= Len(Inner.plan)
  BY <1>1, Now, StepFacts
<1>4. /\ DOMAIN StepsOf(Inner) = 1..Len(StepsOf(Inner)) /\ Len(StepsOf(Inner)) \in Nat
      /\ Inner.step \in Nat
  BY <1>1, <1>3, Now, StepFacts
<1>5. \A k \in DOMAIN StepsOf(Inner) : k \in 1..(Inner.step - 1)
  BY <1>1, <1>4
<1> QED
  BY <1>2, <1>5, NotDueNow DEF Accounted

\* An exception leaves execute_task only after the whole teardown of the task.
THEOREM TeardownFirst == Spec => TeardownBeforeRaise
<1>1. IInv /\ [Next]_vars =>
        [Len(calls') < Len(calls) /\ InTask(Inner) /\ ~ CallableInterrupted
           => TeardownRan(Inner)]_vars
  <2> SUFFICES ASSUME IInv, Next, Len(calls') < Len(calls), InTask(Inner),
                      ~ CallableInterrupted
               PROVE  TeardownRan(Inner)
    BY DEF vars
  <2>1. CASE CallableRaisesThrough
    BY <2>1 DEF CallableRaisesThrough, HasTeardown, TeardownRan, StepsOf
  <2>2. CASE TaskRaises
    BY <2>2, AllAccounted DEF TaskRaises, TeardownRan, NotDue, IsTeardown
  <2>3. CASE PlanReturns
    BY <2>3 DEF PlanReturns
  <2>5. CASE BeginTask \/ SkipStep \/ StartStep \/ CallableReturns \/ CallableRaises \/ TaskSucceeds
    <3>1. \E d : Becomes(d)
      BY <2>5 DEF BeginTask, SkipStep, StartStep, CallableReturns, CallableRaises, TaskSucceeds
    <3>2. calls \in Seq(Call)
      BY DEF IInv, TypeOK
    <3>3. Len(calls') = Len(calls) /\ Len(calls) \in Nat
      BY <3>1, <3>2, LenProperties DEF Becomes
    <3> QED
      BY <3>3
  <2>6. CASE \/ \E r \in Requests : ExecuteTask(r) \/ ExecuteTaskShortestPlan(r)
             \/ \E t \in Task : \E k \in DOMAIN Steps[t] : ExecuteExecutable(t, k)
    <3>1. PICK d : calls' = Append(calls, d)
      BY <2>6 DEF ExecuteTask, ExecuteTaskShortestPlan, ExecuteExecutable, Enter
    <3>2. calls \in Seq(Call)
      BY DEF IInv, TypeOK
    <3>3. Len(calls') = Len(calls) + 1 /\ Len(calls) \in Nat
      BY <3>1, <3>2
    <3> QED
      BY <3>3
  <2>7. CASE Ended
    <3>1. calls' = calls /\ calls \in Seq(Call)
      BY <2>7 DEF Ended, vars, IInv, TypeOK
    <3>2. Len(calls) \in Nat
      BY <3>1, LenProperties
    <3> QED
      BY <3>1, <3>2
  <2> QED
    BY <2>1, <2>2, <2>3, <2>5, <2>6, <2>7 DEF Next
<1> QED
  BY <1>1, Invariance, PTL DEF Spec, TeardownBeforeRaise

\* A task that becomes executed was done completely and without an error.
THEOREM ExecutedDone == Spec => ExecutedMeansDone
<1>1. IInv /\ [Next]_vars =>
        [tasks_executed' # tasks_executed =>
           /\ Inner.failures = <<>>
           /\ \A k \in DOMAIN StepsOf(Inner) :
                k \in Inner.began \/ NotDue(Inner, StepsOf(Inner)[k])]_vars
  <2> SUFFICES ASSUME IInv, Next, tasks_executed' # tasks_executed
               PROVE  /\ Inner.failures = <<>>
                      /\ \A k \in DOMAIN StepsOf(Inner) :
                           k \in Inner.began \/ NotDue(Inner, StepsOf(Inner)[k])
    BY DEF vars
  <2>1. TaskSucceeds
    BY DEF Next, BeginTask, SkipStep, StartStep, CallableReturns, CallableRaises,
           CallableRaisesThrough, CallableInterrupted, TaskRaises, PlanReturns,
           ExecuteTask, ExecuteTaskShortestPlan, ExecuteExecutable, Enter, Ended, vars
  <2>2. StepsOver /\ Inner.error = 0
    BY <2>1 DEF TaskSucceeds
  <2> QED
    BY <2>2, AllAccounted DEF Contained
<1> QED
  BY <1>1, Invariance, PTL DEF Spec, ExecutedMeansDone

=============================================================================
