------------------------ MODULE BuildLifecycleProofs ------------------------
(***************************************************************************)
(* For any number of runs in a process, and of initializers, finalizers    *)
(* and environments: what a build executes is in order and without a gap,  *)
(* a zero exit code means that all of it is done, and the imports replaced *)
(* lead back to the interpreter's.                                         *)
(*                                                                         *)
(* The strengthening says of every stage how much is done there, in ranks  *)
(* (Progress), what may have gone wrong before it (Flow), and which        *)
(* reactor the import belongs to (Hooks).                                  *)
(*                                                                         *)
(* The tasks are those asked for (Requested), however many arguments there *)
(* are: what the loops over them compute is shown by induction on how far  *)
(* they have come, as the least counterexample in a set of numbers.        *)
(***************************************************************************)
EXTENDS BuildLifecycle, SequenceTheorems, FiniteSetTheorems, WellFoundedInduction, TLAPS

Count == [initializers |-> Len(registered.initializers),
          finalizers |-> Len(registered.finalizers)]

Preparing == {"directory", "venv", "descriptor", "attributes", "annotations", "resolve"}
Patched == {"descriptor", "attributes", "annotations", "resolve"}
Building == {"initialize", "request", "tasks", "finalize"}

\* TypeOK without the request and its tasks, which Requested is about.
Types ==
  /\ run \in 0..MaxRuns
  /\ outcome \in [Run -> Raised \cup {"none", "success", "failure"}]
  /\ stage \in Preparing \cup Building
               \cup {"idle", "usage", "reactor", "answer", "raised"}
  /\ error \in Raised \cup {"none"}
  /\ flags \subseteq Flag
  /\ overridden \in BOOLEAN
  /\ environments \subseteq Environment
  /\ hook \in 0..MaxRuns
  /\ saved \in [Run -> 0..MaxRuns]
  /\ current \in 0..MaxRuns
  /\ projects \subseteq Run
  /\ default_task \in Seq(Task)
  /\ registered \in Contribution
  /\ position \in Nat
  /\ property \in {"unset", "command_line", "initializer"}
  /\ done \in Seq(Event)
  /\ stage # "idle" => run \in Run
  /\ stage = "initialize" => position > 0

\* Errors, modes and outcomes.
Flow ==
  /\ \A r \in Run : r > run => outcome[r] = "none"
  /\ \A r \in Run : r < run => outcome[r] # "none"
  /\ stage # "idle" => outcome[run] = "none"
  /\ Ended => outcome[run] # "none"
  /\ stage \in Preparing \cup Building \cup {"usage", "reactor"} => error = "none"
  /\ stage = "raised" => error # "none"
  /\ stage = "answer" /\ Mode # "build" => error = "none"
  /\ stage \in Preparing \cup Building \cup {"reactor", "answer", "raised"} => Mode # "help"
  /\ stage \in Preparing \cup Building \cup {"answer", "raised"} => Mode # "scaffold"
  /\ stage \in Building => Mode # "list"
  /\ stage \in {"request", "tasks", "finalize"} => Mode # "info"
  /\ stage \in {"tasks", "finalize"} => Mode = "build"
  /\ Ended /\ outcome[run] = "success" => error = "none"
  /\ ExitsContained

Hooks ==
  /\ hook <= run
  /\ hook = run /\ run # 0 => stage \in Patched \/ error # "none"
  /\ stage \in Patched => hook = run
  /\ hook # 0 /\ hook < run => outcome[hook] # "success"
  /\ \A r \in Run :
       /\ saved[r] < r
       /\ r > run => saved[r] = 0
       /\ saved[r] # 0 => outcome[saved[r]] # "success"

Ready ==
  /\ stage \in Preparing \cup Building \cup {"answer", "raised"} => current = run
  /\ stage \in (Preparing \ {"directory"}) \cup Building => run \in projects
  /\ stage = "answer" /\ error = "none" => run \in projects
  /\ ReactorIsReady

Override ==
  /\ stage \in {"annotations", "resolve"} /\ overridden => property = "command_line"
  /\ OverrideLostOnlyToSet

\* Everything that is due and has a rank below n is done, in order, and nothing
\* else.
DoneBelow(n) ==
  /\ \A i \in DOMAIN done : done[i] \in Due /\ Rank(done[i]) < n
  /\ \A i, j \in DOMAIN done : i < j => Rank(done[i]) < Rank(done[j])
  /\ \A e \in Due : Rank(e) < n => \E j \in DOMAIN done : done[j] = e

\* How far a run that succeeds has come.
Finished ==
  CASE Mode = "build" -> DoneBelow(Count.initializers + Count.finalizers + 2)
    [] Mode \in {"info", "plan"} -> DoneBelow(Count.initializers + 1)
    [] OTHER -> done = <<>>

Progress ==
  /\ stage \in Preparing \cup {"usage", "reactor"} => done = <<>>
  /\ stage = "initialize" => position \in 1..(Count.initializers + 1) /\ DoneBelow(position)
  /\ stage \in {"request", "tasks"} => DoneBelow(Count.initializers + 1)
  /\ stage = "finalize" =>
       /\ position \in 0..Count.finalizers
       /\ DoneBelow(Count.initializers + Count.finalizers + 2 - position)
  /\ stage = "answer" /\ error = "none" => Finished
  /\ Ended /\ outcome[run] = "success" => Finished
  /\ done = <<>> \/ \E n \in Nat : DoneBelow(n)

IInv == Types /\ Flow /\ Hooks /\ Ready /\ Override /\ Progress

-----------------------------------------------------------------------------

USE BuildLifecycleAssumption DEF Run

\* The initial state satisfies the invariant.
LEMMA Initially == Init => IInv
<1> SUFFICES ASSUME Init PROVE IInv
  OBVIOUS
<1> USE DEF Init
<1>1. Types
  <2>1. registered \in Contribution
    BY DEF Contribution, Nothing
  <2>2. done \in Seq(Event) /\ default_task \in Seq(Task)
    OBVIOUS
  <2>3. stage = "idle" /\ run = 0 /\ error = "none" /\ property = "unset" /\ flags = {}
    OBVIOUS
  <2>4. run \in 0..MaxRuns /\ hook \in 0..MaxRuns /\ current \in 0..MaxRuns
    OBVIOUS
  <2>5. /\ saved \in [1..MaxRuns -> 0..MaxRuns]
        /\ outcome \in [1..MaxRuns -> Raised \cup {"none", "success", "failure"}]
    OBVIOUS
  <2> QED
    BY <2>1, <2>2, <2>3, <2>4, <2>5 DEF Types, Preparing, Building
<1>2. Flow /\ Hooks /\ Ready /\ Override
  BY DEF Flow, Hooks, Ready, Override, ExitsContained, ReactorIsReady,
         OverrideLostOnlyToSet, Ended, Preparing, Building, Patched
<1>3. Progress
  BY DEF Progress, Ended, Preparing
<1> QED
  BY <1>1, <1>2, <1>3 DEF IInv

\* Joining two lists of contributions gives one.
LEMMA JoinedType ==
  ASSUME NEW c \in Contribution, NEW d \in Contribution
  PROVE  Joined(c, d) \in Contribution
BY DEF Joined, Contribution

\* A step keeps the types.
LEMMA TypesStep == ASSUME Types, [Next]_vars PROVE Types'
<1> USE DEF Types, Preparing, Building, options, process, project, progress
<1>1. CASE Begin
  <2>1. registered' \in Contribution
    BY <1>1 DEF Begin, Nothing, Contribution
  <2>2. done' \in Seq(Event) /\ default_task' \in Seq(Task)
    BY <1>1 DEF Begin
  <2> QED
    BY <1>1, <2>1, <2>2 DEF Begin
<1>2. CASE UsageError \/ ShowHelp \/ Scaffold \/ Answer \/ Escape \/ FailBuild \/ FailListing
  BY <1>2 DEF UsageError, ShowHelp, Scaffold, Answer, Escape, FailBuild, FailListing, Return, Raised
<1>3. CASE PrepareBuild \/ CreateProject
  BY <1>3 DEF PrepareBuild, CreateProject
<1>13. CASE RestoreImport
  <2>1. hook' \in 0..MaxRuns
    BY <1>13 DEF RestoreImport
  <2> QED
    BY <1>13, <2>1 DEF RestoreImport
<1>12. CASE PatchImport
  BY <1>12 DEF PatchImport
<1>4. CASE CollectPlugins \/ ApplyAttributes
  BY <1>4 DEF CollectPlugins, ApplyAttributes
<1>5. CASE CollectDescriptor
  <2> PICK c \in Contributions : registered' = Joined(registered, c)
    BY <1>5 DEF CollectDescriptor
  <2>1. registered' \in Contribution
    BY JoinedType
  <2> QED
    BY <1>5, <2>1 DEF CollectDescriptor
<1>6. CASE ExecuteInitializer
  <2>1. Initialized(position) \in Event
    BY <1>6 DEF ExecuteInitializer, Initialized, Event
  <2>4. done' = Append(done, Initialized(position)) \/ done' = done
    BY <1>6 DEF ExecuteInitializer
  <2>5. \A s \in Seq(Event), e \in Event : Append(s, e) \in Seq(Event)
    OBVIOUS
  <2>3. done' \in Seq(Event)
    BY <2>1, <2>4, <2>5, Zenon
  <2>2. property' \in {"unset", "command_line", "initializer"}
    BY <1>6 DEF ExecuteInitializer, PropertyAfter
  <2> QED
    BY <1>6, <2>2, <2>3 DEF ExecuteInitializer
<1>7. CASE InitializersExecuted \/ PrepareTasks \/ NoTasks \/ FinalizersExecuted
  BY <1>7 DEF InitializersExecuted, PrepareTasks, NoTasks, FinalizersExecuted, Raised
<1>8. CASE ExecutePlan
  <2>1. done' \in Seq(Event)
    BY <1>8 DEF ExecutePlan, TasksDone, Event
  <2>2. position' \in Nat
    BY <1>8 DEF ExecutePlan, Contribution
  <2> QED
    BY <1>8, <2>1, <2>2 DEF ExecutePlan
<1>9. CASE ExecuteFinalizer
  <2>1. done' \in Seq(Event)
    BY <1>9 DEF ExecuteFinalizer, Finalized, Event
  <2> QED
    BY <1>9, <2>1 DEF ExecuteFinalizer
<1>10. CASE Raise
  BY <1>10 DEF Raise, MayRaise, Raised
<1>11. CASE UNCHANGED vars
  BY <1>11 DEF vars
<1> QED
  BY <1>1, <1>2, <1>3, <1>4, <1>5, <1>6, <1>7, <1>8, <1>9, <1>10, <1>11, <1>12, <1>13
  DEF Next

\* A step keeps what is said of errors, modes and outcomes.
LEMMA FlowStep == ASSUME Types, Flow, [Next]_vars PROVE Flow'
<1> USE DEF Flow, Types, Preparing, Building, Ended, ExitsContained,
            options, process, project, progress
<1>1. CASE Begin
  BY <1>1 DEF Begin, Conflicting, Mode
<1>2. CASE UsageError \/ ShowHelp \/ Scaffold \/ Answer \/ Escape
  BY <1>2 DEF UsageError, ShowHelp, Scaffold, Answer, Escape, Return, Raised, Mode
<1>3. CASE FailBuild \/ FailListing
  BY <1>3 DEF FailBuild, FailListing, Return, Raised, Mode
<1>4. CASE PrepareBuild \/ CreateProject \/ PatchImport \/ RestoreImport
  BY <1>4 DEF PrepareBuild, CreateProject, PatchImport, RestoreImport, Mode
<1>5. CASE CollectPlugins \/ ApplyAttributes \/ CollectDescriptor
  BY <1>5 DEF CollectPlugins, ApplyAttributes, CollectDescriptor, Mode
<1>10. CASE ExecuteInitializer
  BY <1>10 DEF ExecuteInitializer, Mode
<1>6. CASE InitializersExecuted \/ PrepareTasks
  <2>1. Mode' = Mode
    BY <1>6 DEF InitializersExecuted, PrepareTasks, Mode
  <2>2. CASE InitializersExecuted
    BY <2>1, <2>2 DEF InitializersExecuted
  <2>3. CASE PrepareTasks
    <3>1. Mode # "plan" => Mode = "build"
      BY <2>3 DEF PrepareTasks, Mode
    <3> QED
      BY <2>1, <2>3, <3>1 DEF PrepareTasks
  <2> QED
    BY <1>6, <2>2, <2>3
<1>7. CASE ExecutePlan \/ ExecuteFinalizer \/ FinalizersExecuted
  BY <1>7 DEF ExecutePlan, ExecuteFinalizer, FinalizersExecuted, Mode
<1>8. CASE Raise \/ NoTasks
  BY <1>8 DEF Raise, NoTasks, MayRaise, Raised, Mode
<1>9. CASE UNCHANGED vars
  BY <1>9 DEF vars, Mode
<1> QED
  BY <1>1, <1>2, <1>3, <1>4, <1>5, <1>6, <1>7, <1>8, <1>9, <1>10 DEF Next

\* A step keeps what is said of the imports.
LEMMA HooksStep == ASSUME Types, Flow, Hooks, [Next]_vars PROVE Hooks'
<1> USE DEF Flow, Hooks, Types, Preparing, Building, Patched, Ended,
            options, process, project, progress
<1>1. CASE Begin
  BY <1>1 DEF Begin
<1>2. CASE UsageError
  BY <1>2 DEF UsageError, Return, Raised
<1>15. CASE ShowHelp
  BY <1>15 DEF ShowHelp, Return, Raised
<1>14. CASE Scaffold
  <2>1. stage = "reactor" /\ run \in Run /\ hook < run
    BY <1>14 DEF Scaffold
  <2>2. PICK o \in {"success", "failure"} : Return(o)
    BY <1>14 DEF Scaffold
  <2> QED
    BY <1>14, <2>1, <2>2 DEF Scaffold, Return
<1>12. CASE Answer
  BY <1>12 DEF Answer, Return, Raised
<1>13. CASE Escape
  BY <1>13 DEF Escape, Return, Raised
<1>3. CASE FailBuild \/ FailListing
  BY <1>3 DEF FailBuild, FailListing, Return, Raised
<1>4. CASE PrepareBuild \/ CreateProject
  BY <1>4 DEF PrepareBuild, CreateProject
<1>5. CASE PatchImport
  BY <1>5 DEF PatchImport
<1>6. CASE RestoreImport
  BY <1>6 DEF RestoreImport
<1>7. CASE CollectPlugins \/ ApplyAttributes \/ CollectDescriptor
  BY <1>7 DEF CollectPlugins, ApplyAttributes, CollectDescriptor
<1>8. CASE ExecuteInitializer \/ InitializersExecuted \/ PrepareTasks
  BY <1>8 DEF ExecuteInitializer, InitializersExecuted, PrepareTasks
<1>9. CASE ExecutePlan \/ ExecuteFinalizer \/ FinalizersExecuted
  BY <1>9 DEF ExecutePlan, ExecuteFinalizer, FinalizersExecuted
<1>10. CASE Raise \/ NoTasks
  BY <1>10 DEF Raise, NoTasks, MayRaise, Raised
<1>11. CASE UNCHANGED vars
  BY <1>11 DEF vars
<1> QED
  BY <1>1, <1>2, <1>3, <1>4, <1>5, <1>6, <1>7, <1>8, <1>9, <1>10, <1>11, <1>12,
     <1>13, <1>14, <1>15 DEF Next

\* A step keeps what is said of the current reactor and its project.
LEMMA ReadyStep == ASSUME Types, Flow, Ready, [Next]_vars PROVE Ready'
<1> USE DEF Flow, Ready, ReactorIsReady, Types, Preparing, Building, Ended,
            options, process, project, progress
<1>1. CASE Begin
  BY <1>1 DEF Begin
<1>2. CASE UsageError \/ ShowHelp \/ Scaffold \/ Answer \/ Escape
  BY <1>2 DEF UsageError, ShowHelp, Scaffold, Answer, Escape, Return, Raised, Mode
<1>3. CASE FailBuild \/ FailListing
  BY <1>3 DEF FailBuild, FailListing, Return, Raised, Mode
<1>4. CASE PrepareBuild \/ CreateProject \/ PatchImport \/ RestoreImport
  BY <1>4 DEF PrepareBuild, CreateProject, PatchImport, RestoreImport
<1>5. CASE CollectPlugins \/ ApplyAttributes \/ CollectDescriptor
  BY <1>5 DEF CollectPlugins, ApplyAttributes, CollectDescriptor
<1>6. CASE ExecuteInitializer \/ InitializersExecuted \/ PrepareTasks
  BY <1>6 DEF ExecuteInitializer, InitializersExecuted, PrepareTasks
<1>7. CASE ExecutePlan \/ ExecuteFinalizer \/ FinalizersExecuted
  BY <1>7 DEF ExecutePlan, ExecuteFinalizer, FinalizersExecuted
<1>8. CASE Raise \/ NoTasks
  BY <1>8 DEF Raise, NoTasks, MayRaise, Raised
<1>9. CASE UNCHANGED vars
  BY <1>9 DEF vars, Mode
<1> QED
  BY <1>1, <1>2, <1>3, <1>4, <1>5, <1>6, <1>7, <1>8, <1>9 DEF Next

\* The witness for a lost override stays one when the list is done further.
LEMMA WitnessStays ==
  ASSUME Types, Override, stage \in {"initialize", "request"}, overridden,
         property # "command_line", registered' = registered,
         done' = done \/ \E e : done' = Append(done, e)
  PROVE  \E i \in DOMAIN registered'.initializers :
           /\ Initialized(i) \in {done'[j] : j \in DOMAIN done'}
           /\ registered'.initializers[i].sets = "always"
<1>1. PICK i \in DOMAIN registered.initializers :
        /\ Initialized(i) \in {done[j] : j \in DOMAIN done}
        /\ registered.initializers[i].sets = "always"
  BY DEF Override, OverrideLostOnlyToSet
<1>2. PICK j \in DOMAIN done : done[j] = Initialized(i)
  BY <1>1
<1>3. done \in Seq(Event)
  BY DEF Types
<1>4. j \in DOMAIN done' /\ done'[j] = done[j]
  BY <1>3
<1> QED
  BY <1>1, <1>2, <1>4

\* A step keeps what is said of the property that -P sets.
LEMMA OverrideStep == ASSUME Types, Override, [Next]_vars PROVE Override'
<1> USE DEF Types, Preparing, Building, options, process, project, progress
<1>1. CASE stage \notin {"annotations", "resolve", "initialize", "request"}
  <2>1. stage' \notin {"resolve", "initialize", "request", "tasks"}
        \/ UNCHANGED <<stage, overridden, property, registered, done>>
    BY <1>1 DEF Next, Begin, UsageError, ShowHelp, Scaffold, Answer, Escape, FailBuild, FailListing,
         Return, PrepareBuild, CreateProject, PatchImport, CollectPlugins, ApplyAttributes,
         CollectDescriptor, RestoreImport, ExecuteInitializer, InitializersExecuted,
         PrepareTasks, NoTasks, ExecutePlan, ExecuteFinalizer, FinalizersExecuted, Raise, vars
  <2>2. stage' = "annotations" /\ overridden' => property' = "command_line"
    BY <1>1 DEF Next, Begin, UsageError, ShowHelp, Scaffold, Answer, Escape, FailBuild, FailListing,
         Return, PrepareBuild, CreateProject, PatchImport, CollectPlugins, ApplyAttributes,
         CollectDescriptor, RestoreImport, ExecuteInitializer, InitializersExecuted,
         PrepareTasks, NoTasks, ExecutePlan, ExecuteFinalizer, FinalizersExecuted, Raise, vars
  <2> QED
    BY <1>1, <2>1, <2>2 DEF Override, OverrideLostOnlyToSet
<1>2. CASE stage \in {"annotations", "resolve"}
  <2>1. \/ CollectDescriptor \/ RestoreImport \/ Raise \/ UNCHANGED vars
    BY <1>2 DEF Next, Begin, UsageError, ShowHelp, Scaffold, Answer, Escape, FailBuild, FailListing,
         PrepareBuild, CreateProject, PatchImport, CollectPlugins, ApplyAttributes,
         ExecuteInitializer, InitializersExecuted, PrepareTasks, NoTasks, ExecutePlan,
         ExecuteFinalizer, FinalizersExecuted
  <2> QED
    BY <1>2, <2>1 DEF Override, OverrideLostOnlyToSet, CollectDescriptor, RestoreImport,
         Raise, vars
<1>3. CASE stage \in {"initialize", "request"}
  <2>1. \/ ExecuteInitializer \/ InitializersExecuted \/ PrepareTasks \/ NoTasks
        \/ Raise \/ UNCHANGED vars
    BY <1>3 DEF Next, Begin, UsageError, ShowHelp, Scaffold, Answer, Escape, FailBuild, FailListing,
         PrepareBuild, CreateProject, PatchImport, CollectPlugins, ApplyAttributes,
         CollectDescriptor, RestoreImport, ExecutePlan, ExecuteFinalizer, FinalizersExecuted
  <2>2. CASE property' = property /\ stage' \notin {"annotations", "resolve"}
    <3>1. registered' = registered /\ overridden' = overridden
      BY <2>1 DEF ExecuteInitializer, InitializersExecuted, PrepareTasks, NoTasks, Raise, vars
    <3>2. done' = done \/ \E e : done' = Append(done, e)
      BY <2>1 DEF ExecuteInitializer, InitializersExecuted, PrepareTasks, NoTasks, Raise, vars
    <3> QED
      BY <1>3, <2>2, <3>1, <3>2, WitnessStays DEF Override, OverrideLostOnlyToSet
  <2>3. CASE property' # property
    <3>1. ExecuteInitializer /\ position \in DOMAIN registered.initializers
      BY <2>1, <2>3 DEF ExecuteInitializer, InitializersExecuted, PrepareTasks, NoTasks,
           Raise, vars, Contribution
    <3>2. /\ property' = PropertyAfter(registered.initializers[position])
          /\ done' = Append(done, Initialized(position))
          /\ registered' = registered /\ overridden' = overridden /\ stage' = stage
          /\ stage = "initialize"
      BY <3>1, <2>3 DEF ExecuteInitializer
    <3>3. Initialized(position) \in {done'[j] : j \in DOMAIN done'}
      BY <3>2
    <3>4. property # "unset" => registered.initializers[position].sets = "always"
      BY <2>3, <3>2 DEF PropertyAfter
    <3>5. CASE property = "command_line"
      BY <3>1, <3>2, <3>3, <3>4, <3>5 DEF Override, OverrideLostOnlyToSet
    <3>6. CASE property # "command_line"
      BY <3>2, <3>6, WitnessStays DEF Override, OverrideLostOnlyToSet
    <3> QED
      BY <3>5, <3>6
  <2>4. stage' \notin {"annotations", "resolve"}
    BY <1>3, <2>1 DEF ExecuteInitializer, InitializersExecuted, PrepareTasks, NoTasks,
         Raise, vars
  <2> QED
    BY <2>2, <2>3, <2>4
<1> QED
  BY <1>1, <1>2, <1>3

\* Ranks are positive, and tell the events apart.
LEMMA Ranks ==
  ASSUME Types
  PROVE  /\ \A e \in Due : Rank(e) \in Nat \ {0}
         /\ \A e, f \in Due : Rank(e) = Rank(f) => e = f
         /\ \A e \in Due : Rank(e) < Count.initializers + Count.finalizers + 2
         /\ \A e \in Due : Rank(e) < Count.initializers + 1 <=> e.what = "initializer"
<1> DEFINE Li == Len(registered.initializers)
           Lf == Len(registered.finalizers)
<1>1. Li \in Nat /\ Lf \in Nat /\ Count.initializers = Li /\ Count.finalizers = Lf
  BY DEF Types, Contribution, Count
<1>2. DOMAIN registered.initializers = 1..Li /\ DOMAIN registered.finalizers = 1..Lf
  BY DEF Types, Contribution
<1>3. \A e \in Due :
        \/ e = TasksDone
        \/ \E i \in 1..Li : e = Initialized(i)
        \/ \E i \in 1..Lf : e = Finalized(i)
  BY <1>2 DEF Due
<1>4. /\ Rank(TasksDone) = Li + 1 /\ TasksDone.what = "tasks"
      /\ \A i \in 1..Li : Rank(Initialized(i)) = i /\ Initialized(i).what = "initializer"
      /\ \A i \in 1..Lf : /\ Rank(Finalized(i)) = Li + Lf + 2 - i
                          /\ Finalized(i).what = "finalizer"
  BY DEF Rank, TasksDone, Initialized, Finalized
<1> HIDE DEF Li, Lf
<1>5. \A e \in Due : Rank(e) \in Nat \ {0} /\ Rank(e) < Li + Lf + 2
  BY <1>1, <1>3, <1>4
<1>6. \A e \in Due : Rank(e) < Li + 1 <=> e.what = "initializer"
  BY <1>1, <1>3, <1>4
<1>7. ASSUME NEW e \in Due, NEW f \in Due, Rank(e) = Rank(f) PROVE e = f
  BY <1>1, <1>3, <1>4, <1>7
<1> QED
  BY <1>1, <1>5, <1>6, <1>7

\* What is done stays what was due when nothing it depends on changes.
LEMMA DoneStays ==
  ASSUME registered' = registered, environments' = environments, done' = done, NEW n
  PROVE  DoneBelow(n)' = DoneBelow(n)
BY DEF DoneBelow, Due, Rank, IsApplicable

\* Doing what is due next.
LEMMA DoneNext ==
  ASSUME Types, registered' = registered, environments' = environments,
         NEW n \in Nat, DoneBelow(n), NEW e \in Due, Rank(e) = n, done' = Append(done, e)
  PROVE  DoneBelow(n + 1)'
<1>1. Due' = Due /\ \A f : Rank(f)' = Rank(f)
  BY DEF Due, Rank, IsApplicable
<1>2. done \in Seq(Event)
  BY DEF Types
<1>3. /\ DOMAIN done' = DOMAIN done \cup {Len(done) + 1}
      /\ done'[Len(done) + 1] = e
      /\ \A i \in DOMAIN done : done'[i] = done[i] /\ i < Len(done) + 1
      /\ DOMAIN done = 1..Len(done) /\ Len(done) \in Nat
  BY <1>2
<1>4. \A f \in Due : Rank(f) \in Nat
  BY Ranks
<1>5. \A i \in DOMAIN done' : done'[i] \in Due /\ Rank(done'[i]) < n + 1
  BY <1>3, <1>4 DEF DoneBelow
<1>6. ASSUME NEW i \in DOMAIN done', NEW j \in DOMAIN done', i < j
      PROVE  Rank(done'[i]) < Rank(done'[j])
  <2>1. i \in DOMAIN done
    BY <1>3, <1>6
  <2> QED
    BY <1>3, <1>6, <2>1 DEF DoneBelow
<1>7. ASSUME NEW f \in Due, Rank(f) < n + 1
      PROVE  \E j \in DOMAIN done' : done'[j] = f
  <2>1. CASE Rank(f) < n
    BY <1>3, <2>1 DEF DoneBelow
  <2>2. CASE Rank(f) = n
    <3>1. f = e
      BY <2>2, Ranks
    <3> QED
      BY <1>3, <3>1
  <2> QED
    BY <1>4, <1>7, <2>1, <2>2
<1> QED
  BY <1>1, <1>5, <1>6, <1>7 DEF DoneBelow

\* Passing over what is not due.
LEMMA DoneSkip ==
  ASSUME Types, registered' = registered, environments' = environments, done' = done,
         NEW n \in Nat, DoneBelow(n), \A e \in Due : Rank(e) # n
  PROVE  DoneBelow(n + 1)'
<1>1. \A e \in Due : Rank(e) < n + 1 <=> Rank(e) < n
  BY Ranks
<1>2. DoneBelow(n + 1)
  BY <1>1 DEF DoneBelow
<1> QED
  BY <1>2 DEF DoneBelow, Due, Rank, IsApplicable

\* A run that has executed nothing yet.
LEMMA NothingDone == ASSUME Types, done = <<>> PROVE DoneBelow(1)
<1>1. \A e \in Due : ~ Rank(e) < 1
  BY Ranks
<1> QED
  BY <1>1 DEF DoneBelow

\* The next initializer is executed, or passed over.
LEMMA InitializerProgress ==
  ASSUME Types, Progress, ExecuteInitializer PROVE Progress'
<1> PICK n \in Nat : n = position
  BY DEF Types
<1>1. /\ stage = "initialize" /\ stage' = "initialize" /\ position' = n + 1
      /\ registered' = registered /\ environments' = environments
      /\ n \in 1..Len(registered.initializers)
      /\ Len(registered.initializers) \in Nat
  BY DEF ExecuteInitializer, options, Types, Contribution
<1>2. DoneBelow(n)
  BY <1>1 DEF Progress
<1>3. n \in DOMAIN registered.initializers
  BY <1>1 DEF Types, Contribution
<1>4. DoneBelow(n + 1)'
  <2>1. CASE IsApplicable(registered.initializers[n])
    <3>1. Initialized(n) \in Due
      BY <1>3, <2>1 DEF Due
    <3>2. Rank(Initialized(n)) = n
      BY DEF Rank, Initialized
    <3>3. done' = Append(done, Initialized(n))
      BY <2>1 DEF ExecuteInitializer
    <3> QED
      BY <1>1, <1>2, <3>1, <3>2, <3>3, DoneNext
  <2>2. CASE ~ IsApplicable(registered.initializers[n])
    <3>1. ASSUME NEW e \in Due, Rank(e) = n PROVE FALSE
      <4>1. e.what = "initializer"
        BY <1>1, <3>1, Ranks DEF Count
      <4>2. PICK i \in DOMAIN registered.initializers :
              IsApplicable(registered.initializers[i]) /\ e = Initialized(i)
        BY <4>1 DEF Due, TasksDone, Finalized
      <4>3. i = n
        BY <3>1, <4>2 DEF Rank, Initialized
      <4> QED
        BY <2>2, <4>2, <4>3
    <3>2. done' = done
      BY <2>2 DEF ExecuteInitializer
    <3> QED
      BY <1>1, <1>2, <3>1, <3>2, DoneSkip
  <2> QED
    BY <2>1, <2>2
<1>5. Count' = Count
  BY <1>1 DEF Count
<1>6. n + 1 \in Nat
  OBVIOUS
<1>7. (stage = "initialize" => position \in 1..(Count.initializers + 1) /\ DoneBelow(position))'
  BY <1>1, <1>4, <1>5 DEF Count
<1>8. (done = <<>> \/ \E m \in Nat : DoneBelow(m))'
  BY <1>4, <1>6
<1> QED
  BY <1>1, <1>7, <1>8 DEF Progress, Preparing, Ended

\* The plan is executed.
LEMMA PlanProgress ==
  ASSUME Types, Progress, ExecutePlan PROVE Progress'
<1>l. PICK l \in Nat : l = Len(registered.initializers)
  BY DEF Types, Contribution
<1>f. PICK f \in Nat : f = Len(registered.finalizers)
  BY DEF Types, Contribution
<1>1. /\ stage = "tasks" /\ stage' = "finalize" /\ position' = f
      /\ registered' = registered /\ environments' = environments
      /\ done' = Append(done, TasksDone)
  BY <1>f DEF ExecutePlan, options, project
<1>2. DoneBelow(l + 1)
  BY <1>1, <1>l DEF Progress, Count
<1>3. TasksDone \in Due /\ Rank(TasksDone) = l + 1
  BY <1>l DEF Due, Rank, TasksDone
<1>4. DoneBelow((l + 1) + 1)'
  BY <1>1, <1>2, <1>3, DoneNext
<1>5. Count'.initializers = l /\ Count'.finalizers = f
  BY <1>1, <1>l, <1>f DEF Count
<1>6. (l + 1) + 1 = (l + f) + 2 - f /\ (l + 1) + 1 \in Nat
  OBVIOUS
<1>7. (stage = "finalize" =>
         /\ position \in 0..Count.finalizers
         /\ DoneBelow(Count.initializers + Count.finalizers + 2 - position))'
  BY <1>1, <1>4, <1>5, <1>6
<1>8. (done = <<>> \/ \E m \in Nat : DoneBelow(m))'
  BY <1>4, <1>6
<1> QED
  BY <1>1, <1>7, <1>8 DEF Progress, Preparing, Ended

\* The next finalizer, from the last to the first, is executed or passed over.
LEMMA FinalizerProgress ==
  ASSUME Types, Progress, ExecuteFinalizer PROVE Progress'
<1>l. PICK l \in Nat : l = Len(registered.initializers)
  BY DEF Types, Contribution
<1>f. PICK f \in Nat : f = Len(registered.finalizers)
  BY DEF Types, Contribution
<1>p. PICK p \in Nat : p = position
  BY DEF Types
<1> DEFINE n == (l + f) + 2 - p
<1>1. /\ stage = "finalize" /\ stage' = "finalize" /\ position' = p - 1
      /\ registered' = registered /\ environments' = environments
      /\ p > 0
  BY <1>p DEF ExecuteFinalizer, options, project
<1>2. p \in 1..f /\ DoneBelow(n)
  <2>1. Count.initializers = l /\ Count.finalizers = f
    BY <1>l, <1>f DEF Count
  <2>2. p \in 0..f /\ DoneBelow(l + f + 2 - p)
    BY <1>1, <1>p, <2>1 DEF Progress
  <2> QED
    BY <1>1, <2>2
<1>3. p \in DOMAIN registered.finalizers
  BY <1>2, <1>f DEF Types, Contribution
<1>n. n \in Nat /\ n > l + 1
  BY <1>2
<1>4. DoneBelow(n + 1)'
  <2>1. CASE IsApplicable(registered.finalizers[p])
    <3>1. Finalized(p) \in Due
      BY <1>3, <2>1 DEF Due
    <3>2. Rank(Finalized(p)) = n
      BY <1>l, <1>f DEF Rank, Finalized
    <3>3. done' = Append(done, Finalized(p))
      BY <2>1, <1>p DEF ExecuteFinalizer
    <3> QED
      BY <1>1, <1>2, <1>n, <3>1, <3>2, <3>3, DoneNext
  <2>2. CASE ~ IsApplicable(registered.finalizers[p])
    <3>1. ASSUME NEW e \in Due, Rank(e) = n PROVE FALSE
      <4>1. e.what # "initializer"
        BY <1>n, <1>l, <3>1, Ranks DEF Count
      <4>7. Rank(TasksDone) = l + 1
        BY <1>l DEF Rank, TasksDone
      <4>2. e # TasksDone
        BY <1>n, <3>1, <4>7
      <4>3. PICK i \in DOMAIN registered.finalizers :
              IsApplicable(registered.finalizers[i]) /\ e = Finalized(i)
        BY <4>1, <4>2 DEF Due, Initialized
      <4>4. i \in Nat
        BY <4>3 DEF Types, Contribution
      <4>5. Rank(e) = (l + f) + 2 - i
        BY <1>l, <1>f, <4>3 DEF Rank, Finalized
      <4>6. i = p
        BY <3>1, <4>4, <4>5
      <4> QED
        BY <2>2, <4>3, <4>6
    <3>2. done' = done
      BY <2>2, <1>p DEF ExecuteFinalizer
    <3> QED
      BY <1>1, <1>2, <1>n, <3>1, <3>2, DoneSkip
  <2> QED
    BY <2>1, <2>2
<1>5. Count'.initializers = l /\ Count'.finalizers = f
  BY <1>1, <1>l, <1>f DEF Count
<1>6. n + 1 = (l + f) + 2 - (p - 1) /\ n + 1 \in Nat
  BY <1>n
<1>7. (stage = "finalize" =>
         /\ position \in 0..Count.finalizers
         /\ DoneBelow(Count.initializers + Count.finalizers + 2 - position))'
  <2>1. DoneBelow((l + f) + 2 - (p - 1))'
    BY <1>4, <1>6
  <2> QED
    BY <1>1, <1>2, <1>5, <2>1
<1>8. (done = <<>> \/ \E m \in Nat : DoneBelow(m))'
  BY <1>4, <1>6
<1> QED
  BY <1>1, <1>7, <1>8 DEF Progress, Preparing, Ended

\* A run that comes to its end: the answer is left, or what main raised.
LEMMA FinishedStays ==
  ASSUME Types, registered' = registered, environments' = environments, done' = done,
         flags' = flags, Finished
  PROVE  Finished'
<1>1. Count' = Count /\ Mode' = Mode
  BY DEF Count, Mode
<1>2. PICK k : k = Count.initializers + Count.finalizers + 2
  OBVIOUS
<1>3. PICK m : m = Count.initializers + 1
  OBVIOUS
<1>4. DoneBelow(k)' = DoneBelow(k) /\ DoneBelow(m)' = DoneBelow(m)
  BY DoneStays
<1> QED
  BY <1>1, <1>2, <1>3, <1>4 DEF Finished

\* A step keeps what is said of what is done.
LEMMA ProgressStep == ASSUME Types, Flow, Progress, [Next]_vars PROVE Progress'
<1> DEFINE Frame == /\ registered' = registered /\ environments' = environments
                    /\ done' = done /\ flags' = flags
<1>k. PICK k \in Nat : k = Count.initializers + 1
  BY DEF Types, Contribution, Count
<1>m. PICK m \in Nat : m = Count.initializers + Count.finalizers + 2
  BY DEF Types, Contribution, Count
<1>s. ASSUME Frame PROVE /\ Count' = Count /\ Mode' = Mode
                         /\ \A n : DoneBelow(n)' = DoneBelow(n)
                         /\ Finished => Finished'
  BY <1>s, DoneStays, FinishedStays DEF Count, Mode
<1>e. ASSUME Frame PROVE (done = <<>> \/ \E n \in Nat : DoneBelow(n))'
  BY <1>s, <1>e DEF Progress
<1>0. ASSUME done' = <<>>, stage' \in Preparing \cup {"usage", "reactor", "raised"}
      PROVE Progress'
  BY <1>0 DEF Progress, Ended, Preparing
<1>1. CASE Begin
  BY <1>1, <1>0 DEF Begin, Preparing
<1>2. CASE PrepareBuild \/ CreateProject \/ PatchImport \/ CollectPlugins
           \/ ApplyAttributes \/ CollectDescriptor
  BY <1>2, <1>0 DEF PrepareBuild, CreateProject, PatchImport, CollectPlugins,
     ApplyAttributes, CollectDescriptor, Progress, Preparing, progress
<1>3. CASE RestoreImport
  <2>1. done = <<>> /\ Frame /\ position' = 1 /\ error' = error /\ stage = "resolve"
    BY <1>3 DEF RestoreImport, Progress, Preparing, project, options
  <2>2. DoneBelow(1)'
    BY <2>1, NothingDone, <1>s
  <2>3. CASE Mode = "list"
    <3>1. stage' = "answer" /\ Mode' = "list"
      BY <1>3, <2>1, <2>3, <1>s DEF RestoreImport
    <3> QED
      BY <2>1, <3>1 DEF Progress, Finished, Preparing, Ended
  <2>4. CASE Mode # "list"
    <3>1. stage' = "initialize"
      BY <1>3, <2>4 DEF RestoreImport
    <3>2. 1 \in 1..(Count'.initializers + 1)
      BY <2>1, <1>s DEF Count, Types, Contribution
    <3>3. (position \in 1..(Count.initializers + 1) /\ DoneBelow(position))'
      BY <2>1, <2>2, <3>2
    <3> QED
      BY <2>1, <3>1, <3>3 DEF Progress, Preparing, Ended
  <2> QED
    BY <2>3, <2>4
<1>4. CASE InitializersExecuted
  <2>1. /\ Frame /\ stage = "initialize" /\ DoneBelow(k) /\ Mode # "list"
        /\ Mode # "scaffold" /\ error' = error
    BY <1>4, <1>k DEF InitializersExecuted, Progress, Flow, Building, Count, options,
       project, progress
  <2>2. DoneBelow(k)' /\ Count' = Count /\ Mode' = Mode
    BY <2>1, <1>s
  <2>3. DoneBelow(Count.initializers + 1)'
    BY <2>2, <1>k
  <2>4. stage' = "answer" => Finished'
    BY <1>4, <2>2, <2>3 DEF InitializersExecuted, Finished
  <2>5. stage' \in {"answer", "request"}
    BY <1>4 DEF InitializersExecuted
  <2> QED
    BY <2>1, <2>3, <2>4, <2>5, <1>e DEF Progress, Preparing, Ended
<1>5. CASE PrepareTasks
  <2>1. /\ Frame /\ stage = "request" /\ DoneBelow(k) /\ error' = error
    BY <1>5, <1>k DEF PrepareTasks, Progress, options, project
  <2>2. DoneBelow(k)' /\ Count' = Count /\ Mode' = Mode
    BY <2>1, <1>s
  <2>3. DoneBelow(Count.initializers + 1)'
    BY <2>2, <1>k
  <2>4. stage' = "answer" => Finished'
    BY <1>5, <2>2, <2>3 DEF PrepareTasks, Finished
  <2>5. stage' \in {"answer", "tasks"}
    BY <1>5 DEF PrepareTasks
  <2> QED
    BY <2>1, <2>3, <2>4, <2>5, <1>e DEF Progress, Preparing, Ended
<1>6. CASE FinalizersExecuted
  <2>1. /\ Frame /\ stage = "finalize" /\ DoneBelow(m) /\ Mode = "build"
        /\ stage' = "answer"
    <3>1. m - 0 = m
      OBVIOUS
    <3> QED
      BY <1>6, <1>m, <3>1 DEF FinalizersExecuted, Progress, Flow, options, project, progress
  <2>2. Finished'
    <3>1. Finished
      BY <2>1, <1>m DEF Finished
    <3> QED
      BY <2>1, <3>1, <1>s
  <2> QED
    BY <2>1, <2>2, <1>e DEF Progress, Preparing, Ended
<1>7. CASE Answer
  <2>1. Frame /\ stage' = "idle" /\ run' = run /\ error' = error
    BY <1>7 DEF Answer, Return, options, project, progress
  <2>2. outcome'[run] = "success" => error = "none"
    BY <1>7 DEF Answer, Return, Types, Preparing, Building
  <2>3. error = "none" => Finished'
    BY <1>7, <2>1, <1>s DEF Answer, Progress
  <2> QED
    BY <2>1, <2>2, <2>3, <1>e DEF Progress, Preparing, Ended
<1>8. CASE UsageError \/ ShowHelp \/ Scaffold \/ Escape \/ FailListing
  <2>1. Frame /\ stage' = "idle" /\ run' = run /\ run \in Run
    BY <1>8 DEF UsageError, ShowHelp, Scaffold, Escape, FailListing, Return, options, project,
       progress, Types
  <2>2. CASE UsageError \/ ShowHelp \/ Escape \/ FailListing
    <3>1. outcome'[run] # "success"
      BY <2>1, <2>2 DEF UsageError, ShowHelp, Escape, FailListing, Return, Types, Raised, Flow
    <3> QED
      BY <2>1, <3>1, <1>e DEF Progress, Preparing, Ended
  <2>3. CASE Scaffold
    <3>1. done = <<>> /\ Mode = "scaffold"
      BY <2>3 DEF Scaffold, Progress
    <3>2. Finished'
      BY <2>1, <3>1, <1>s DEF Finished
    <3> QED
      BY <2>1, <3>2, <1>e DEF Progress, Preparing, Ended
  <2> QED
    BY <1>8, <2>2, <2>3
<1>9. CASE Raise \/ NoTasks
  <2>1. Frame /\ stage' = "raised"
    BY <1>9 DEF Raise, NoTasks, options, project, progress
  <2> QED
    BY <2>1, <1>e DEF Progress, Preparing, Ended
<1>10. CASE FailBuild
  <2>1. Frame /\ stage' = "answer" /\ error' # "none"
    BY <1>10 DEF FailBuild, Flow, options, project, progress
  <2> QED
    BY <2>1, <1>e DEF Progress, Preparing, Ended
<1>11. CASE UNCHANGED vars
  <2>1. /\ Frame /\ stage' = stage /\ run' = run /\ error' = error /\ position' = position
        /\ outcome' = outcome
    BY <1>11 DEF vars, options, project, progress
  <2> QED
    BY <2>1, <1>e, <1>s DEF Progress, Preparing, Ended
<1>12. CASE ExecuteInitializer \/ ExecutePlan \/ ExecuteFinalizer
  BY <1>12, InitializerProgress, PlanProgress, FinalizerProgress
<1> QED
  BY <1>1, <1>2, <1>3, <1>4, <1>5, <1>6, <1>7, <1>8, <1>9, <1>10, <1>11, <1>12 DEF Next

-----------------------------------------------------------------------------
(* Induction over data: what recursive functions compute *)

\* A nonempty set of natural numbers has a least one.
LEMMA LeastOf ==
  ASSUME NEW T, T \subseteq Nat, T # {}
  PROVE  \E x \in T : \A y \in T : ~ (y < x)
<1>1. \E x \in T : \A y \in T : <<y, x>> \notin OpToRel(<, Nat)
  BY NatLessThanWellFounded, WFMin
<1> QED BY <1>1 DEF OpToRel

\* A set that has 0, and the successor of each of its members up to m, has all
\* numbers up to m.
LEMMA UpTo ==
  ASSUME NEW m \in Nat, NEW A, 0 \in A, \A n \in 0 .. (m - 1) : n \in A => n + 1 \in A
  PROVE  \A n \in 0 .. m : n \in A
<1> SUFFICES ASSUME (0 .. m) \ A # {} PROVE FALSE
  OBVIOUS
<1>1. PICK x \in (0 .. m) \ A : \A y \in (0 .. m) \ A : ~ (y < x)
  <2>1. (0 .. m) \ A \subseteq Nat
    OBVIOUS
  <2> QED BY <2>1, LeastOf
<1>2. x # 0 /\ x - 1 \in 0 .. (m - 1) /\ (x - 1) + 1 = x /\ x - 1 < x
  BY <1>1
<1>3. x - 1 \in A
  BY <1>1, <1>2
<1> QED BY <1>1, <1>2, <1>3

Places(s, x) == {i \in DOMAIN s : s[i] = x}

\* A sequence has finitely many places of an element.
LEMMA PlacesFinite ==
  ASSUME NEW S, NEW s \in Seq(S), NEW x
  PROVE  IsFiniteSet(Places(s, x)) /\ Times(s, x) \in Nat
<1>1. IsFiniteSet(1 .. Len(s)) /\ DOMAIN s = 1 .. Len(s)
  BY FS_Interval
<1>2. Places(s, x) \in SUBSET (1 .. Len(s))
  BY <1>1 DEF Places
<1>3. IsFiniteSet(Places(s, x))
  BY <1>1, <1>2, FS_Subset
<1>4. Cardinality(Places(s, x)) \in Nat
  BY <1>3, FS_CardinalityType
<1> QED BY <1>3, <1>4 DEF Times, Places

\* How often x is in an empty list, in one that is longer by y, and in two lists
\* joined.
LEMMA TimesEmpty ==
  ASSUME NEW x PROVE Times(<<>>, x) = 0
<1>1. {i \in DOMAIN <<>> : <<>>[i] = x} = {}
  OBVIOUS
<1> QED BY <1>1, FS_EmptySet DEF Times

LEMMA TimesAppend ==
  ASSUME NEW S, NEW s \in Seq(S), NEW y \in S, NEW x
  PROVE  Times(Append(s, y), x) = IF y = x THEN Times(s, x) + 1 ELSE Times(s, x)
<1> DEFINE n == Len(s) + 1
<1>1. /\ DOMAIN Append(s, y) = 1 .. n /\ Append(s, y)[n] = y
      /\ \A i \in 1 .. Len(s) : Append(s, y)[i] = s[i]
      /\ DOMAIN s = 1 .. Len(s) /\ Len(s) \in Nat
  OBVIOUS
<1>2. n \notin Places(s, x) /\ IsFiniteSet(Places(s, x))
  <2>1. IsFiniteSet(Places(s, x))
    BY PlacesFinite
  <2> QED BY <1>1, <2>1 DEF Places
<1>3. CASE y = x
  <2>1. Places(Append(s, y), x) = Places(s, x) \cup {n}
    BY <1>1, <1>3 DEF Places
  <2>2. Cardinality(Places(s, x) \cup {n}) = Cardinality(Places(s, x)) + 1
    BY <1>2, FS_AddElement
  <2> QED BY <1>3, <2>1, <2>2 DEF Times, Places
<1>4. CASE y # x
  <2>1. Places(Append(s, y), x) = Places(s, x)
    BY <1>1, <1>4 DEF Places
  <2> QED BY <1>4, <2>1 DEF Times, Places
<1> QED BY <1>3, <1>4

LEMMA TimesJoined ==
  ASSUME NEW S, NEW s \in Seq(S), NEW t \in Seq(S), NEW x
  PROVE  Times(s \o t, x) = Times(s, x) + Times(t, x)
<1> DEFINE A == {k \in Nat : k <= Len(t) =>
                   Times(s \o SubSeq(t, 1, k), x) = Times(s, x) + Times(SubSeq(t, 1, k), x)}
<1>0. s \in Seq(S) /\ t \in Seq(S) /\ Len(t) \in Nat
  OBVIOUS
<1>1. Times(s, x) \in Nat
  BY PlacesFinite
<1>2. 0 \in A
  <2>1. SubSeq(t, 1, 0) = <<>> /\ s \o <<>> = s
    BY <1>0
  <2>2. Times(<<>>, x) = 0
    BY TimesEmpty
  <2>3. Times(s \o SubSeq(t, 1, 0), x) = Times(s, x) + Times(SubSeq(t, 1, 0), x)
    <3> DEFINE u == SubSeq(t, 1, 0)
    <3>1. u = <<>> /\ s \o u = s
      BY <2>1
    <3> HIDE DEF u
    <3>2. Times(s \o u, x) = Times(s, x) /\ Times(u, x) = 0
      BY <2>2, <3>1
    <3> QED BY <1>1, <3>2 DEF u
  <2> QED BY <2>3
<1>3. ASSUME NEW k \in 0 .. (Len(t) - 1), k \in A PROVE k + 1 \in A
  <2> DEFINE p == SubSeq(t, 1, k)
             q == SubSeq(t, 1, k + 1)
             y == t[k + 1]
  <2>1. p \in Seq(S) /\ y \in S /\ q = Append(p, y) /\ s \o p \in Seq(S)
    BY <1>0, <1>3
  <2>2. s \o q = Append(s \o p, y)
    BY <2>1
  <2>3. Times(s \o p, x) = Times(s, x) + Times(p, x)
    BY <1>3
  <2>4. Times(p, x) \in Nat
    BY <2>1, PlacesFinite, Zenon
  <2>5. /\ Times(q, x) = IF y = x THEN Times(p, x) + 1 ELSE Times(p, x)
        /\ Times(s \o q, x) = IF y = x THEN Times(s \o p, x) + 1 ELSE Times(s \o p, x)
    <3>1. s \o p \in Seq(S) /\ p \in Seq(S) /\ y \in S
      BY <2>1
    <3> HIDE DEF p, y
    <3>2. Times(Append(p, y), x) = IF y = x THEN Times(p, x) + 1 ELSE Times(p, x)
      BY <3>1, TimesAppend
    <3>3. Times(Append(s \o p, y), x) = IF y = x THEN Times(s \o p, x) + 1 ELSE Times(s \o p, x)
      <4> DEFINE z == s \o p
      <4>1. z \in Seq(S) /\ y \in S
        BY <3>1
      <4> HIDE DEF z
      <4>2. Times(Append(z, y), x) = IF y = x THEN Times(z, x) + 1 ELSE Times(z, x)
        BY <4>1, TimesAppend
      <4> QED BY <4>2, Zenon DEF z
    <3> QED BY <2>1, <2>2, <3>2, <3>3
  <2>6. Times(s \o q, x) = Times(s, x) + Times(q, x)
    BY <1>1, <2>3, <2>4, <2>5
  <2> QED BY <2>6, <1>3
<1>4. Len(t) \in A
  <2> HIDE DEF A
  <2>1. \A k \in 0 .. (Len(t) - 1) : k \in A => k + 1 \in A
    BY <1>3
  <2>2. \A k \in 0 .. Len(t) : k \in A
    BY <1>0, <1>2, <2>1, UpTo
  <2> QED BY <1>0, <2>2
<1>5. SubSeq(t, 1, Len(t)) = t
  BY <1>0
<1>6. Times(s \o SubSeq(t, 1, Len(t)), x) = Times(s, x) + Times(SubSeq(t, 1, Len(t)), x)
  BY <1>0, <1>4
<1> QED BY <1>5, <1>6, Zenon

\* The first e is taken away, if there is one.
LEMMA FirstRemoved ==
  ASSUME NEW S, NEW s \in Seq(S), NEW e \in S
  PROVE  /\ RemoveFirst(s, e) \in Seq(S)
         /\ \A x \in S : Times(RemoveFirst(s, e), x) =
              IF x = e /\ Times(s, x) > 0 THEN Times(s, x) - 1 ELSE Times(s, x)
<1> DEFINE I == {i \in 1 .. Len(s) : s[i] = e}
<1>0. Len(s) \in Nat /\ DOMAIN s = 1 .. Len(s)
  OBVIOUS
<1>1. CASE I = {}
  <2>1. RemoveFirst(s, e) = s
    BY <1>1 DEF RemoveFirst
  <2>2. Places(s, e) = {}
    BY <1>1 DEF Places
  <2>3. Times(s, e) = 0
    BY <2>2, FS_EmptySet DEF Times, Places
  <2> QED BY <2>1, <2>3
<1>2. CASE I # {}
  <2>1. PICK k \in I : \A i \in I : ~ (i < k)
    <3>1. I \subseteq Nat
      OBVIOUS
    <3> QED BY <1>2, <3>1, LeastOf
  <2>2. Min(I) = k
    BY <2>1 DEF Min
  <2>3. SelectInSeq(s, LAMBDA v : v = e) = k
    BY <1>2, <2>2 DEF SelectInSeq
  <2> DEFINE r == RemoveFirst(s, e)
             n == Len(s)
  <2>4. r = SubSeq(s, 1, k - 1) \o SubSeq(s, k + 1, n)
    BY <1>2, <2>3 DEF RemoveFirst, RemoveAt
  <2>5. k \in 1 .. n /\ s[k] = e
    BY <2>1
  <2>6. /\ SubSeq(s, 1, k - 1) \in Seq(S) /\ Len(SubSeq(s, 1, k - 1)) = k - 1
        /\ SubSeq(s, k + 1, n) \in Seq(S)
        /\ SubSeq(s, 1, k) = Append(SubSeq(s, 1, k - 1), e)
    BY <1>0, <2>5
  <2>7. SubSeq(s, 1, k) \o SubSeq(s, k + 1, n) = s /\ SubSeq(s, 1, k) \in Seq(S)
    <3>1. SubSeq(s, 1, k) \o SubSeq(s, k + 1, n) = SubSeq(s, 1, n)
      <4>1. 1 \in 1 .. n + 1 /\ k \in 1 - 1 .. n /\ n \in k .. n
        BY <1>0, <2>5
      <4> QED BY <4>1, ConcatAdjacentSubSeq, Zenon
    <3>2. SubSeq(s, 1, n) = s
      BY SubSeqFull
    <3>3. SubSeq(s, 1, k) \in Seq(S)
      BY <1>0, <2>5
    <3> QED BY <3>1, <3>2, <3>3, Zenon
  <2>8. r \in Seq(S)
    BY <2>4, <2>6
  <2>9. ASSUME NEW x \in S
        PROVE  /\ Times(r, x) \in Nat
               /\ Times(s, x) = IF x = e THEN Times(r, x) + 1 ELSE Times(r, x)
    <3> DEFINE a == SubSeq(s, 1, k - 1)
               b == SubSeq(s, 1, k)
               c == SubSeq(s, k + 1, n)
    <3>1. Times(r, x) = Times(a, x) + Times(c, x)
      <4>1. a \in Seq(S) /\ c \in Seq(S) /\ r = a \o c
        BY <2>4, <2>6
      <4> HIDE DEF a, c, r
      <4> QED BY <4>1, TimesJoined
    <3>2. Times(s, x) = Times(b, x) + Times(c, x)
      <4>1. b \in Seq(S) /\ c \in Seq(S) /\ b \o c = s
        BY <2>6, <2>7
      <4> HIDE DEF b, c
      <4> QED BY <4>1, TimesJoined
    <3>3. Times(b, x) = IF e = x THEN Times(a, x) + 1 ELSE Times(a, x)
      <4>1. a \in Seq(S) /\ b = Append(a, e)
        BY <2>6
      <4> HIDE DEF a, b
      <4> QED BY <4>1, TimesAppend
    <3>4. Times(a, x) \in Nat /\ Times(c, x) \in Nat
      <4>1. a \in Seq(S) /\ c \in Seq(S)
        BY <2>6
      <4> HIDE DEF a, c
      <4> QED BY <4>1, PlacesFinite, Zenon
    <3> HIDE DEF a, b, c, r
    <3> QED BY <3>1, <3>2, <3>3, <3>4
  <2> HIDE DEF r
  <2>10. ASSUME NEW x \in S
         PROVE Times(r, x) = IF x = e /\ Times(s, x) > 0 THEN Times(s, x) - 1 ELSE Times(s, x)
    BY <2>9
  <2> QED BY <2>8, <2>10 DEF r
<1> QED BY <1>1, <1>2

\* Named goes through the arguments, and Picks(g, k) is what it has after k.
Picks(g, op, asked, k) ==
  g = [i \in 0 .. k |->
         IF i = 0 THEN <<>>
         ELSE IF asked[i].op = op THEN Append(g[i - 1], asked[i].name)
         ELSE g[i - 1]]

\* There is a function that goes through m mentions as the loops do.
LEMMA PicksExists ==
  ASSUME NEW op, NEW asked, NEW m \in Nat
  PROVE  \E g : Picks(g, op, asked, m)
<1> DEFINE A == {k \in Nat : \E g : Picks(g, op, asked, k)}
<1>1. 0 \in A
  <2> DEFINE g == [i \in 0 .. 0 |-> <<>>]
  <2>1. Picks(g, op, asked, 0)
    BY DEF Picks
  <2> QED BY <2>1, Zenon
<1>2. ASSUME NEW k \in 0 .. (m - 1), k \in A PROVE k + 1 \in A
  <2>1. PICK g : Picks(g, op, asked, k)
    BY <1>2
  <2> DEFINE n == k + 1
             h == [i \in 0 .. n |->
                     IF i # n THEN g[i]
                     ELSE IF asked[n].op = op THEN Append(g[k], asked[n].name) ELSE g[k]]
  <2>2. ASSUME NEW i \in 0 .. n
        PROVE  h[i] = IF i = 0 THEN <<>>
                      ELSE IF asked[i].op = op THEN Append(h[i - 1], asked[i].name)
                      ELSE h[i - 1]
    <3>1. CASE i = n
      <4>1. n # 0 /\ n - 1 = k /\ k \in 0 .. n /\ k # n
        BY <1>2
      <4>2. h[k] = g[k]
        BY <4>1
      <4> QED BY <3>1, <4>1, <4>2
    <3>2. CASE i # n
      <4>1. i \in 0 .. k /\ (i # 0 => i - 1 \in 0 .. k /\ i - 1 # n)
        BY <1>2, <3>2
      <4>2. g[i] = IF i = 0 THEN <<>>
                   ELSE IF asked[i].op = op THEN Append(g[i - 1], asked[i].name)
                   ELSE g[i - 1]
        <5> DEFINE G(j) == IF j = 0 THEN <<>>
                   ELSE IF asked[j].op = op THEN Append(g[j - 1], asked[j].name)
                   ELSE g[j - 1]
        <5>1. g = [j \in 0 .. k |-> G(j)]
          BY <2>1 DEF Picks
        <5> HIDE DEF G
        <5>2. g[i] = G(i)
          BY <4>1, <5>1
        <5> QED BY <5>2 DEF G
      <4>3. h[i] = g[i] /\ (i # 0 => h[i - 1] = g[i - 1])
        BY <3>2, <4>1, <1>2
      <4> QED BY <4>2, <4>3
    <3> QED BY <3>1, <3>2
  <2>3. Picks(h, op, asked, n)
    <3>1. DOMAIN h = 0 .. n /\ h = [i \in 0 .. n |-> h[i]]
      OBVIOUS
    <3> HIDE DEF h
    <3> QED BY <2>2, <3>1 DEF Picks
  <2>4. k + 1 \in Nat
    BY <1>2
  <2> HIDE DEF h
  <2> QED BY <2>3, <2>4
<1> HIDE DEF A
<1>3. \A k \in 0 .. m : k \in A
  BY <1>1, <1>2, UpTo
<1> QED BY <1>3 DEF A

\* The names given with op are each named as often as they are given with it.
LEMMA NamedTimes ==
  ASSUME NEW asked \in Seq(Argument), NEW op \in {"plain", "append", "remove"}
  PROVE  /\ Named(op, asked) \in Seq(Task)
         /\ \A t \in Task : Times(Named(op, asked), t) = Times(asked, [op |-> op, name |-> t])
<1> DEFINE m == Len(asked)
<1>0. m \in Nat /\ DOMAIN asked = 1 .. m /\ \A i \in 1 .. m : asked[i] \in Argument
  OBVIOUS
<1> DEFINE g == CHOOSE f : Picks(f, op, asked, m)
<1>1. Picks(g, op, asked, m)
  BY <1>0, PicksExists
<1>2. Named(op, asked) = g[m]
  BY Zenon DEF Named, Picks
<1> HIDE DEF g
<1> DEFINE Right(k) ==
      /\ g[k] \in Seq(Task)
      /\ \A t \in Task :
           Times(g[k], t) = Times(SubSeq(asked, 1, k), [op |-> op, name |-> t])
<1> DEFINE A == {k \in Nat : Right(k)}
<1>3. 0 \in A
  <2>1. g[0] = <<>>
    BY <1>0, <1>1 DEF Picks
  <2>2. SubSeq(asked, 1, 0) = <<>>
    OBVIOUS
  <2>3. g[0] \in Seq(Task)
    BY <2>1
  <2>4. \A t \in Task :
          Times(g[0], t) = Times(SubSeq(asked, 1, 0), [op |-> op, name |-> t])
    BY <2>1, <2>2, TimesEmpty, Zenon
  <2> QED BY <2>3, <2>4
<1>4. ASSUME NEW k \in 0 .. (m - 1), k \in A PROVE k + 1 \in A
  <2> DEFINE n == k + 1
             p == SubSeq(asked, 1, k)
             y == asked[n]
  <2>1. n \in 1 .. m /\ n # 0 /\ n - 1 = k /\ n \in 0 .. m
    BY <1>0, <1>4
  <2>2. y \in Argument /\ p \in Seq(Argument) /\ SubSeq(asked, 1, n) = Append(p, y)
    BY <1>0, <1>4, <2>1
  <2>3. g[n] = IF y.op = op THEN Append(g[k], y.name) ELSE g[k]
    <3> DEFINE G(j) == IF j = 0 THEN <<>>
                   ELSE IF asked[j].op = op THEN Append(g[j - 1], asked[j].name)
                   ELSE g[j - 1]
    <3>1. g = [j \in 0 .. m |-> G(j)]
      BY <1>1 DEF Picks
    <3> HIDE DEF G
    <3>2. g[n] = G(n)
      BY <2>1, <3>1
    <3> QED BY <2>1, <3>2 DEF G
  <2>4. Right(k)
    BY <1>4
  <2>5. y.name \in Task /\ y = [op |-> y.op, name |-> y.name]
    BY <2>2 DEF Argument
  <2>6. g[n] \in Seq(Task)
    BY <2>3, <2>4, <2>5
  <2>7. ASSUME NEW t \in Task
        PROVE  Times(g[n], t) = Times(Append(p, y), [op |-> op, name |-> t])
    <3> DEFINE a == [op |-> op, name |-> t]
    <3>1. Times(Append(p, y), a) = IF y = a THEN Times(p, a) + 1 ELSE Times(p, a)
      <4> HIDE DEF p, y, a
      <4> QED BY <2>2, TimesAppend
    <3>2. Times(g[k], t) = Times(p, a) /\ g[k] \in Seq(Task)
      BY <2>4
    <3>3. y = a <=> y.op = op /\ y.name = t
      BY <2>5
    <3>4. CASE y.op = op
      <4>1. Times(Append(g[k], y.name), t)
              = IF y.name = t THEN Times(g[k], t) + 1 ELSE Times(g[k], t)
        BY <2>5, <3>2, TimesAppend
      <4> QED BY <2>3, <3>1, <3>2, <3>3, <3>4, <4>1
    <3>5. CASE y.op # op
      BY <2>3, <3>1, <3>2, <3>3, <3>5
    <3> QED BY <3>4, <3>5
  <2>8. n \in Nat
    BY <2>1
  <2> HIDE DEF p, y, n
  <2>9. Right(n)
    BY <2>2, <2>6, <2>7
  <2> HIDE DEF Right
  <2> QED BY <2>8, <2>9 DEF n
<1>5. m \in A
  <2> HIDE DEF A
  <2>1. \A k \in 0 .. m : k \in A
    BY <1>0, <1>3, <1>4, UpTo
  <2> QED BY <1>0, <2>1
<1>6. Right(m)
  BY <1>5
<1>7. SubSeq(asked, 1, m) = asked
  OBVIOUS
<1> QED BY <1>2, <1>6, <1>7

\* The loop over the tasks to remove: Removes(g, k) is what it leaves after k.
Removes(g, start, removed, k) ==
  g = [i \in 0 .. k |-> IF i = 0 THEN start ELSE RemoveFirst(g[i - 1], removed[i])]

\* There is a function that removes m tasks, one after the other.
LEMMA RemovesExists ==
  ASSUME NEW start, NEW removed, NEW m \in Nat
  PROVE  \E g : Removes(g, start, removed, m)
<1> DEFINE A == {k \in Nat : \E g : Removes(g, start, removed, k)}
<1>1. 0 \in A
  <2> DEFINE g == [i \in 0 .. 0 |-> start]
  <2>1. Removes(g, start, removed, 0)
    BY DEF Removes
  <2> QED BY <2>1, Zenon
<1>2. ASSUME NEW k \in 0 .. (m - 1), k \in A PROVE k + 1 \in A
  <2>1. PICK g : Removes(g, start, removed, k)
    BY <1>2
  <2> DEFINE n == k + 1
             G(j) == IF j = 0 THEN start ELSE RemoveFirst(g[j - 1], removed[j])
             h == [i \in 0 .. n |-> IF i # n THEN g[i] ELSE RemoveFirst(g[k], removed[n])]
             H(j) == IF j = 0 THEN start ELSE RemoveFirst(h[j - 1], removed[j])
  <2>2. ASSUME NEW i \in 0 .. n PROVE h[i] = H(i)
    <3>1. CASE i = n
      <4>1. n # 0 /\ n - 1 = k /\ k \in 0 .. n /\ k # n
        BY <1>2
      <4>2. h[k] = g[k]
        BY <4>1
      <4> QED BY <3>1, <4>1, <4>2
    <3>2. CASE i # n
      <4>1. i \in 0 .. k /\ (i # 0 => i - 1 \in 0 .. n /\ i - 1 # n)
        BY <1>2, <3>2
      <4>2. g[i] = G(i)
        <5>1. g = [j \in 0 .. k |-> G(j)]
          BY <2>1 DEF Removes
        <5> HIDE DEF G
        <5> QED BY <4>1, <5>1
      <4>3. h[i] = g[i] /\ (i # 0 => h[i - 1] = g[i - 1])
        BY <3>2, <4>1, <1>2
      <4> QED BY <4>2, <4>3
    <3> QED BY <3>1, <3>2
  <2>3. Removes(h, start, removed, n)
    <3>1. h = [i \in 0 .. n |-> h[i]]
      OBVIOUS
    <3> HIDE DEF h
    <3> QED BY <2>2, <3>1 DEF Removes
  <2>4. k + 1 \in Nat
    BY <1>2
  <2> HIDE DEF h
  <2> QED BY <2>3, <2>4
<1> HIDE DEF A
<1>3. \A k \in 0 .. m : k \in A
  BY <1>1, <1>2, UpTo
<1> QED BY <1>3 DEF A

\* One task is removed for each time it is named, as long as there is one.
LEMMA PreparedTimes ==
  ASSUME NEW asked \in Seq(Argument), NEW default \in Seq(Task)
  PROVE  LET base == IF Named("plain", asked) # <<>> THEN Named("plain", asked) ELSE default
             start == base \o Named("append", asked)
             removed == Named("remove", asked)
             result == PreparedTasks(asked, default)
         IN  /\ result \in Seq(Task)
             /\ \A t \in Task : Times(result, t) =
                  IF Times(start, t) > Times(removed, t)
                  THEN Times(start, t) - Times(removed, t) ELSE 0
<1> DEFINE base == IF Named("plain", asked) # <<>> THEN Named("plain", asked) ELSE default
           start == base \o Named("append", asked)
           removed == Named("remove", asked)
           m == Len(removed)
           g == CHOOSE f : Removes(f, start, removed, m)
<1>0. removed \in Seq(Task) /\ m \in Nat /\ start \in Seq(Task)
  <2>1. Named("plain", asked) \in Seq(Task) /\ removed \in Seq(Task)
        /\ Named("append", asked) \in Seq(Task)
    BY NamedTimes
  <2>2. base \in Seq(Task)
    BY <2>1
  <2> HIDE DEF base, removed
  <2> QED BY <2>1, <2>2
<1>1. Removes(g, start, removed, m)
  <2> HIDE DEF start, removed
  <2> QED BY <1>0, RemovesExists
<1>2. PreparedTasks(asked, default) = g[m]
  BY Zenon DEF PreparedTasks, Removes
<1> HIDE DEF g, start, removed
<1> DEFINE Left(t, k) ==
      IF Times(start, t) > Times(SubSeq(removed, 1, k), t)
      THEN Times(start, t) - Times(SubSeq(removed, 1, k), t) ELSE 0
<1> DEFINE Right(k) == g[k] \in Seq(Task) /\ \A t \in Task : Times(g[k], t) = Left(t, k)
<1> DEFINE A == {k \in Nat : Right(k)}
<1>3. 0 \in A
  <2>1. g[0] = start
    BY <1>0, <1>1 DEF Removes
  <2>2. SubSeq(removed, 1, 0) = <<>>
    OBVIOUS
  <2>3. ASSUME NEW t \in Task PROVE Times(g[0], t) = Left(t, 0)
    <3>1. Times(SubSeq(removed, 1, 0), t) = 0
      BY <2>2, TimesEmpty, Zenon
    <3>2. Times(start, t) \in Nat
      BY <1>0, PlacesFinite, Zenon
    <3> QED BY <2>1, <3>1, <3>2
  <2> QED BY <1>0, <2>1, <2>3
<1>4. ASSUME NEW k \in 0 .. (m - 1), k \in A PROVE k + 1 \in A
  <2> DEFINE n == k + 1
             p == SubSeq(removed, 1, k)
             y == removed[n]
  <2>1. n \in 1 .. m /\ n # 0 /\ n - 1 = k /\ n \in 0 .. m /\ n \in Nat
    BY <1>0, <1>4
  <2>2. y \in Task /\ p \in Seq(Task) /\ SubSeq(removed, 1, n) = Append(p, y)
    BY <1>0, <1>4, <2>1
  <2>3. g[n] = RemoveFirst(g[k], y)
    <3> DEFINE G(j) == IF j = 0 THEN start ELSE RemoveFirst(g[j - 1], removed[j])
    <3>1. g = [j \in 0 .. m |-> G(j)]
      BY <1>1 DEF Removes
    <3> HIDE DEF G
    <3>2. g[n] = G(n)
      BY <2>1, <3>1
    <3> QED BY <2>1, <3>2 DEF G
  <2>4. Right(k)
    BY <1>4
  <2>5. /\ g[n] \in Seq(Task)
        /\ \A t \in Task : Times(g[n], t) =
             IF t = y /\ Times(g[k], t) > 0 THEN Times(g[k], t) - 1 ELSE Times(g[k], t)
    <3> DEFINE b == g[k]
    <3>1. b \in Seq(Task) /\ g[n] = RemoveFirst(b, y)
      BY <2>3, <2>4
    <3> HIDE DEF y, n, b
    <3>2. /\ RemoveFirst(b, y) \in Seq(Task)
          /\ \A t \in Task : Times(RemoveFirst(b, y), t) =
               IF t = y /\ Times(b, t) > 0 THEN Times(b, t) - 1 ELSE Times(b, t)
      BY <2>2, <3>1, FirstRemoved
    <3> QED BY <3>1, <3>2 DEF b
  <2>6. ASSUME NEW t \in Task PROVE Times(g[n], t) = Left(t, n)
    <3>1. Times(SubSeq(removed, 1, n), t) = IF y = t THEN Times(p, t) + 1 ELSE Times(p, t)
      <4>1. Times(Append(p, y), t) = IF y = t THEN Times(p, t) + 1 ELSE Times(p, t)
        <5> HIDE DEF p, y
        <5> QED BY <2>2, TimesAppend
      <4> QED BY <2>2, <4>1, Zenon
    <3>2. Times(start, t) \in Nat /\ Times(p, t) \in Nat
      BY <1>0, <2>2, PlacesFinite, Zenon
    <3>3. Times(g[k], t) = IF Times(start, t) > Times(p, t) THEN Times(start, t) - Times(p, t) ELSE 0
      BY <2>4
    <3> HIDE DEF p, y, n
    <3> QED BY <2>5, <3>1, <3>2, <3>3
  <2> HIDE DEF p, y, n, Left
  <2>7. Right(n)
    BY <2>5, <2>6
  <2> HIDE DEF Right
  <2> QED BY <2>1, <2>7 DEF n
<1>5. m \in A
  <2> HIDE DEF A
  <2>1. \A k \in 0 .. m : k \in A
    BY <1>0, <1>3, <1>4, UpTo
  <2> QED BY <1>0, <2>1
<1>6. Right(m)
  BY <1>5
<1>7. SubSeq(removed, 1, m) = removed
  BY <1>0
<1>8. /\ g[m] \in Seq(Task)
      /\ \A t \in Task : Times(g[m], t) =
           IF Times(start, t) > Times(removed, t) THEN Times(start, t) - Times(removed, t) ELSE 0
  <2> HIDE DEF m
  <2> QED BY <1>6, <1>7
<1> QED BY <1>2, <1>8, Zenon DEF start, removed

\* The tasks of a build, and the request they come from.
Requested ==
  /\ requested \in Seq(Argument)
  /\ tasks \in Seq(Task)
  /\ TasksAsRequested

\* The tasks prepared are those the arguments say.
LEMMA PreparedAsRequested ==
  ASSUME Types, PrepareTasks PROVE Requested'
<1>1. PICK asked \in Requests :
        requested' = asked /\ tasks' = PreparedTasks(asked, default_task)
  BY DEF PrepareTasks
<1>2. asked \in Seq(Argument) /\ default_task \in Seq(Task) /\ default_task' = default_task
  BY DEF Types, PrepareTasks, project
<1> DEFINE Plain == \E i \in DOMAIN asked : asked[i].op = "plain"
           Asked(op, t) == Times(asked, [op |-> op, name |-> t])
           Wanted(t) == (IF Plain THEN Asked("plain", t) ELSE Times(default_task, t))
                        + Asked("append", t)
           base == IF Named("plain", asked) # <<>> THEN Named("plain", asked) ELSE default_task
           start == base \o Named("append", asked)
<1>3. /\ Named("plain", asked) \in Seq(Task) /\ Named("append", asked) \in Seq(Task)
      /\ \A op \in {"plain", "append", "remove"}, t \in Task :
           Times(Named(op, asked), t) = Asked(op, t)
  BY <1>2, NamedTimes
<1>4. Plain <=> Named("plain", asked) # <<>>
  <2>1. CASE Plain
    <3>1. PICK i \in DOMAIN asked : asked[i].op = "plain"
      BY <2>1
    <3> DEFINE t == asked[i].name
    <3>2. t \in Task /\ asked[i] = [op |-> "plain", name |-> t]
      <4>1. asked[i] \in Argument
        BY <1>2, <3>1
      <4> QED BY <3>1, <4>1 DEF Argument
    <3>3. Places(asked, [op |-> "plain", name |-> t]) # {}
      BY <3>2 DEF Places
    <3>4. Asked("plain", t) # 0
      <4>1. IsFiniteSet(Places(asked, [op |-> "plain", name |-> t]))
        BY <1>2, PlacesFinite
      <4> QED BY <3>3, <4>1, FS_EmptySet DEF Times, Places
    <3>5. Times(Named("plain", asked), t) # 0
      BY <1>3, <3>2, <3>4
    <3>6. Times(<<>>, t) = 0
      BY TimesEmpty
    <3> QED BY <2>1, <3>5, <3>6, Zenon
  <2>2. CASE Named("plain", asked) # <<>>
    <3> DEFINE s == Named("plain", asked)
    <3>1. 1 \in DOMAIN s /\ s[1] \in Task
      BY <1>3, <2>2
    <3>2. Times(s, s[1]) # 0
      <4>1. IsFiniteSet(Places(s, s[1]))
        BY <1>3, PlacesFinite
      <4>2. Places(s, s[1]) # {}
        BY <3>1 DEF Places
      <4> QED BY <4>1, <4>2, FS_EmptySet DEF Times, Places
    <3>3. Asked("plain", s[1]) # 0
      BY <1>3, <3>1, <3>2
    <3>4. Places(asked, [op |-> "plain", name |-> s[1]]) # {}
      BY <3>3, FS_EmptySet DEF Times, Places
    <3>5. PICK i \in DOMAIN asked : asked[i] = [op |-> "plain", name |-> s[1]]
      BY <3>4 DEF Places
    <3>6. asked[i].op = "plain"
      BY <3>5
    <3> QED BY <2>2, <3>6, Zenon
  <2> QED BY <2>1, <2>2
<1>5. ASSUME NEW t \in Task PROVE Times(start, t) = Wanted(t)
  <2>1. base \in Seq(Task)
    BY <1>2, <1>3
  <2>2. Times(start, t) = Times(base, t) + Times(Named("append", asked), t)
    <3> DEFINE q == Named("append", asked)
    <3>1. q \in Seq(Task)
      BY <1>3
    <3>2. start = base \o q
      OBVIOUS
    <3> HIDE DEF q, base, start
    <3>3. Times(base \o q, t) = Times(base, t) + Times(q, t)
      BY <2>1, <3>1, TimesJoined
    <3> QED BY <3>2, <3>3 DEF q
  <2>3. Times(Named("append", asked), t) = Asked("append", t)
    BY <1>3
  <2>4. Times(base, t) = IF Plain THEN Asked("plain", t) ELSE Times(default_task, t)
    BY <1>3, <1>4
  <2> QED BY <2>2, <2>3, <2>4
<1> DEFINE result == PreparedTasks(asked, default_task)
<1>6. /\ result \in Seq(Task)
      /\ \A t \in Task : Times(result, t) =
           IF Times(start, t) > Times(Named("remove", asked), t)
           THEN Times(start, t) - Times(Named("remove", asked), t) ELSE 0
  BY <1>2, PreparedTimes, Zenon
<1>7. \A t \in Task : Times(result, t) =
        IF Wanted(t) > Asked("remove", t) THEN Wanted(t) - Asked("remove", t) ELSE 0
  <2> HIDE DEF Wanted, Asked, start, result
  <2> QED BY <1>3, <1>5, <1>6
<1> QED BY <1>1, <1>2, <1>6, <1>7, Zenon DEF Requested, TasksAsRequested

\* A step keeps what is said of the tasks.
LEMMA RequestedStep == ASSUME Types, Requested, [Next]_vars PROVE Requested'
<1>1. CASE PrepareTasks
  BY <1>1, PreparedAsRequested
<1>2. CASE ~ PrepareTasks
  <2>1. \/ UNCHANGED <<requested, tasks>>
        \/ requested' = <<>> /\ tasks' = <<>>
    BY <1>2 DEF Next, vars, progress, Begin, UsageError, ShowHelp, Scaffold, Answer,
         Escape, FailBuild, FailListing, PrepareBuild, CreateProject, PatchImport, CollectPlugins, ApplyAttributes,
         CollectDescriptor, RestoreImport, ExecuteInitializer, InitializersExecuted,
         NoTasks, ExecutePlan, ExecuteFinalizer, FinalizersExecuted, Raise
  <2>2. stage' = "tasks" => stage = "tasks" /\ UNCHANGED <<requested, tasks, default_task>>
    BY <1>2 DEF Next, vars, progress, project, Begin, UsageError, ShowHelp, Scaffold,
         Answer, Escape, Return, FailBuild, FailListing, PrepareBuild, CreateProject, PatchImport, CollectPlugins,
         ApplyAttributes, CollectDescriptor, RestoreImport, ExecuteInitializer,
         InitializersExecuted, NoTasks, ExecutePlan, ExecuteFinalizer, FinalizersExecuted, Raise
  <2>3. requested' \in Seq(Argument) /\ tasks' \in Seq(Task)
    <3>1. <<>> \in Seq(Argument) /\ <<>> \in Seq(Task)
      OBVIOUS
    <3> QED BY <2>1, <3>1, Zenon DEF Requested
  <2>4. TasksAsRequested'
    BY <2>2, Zenon DEF Requested, TasksAsRequested
  <2> QED BY <2>3, <2>4 DEF Requested
<1> QED BY <1>1, <1>2

-----------------------------------------------------------------------------

\* The invariant holds in every state a process can reach.
THEOREM Invariance == Spec => []IInv
<1>1. ASSUME IInv, [Next]_vars PROVE IInv'
  BY <1>1, TypesStep, FlowStep, HooksStep, ReadyStep, OverrideStep, ProgressStep DEF IInv
<1> QED
  BY <1>1, Initially, PTL DEF Spec

\* Whatever fails in a build: what is executed is due, in order, once and
\* without a gap, for any number of initializers and finalizers.
THEOREM AlwaysInOrder == Spec => []ExecutedInOrder
<1>1. ASSUME IInv PROVE ExecutedInOrder
  <2>1. CASE done = <<>>
    BY <2>1 DEF ExecutedInOrder
  <2>2. CASE \E n \in Nat : DoneBelow(n)
    <3>1. PICK n \in Nat : DoneBelow(n)
      BY <2>2
    <3>2. /\ \A i \in DOMAIN done : done[i] \in Due /\ Rank(done[i]) < n
          /\ \A e \in Due : Rank(e) \in Nat
      BY <1>1, <3>1, Ranks DEF DoneBelow, IInv
    <3>3. ASSUME NEW i \in DOMAIN done, NEW e \in Due, Rank(e) < Rank(done[i])
          PROVE  \E j \in DOMAIN done : done[j] = e
      <4>1. Rank(e) < n
        BY <3>2, <3>3
      <4> QED
        BY <3>1, <4>1 DEF DoneBelow
    <3> QED
      BY <3>1, <3>3 DEF DoneBelow, ExecutedInOrder
  <2> QED
    BY <1>1, <2>1, <2>2 DEF IInv, Progress
<1> QED
  BY <1>1, Invariance, PTL

\* An exit code of zero means that nothing was raised and that everything the
\* run had to execute is done.
THEOREM ZeroAlwaysMeansDone == Spec => []ZeroMeansDone
<1>1. ASSUME IInv, Ended, outcome[run] = "success"
      PROVE  {done[i] : i \in DOMAIN done} =
               CASE Mode = "build" -> Due
                 [] Mode \in {"info", "plan"} -> {e \in Due : e.what = "initializer"}
                 [] OTHER -> {}
  <2>1. Finished /\ Types
    BY <1>1 DEF IInv, Progress
  <2>2. CASE Mode = "build"
    <3>1. DoneBelow(Count.initializers + Count.finalizers + 2)
      BY <2>1, <2>2 DEF Finished
    <3>2. {done[i] : i \in DOMAIN done} = Due
      BY <2>1, <3>1, Ranks DEF DoneBelow
    <3> QED
      BY <2>2, <3>2
  <2>3. CASE Mode \in {"info", "plan"}
    <3>1. DoneBelow(Count.initializers + 1)
      BY <2>1, <2>3 DEF Finished
    <3>2. {done[i] : i \in DOMAIN done} = {e \in Due : e.what = "initializer"}
      BY <2>1, <3>1, Ranks DEF DoneBelow
    <3> QED
      BY <2>3, <3>2
  <2>4. CASE Mode \notin {"build", "info", "plan"}
    BY <2>1, <2>4 DEF Finished
  <2> QED
    BY <2>2, <2>3, <2>4
<1>2. ASSUME IInv PROVE ZeroMeansDone
  BY <1>1, <1>2 DEF ZeroMeansDone, IInv, Flow
<1> QED
  BY <1>2, Invariance, PTL

\* sys.exit never decides the exit code of a build.
THEOREM ExitsAlwaysContained == Spec => []ExitsContained
<1>1. IInv => ExitsContained
  BY DEF IInv, Flow
<1> QED
  BY <1>1, Invariance, PTL

\* However many runs there are and however they end, the imports that were
\* replaced lead back to the interpreter's, past reactors that did not succeed.
THEOREM HookAlwaysEnds == Spec => []HookEndsAtInterpreter
<1>1. ASSUME IInv, NEW h \in {hook} \cup {saved[r] : r \in Run}, h # 0
      PROVE  /\ saved[h] < h
             /\ outcome[h] # "success"
             /\ outcome[h] = "none" => h = run /\ stage # "idle"
  <2> USE <1>1 DEF IInv, Types, Flow, Hooks
  <2>1. h \in Run /\ h <= run
    <3>1. CASE h = hook
      BY <3>1
    <3>2. CASE \E r \in Run : h = saved[r]
      <4>1. PICK r \in Run : h = saved[r]
        BY <3>2
      <4>2. saved[r] < r /\ r <= run /\ saved[r] \in 0..MaxRuns
        BY <4>1
      <4> QED
        BY <4>1, <4>2
    <3> QED
      BY <3>1, <3>2
  <2>2. outcome[h] # "success"
    <3>1. CASE h = hook /\ h = run
      <4>1. stage \in Patched => stage # "idle"
        BY DEF Patched
      <4> QED
        BY <2>1, <3>1, <4>1 DEF Ended
    <3>2. CASE h = hook /\ h < run
      BY <3>2
    <3>3. CASE \E r \in Run : h = saved[r]
      BY <3>3
    <3> QED
      BY <2>1, <3>1, <3>2, <3>3
  <2>3. outcome[h] = "none" => h = run /\ stage # "idle"
    BY <2>1 DEF Ended
  <2> QED
    BY <2>1, <2>2, <2>3
<1>2. IInv => HookEndsAtInterpreter
  BY <1>1 DEF HookEndsAtInterpreter
<1> QED
  BY <1>2, Invariance, PTL

\* After a zero exit code the current reactor is the one of the run and has its
\* project.
THEOREM ReactorAlwaysReady == Spec => []ReactorIsReady
<1>1. IInv => ReactorIsReady
  BY DEF IInv, Ready
<1> QED
  BY <1>1, Invariance, PTL

\* The value -P gave is lost only to an initializer that calls set_property.
THEOREM OverrideAlwaysLostToSet == Spec => []OverrideLostOnlyToSet
<1>1. IInv => OverrideLostOnlyToSet
  BY DEF IInv, Override
<1> QED
  BY <1>1, Invariance, PTL

\* What is asked for and what is built for go together in every state.
LEMMA AlwaysRequested == Spec => []Requested
<1>1. Init => Requested
  BY DEF Init, Requested, TasksAsRequested
<1>2. ASSUME IInv, Requested, [Next]_vars PROVE Requested'
  BY <1>2, RequestedStep DEF IInv
<1> QED BY <1>1, <1>2, Invariance, PTL DEF Spec

\* The state of a process is of the right type, the tasks to be built included.
THEOREM TypeCorrect == Spec => []TypeOK
<1>1. ASSUME IInv, Requested PROVE TypeOK
  BY <1>1 DEF IInv, Types, Requested, TypeOK, Preparing, Building
<1> QED BY <1>1, AlwaysRequested, Invariance, PTL

\* Whatever tasks the command line names, adds and removes, and whatever the
\* default is, the plan is built for what they amount to.
THEOREM AlwaysAsRequested == Spec => []TasksAsRequested
<1>1. Requested => TasksAsRequested
  BY DEF Requested
<1> QED BY <1>1, AlwaysRequested, PTL

=============================================================================
