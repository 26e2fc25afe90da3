----------------------------- MODULE PlanOrder -----------------------------
(***************************************************************************)
(* What ExecutionManager.build_execution_plan promises, without saying how *)
(* the plan is found: wanted tasks are placed one at a time, each after    *)
(* all of its prerequisites and none twice, until every wanted task is     *)
(* placed; or the build is refused, for a reason that really exists.       *)
(***************************************************************************)
EXTENDS PlanGraph

VARIABLES
  project,    \* the project a plan is made for
  plan,       \* the tasks placed so far
  outcome     \* "building", "planned", or the reason for refusing

vars == <<project, plan, outcome>>

Init ==
  /\ project \in Projects
  /\ plan = <<>>
  /\ outcome = "building"

Place(t) ==
  /\ outcome = "building"
  /\ t \in Wanted(project) \ Elements(plan)
  /\ Prerequisites(project, t) \subseteq Elements(plan)
  /\ plan' = Append(plan, t)
  /\ UNCHANGED <<project, outcome>>

Complete ==
  /\ outcome = "building"
  /\ Elements(plan) = Wanted(project)
  /\ ~ HasCycle(project, Reachable(project))
  /\ Elements(project.requested) \subseteq Task
  /\ outcome' = "planned"
  /\ UNCHANGED <<project, plan>>

RefuseUnknown ==
  /\ outcome = "building"
  /\ ~ Elements(project.requested) \subseteq Task
  /\ outcome' = "NoSuchTask"
  /\ UNCHANGED <<project, plan>>

RefuseCircular ==
  /\ outcome = "building"
  /\ HasCycle(project, Reachable(project))
  /\ outcome' = "CircularTaskDependency"
  /\ UNCHANGED <<project, plan>>

RefuseExclusion ==
  /\ outcome = "building"
  /\ \E t \in Wanted(project) : \E d \in Elements(project.deps[t]) : Forbidden(project, d)
  /\ outcome' = "RequiredTaskExclusion"
  /\ UNCHANGED <<project, plan>>

Next ==
  \/ \E t \in Task : Place(t)
  \/ Complete
  \/ RefuseUnknown
  \/ RefuseCircular
  \/ RefuseExclusion

Spec == Init /\ [][Next]_vars

=============================================================================
