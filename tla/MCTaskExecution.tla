-------------------------- MODULE MCTaskExecution --------------------------
(***************************************************************************)
(* Four tasks: verify and deploy both need compile, deploy needs verify    *)
(* too; clean stands alone. verify has actions of every kind around two    *)
(* executables, deploy an only_once action and no teardown.                *)
(***************************************************************************)
EXTENDS TaskExecution, TLC

CONSTANTS clean, compile, verify, deploy,
          cleaning, compiling, unit, integration, deploying,
          setUp, report, tearDown1, tearDown2, none

MCTask == {clean, compile, verify, deploy}

Requires(t) == [name |-> t, optional |-> FALSE]

MCDeps == (clean :> <<>>) @@ (compile :> <<>>) @@ (verify :> <<Requires(compile)>>)
            @@ (deploy :> <<Requires(compile), Requires(verify)>>)

Asking(r) ==
  [ deps |-> MCDeps, excludeOptional |-> {}, exclude |-> {},
    excludeAllOptional |-> FALSE, requested |-> r ]

MCBuild == Asking(<<>>)
MCProjects == {MCBuild}

MCPlanOf ==
  (<<verify>> :> <<compile, verify>>)
  @@ (<<clean, verify>> :> <<clean, compile, verify>>)
  @@ (<<deploy>> :> <<compile, verify, deploy>>)

MCRequests == DOMAIN MCPlanOf

\* deploy asks for verify in a build that begins with clean, which nothing needs.
MCPlanAfterClean ==
  (<<verify>> :> <<compile, verify>>)
  @@ (<<clean, deploy>> :> <<clean, compile, verify, deploy>>)

MCRequestsAfterClean == DOMAIN MCPlanAfterClean
MCMentionsAfterClean == [r \in MCRequestsAfterClean |-> Elements(r)]

\* The string "deploy" has no other task name in it.
MCMentions == [r \in MCRequests |-> Elements(r)]

MCCallable == {cleaning, compiling, unit, integration, deploying,
               setUp, report, tearDown1, tearDown2}

At(part, c) == [part |-> part, callable |-> c]

MCSteps ==
  (clean :> <<At("body", cleaning)>>)
  @@ (compile :> <<At("body", compiling)>>)
  @@ (verify :> <<At("before", setUp), At("body", unit), At("body", integration),
                  At("after", tearDown1), At("after", report), At("after", tearDown2)>>)
  @@ (deploy :> <<At("before", setUp), At("body", deploying)>>)

=============================================================================
