----------------------------- MODULE MCCoverage -----------------------------
(***************************************************************************)
(* Unit and integration tests with their coverage_init actions; `coverage` *)
(* needs the unit tests only, so that the integration tests are in its     *)
(* plan before it, after it or not at all. The unit tests may run plans,   *)
(* also while they are measured; the integration tests have a teardown.    *)
(***************************************************************************)
EXTENDS Coverage, TLC

CONSTANTS prepare, unit, integration, cover,
          utInit, itInit, prepareBody, unitBody, integrationBody, tearDown, coverageBody,
          pybuilder, test, noEnv, none

MCTask == {prepare, unit, integration, cover}

Requires(t) == <<[name |-> t, optional |-> FALSE]>>

MCDeps == (prepare :> <<>>) @@ (unit :> Requires(prepare)) @@ (integration :> Requires(prepare))
            @@ (cover :> Requires(unit))

MCBuild ==
  [ deps |-> MCDeps, excludeOptional |-> {}, exclude |-> {},
    excludeAllOptional |-> FALSE, requested |-> <<>> ]
MCProjects == {MCBuild}

MCPlanOf ==
  (<<prepare>> :> <<prepare>>)
  @@ (<<cover>> :> <<prepare, unit, cover>>)
  @@ (<<integration, cover>> :> <<prepare, integration, unit, cover>>)
  @@ (<<cover, integration>> :> <<prepare, unit, cover, integration>>)

MCRequests == DOMAIN MCPlanOf
MCMentions == [r \in MCRequests |-> Elements(r)]

MCCallable == {utInit, itInit, prepareBody, unitBody, integrationBody, tearDown, coverageBody}

At(part, c) == [part |-> part, callable |-> c]

MCSteps ==
  (prepare :> <<At("before", utInit), At("before", itInit), At("body", prepareBody)>>)
  @@ (unit :> <<At("body", unitBody)>>)
  @@ (integration :> <<At("body", integrationBody), At("after", tearDown)>>)
  @@ (cover :> <<At("body", coverageBody)>>)

MCCovers == (utInit :> [task |-> unit, step |-> 1]) @@ (itInit :> [task |-> integration, step |-> 1])
MCOwnEnv == (utInit :> noEnv) @@ (itInit :> test)

=============================================================================
