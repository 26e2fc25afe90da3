CONSTANTS
  prepare = prepare
  unit = unit
  integration = integration
  cover = cover
  utInit = utInit
  itInit = itInit
  prepareBody = prepareBody
  unitBody = unitBody
  integrationBody = integrationBody
  tearDown = tearDown
  coverageBody = coverageBody
  pybuilder = pybuilder
  test = test
  noEnv = noEnv
  none = none
  Task <- MCTask
  Name <- MCTask
  Projects <- MCProjects
  Build <- MCBuild
  Requests <- MCRequests
  PlanOf <- MCPlanOf
  Mentions <- MCMentions
  Callable <- MCCallable
  Teardown = {tearDown}
  OnlyOnce = {}
  Callers = {unitBody, coverageBody}
  Steps <- MCSteps
  NoTask = none
  MaxCalls = 4
  CoverageTask = cover
  PrepareTask = prepare
  InitActions = {utInit, itInit}
  Covers <- MCCovers
  OwnEnv <- MCOwnEnv
  PrepareBody = prepareBody
  CoverageBody = coverageBody
  Env = {pybuilder, test}
  DefaultEnv = pybuilder
  NoEnv = noEnv
SPECIFICATION CovSpec
INVARIANT CovTypeOK
INVARIANT OverridesBalanced
INVARIANT MeasuredOnceEach
