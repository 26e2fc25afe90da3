\* A refusal names a task that has failed and been left.
CONSTANTS
  clean = clean
  compile = compile
  verify = verify
  deploy = deploy
  cleaning = cleaning
  compiling = compiling
  unit = unit
  integration = integration
  deploying = deploying
  setUp = setUp
  report = report
  tearDown1 = tearDown1
  tearDown2 = tearDown2
  none = none
  Task <- MCTask
  Name <- MCTask
  Projects <- MCProjects
  Build <- MCBuild
  Requests <- MCRequests
  PlanOf <- MCPlanOf
  Mentions <- MCMentions
  Callable <- MCCallable
  Teardown = {tearDown1, tearDown2}
  OnlyOnce = {setUp, tearDown2}
  Callers = {unit}
  Steps <- MCSteps
  NoTask = none
  MaxCalls = 1
SPECIFICATION Spec
INVARIANT RefusalNamesRunningTask
