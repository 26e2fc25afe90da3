\* A task asks for the prerequisites it has had, after `clean`: they run again.
CONSTANTS
  clean = clean
  compile = compile
  verify = verify
  deploy = deploy
  cleaning = cleaning
  compiling = compiling
  unit = unit
  integration = integration
  deploying = deploying
  setUp = setUp
  report = report
  tearDown1 = tearDown1
  tearDown2 = tearDown2
  none = none
  Task <- MCTask
  Name <- MCTask
  Projects <- MCProjects
  Build <- MCBuild
  Requests <- MCRequestsAfterClean
  PlanOf <- MCPlanAfterClean
  Mentions <- MCMentionsAfterClean
  Callable <- MCCallable
  Teardown = {tearDown1, tearDown2}
  OnlyOnce = {setUp, tearDown2}
  Callers = {deploying}
  Steps <- MCSteps
  NoTask = none
  MaxCalls = 1
SPECIFICATION Spec
PROPERTY NothingRepeated
