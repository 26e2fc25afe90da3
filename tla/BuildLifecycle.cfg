\* Two runs of main, with anything raised anywhere.
CONSTANTS
  a = a
  b = b
  env = env
  Task <- MCTask
  Environment <- MCEnvironment
  Contributions <- MCContributions
  Defaults <- MCDefaults
  Requests <- MCRequests
  MaxRuns = 2
SPECIFICATION Spec
INVARIANT TypeOK
INVARIANT ExecutedInOrder
INVARIANT ZeroMeansDone
INVARIANT HookEndsAtInterpreter
INVARIANT ReactorIsReady
INVARIANT TasksAsRequested
CHECK_DEADLOCK FALSE
