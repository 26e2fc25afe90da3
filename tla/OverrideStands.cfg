\* -P against an initializer that sets the property.
CONSTANTS
  a = a
  b = b
  env = env
  Task <- MCTask
  Environment <- MCEnvironment
  Contributions <- MCContributions
  Defaults <- MCDefaults
  Requests <- MCRequests
  MaxRuns = 1
SPECIFICATION Spec
INVARIANT OverrideStands
CHECK_DEADLOCK FALSE
