\* All builds of two small modules.
CONSTANTS
  compile = compile
  package = package
  ghost = ghost
  setUp = setUp
  tearDown = tearDown
  Name <- MCName
  Label <- MCLabel
  Builds <- MCBuilds
SPECIFICATION Spec
INVARIANT TypeOK
INVARIANT ResolvedAsDeclared
INVARIANT UnknownRefused
INVARIANT ActionsAttached
PROPERTY ResolutionEnds
