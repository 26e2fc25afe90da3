\* All worlds of build.py and three plugins.
CONSTANTS
  core = core
  remote = remote
  odd = odd
  lib = lib
  build = build
  Plugin <- MCPlugin
  Root <- build
  Package <- MCPackage
  Provides <- MCProvides
  Worlds <- MCWorlds
SPECIFICATION Spec
INVARIANT TypeOK
INVARIANT ClosureCollected
INVARIANT UsedFirst
INVARIANT OnePlaceEach
INVARIANT RetryIsLast
INVARIANT FailureIsJustified
PROPERTY LoadingEnds
