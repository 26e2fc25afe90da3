\* All graphs over three tasks.
CONSTANTS
  a = a
  b = b
  c = c
  unknown = unknown
  Task <- MCTask
  Name <- MCName
  Projects <- MCProjects
SPECIFICATION Spec
INVARIANT TypeOK
INVARIANT PlanIsRight
INVARIANT NoReentrantCall
INVARIANT RefusalIsJustified
PROPERTY ImplementsPlanOrder
PROPERTY PlanBuildingEnds
