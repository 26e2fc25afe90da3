SPECIFICATION Spec
CONSTANTS
  Type <- MCType
  Importable <- MCImportable
  Unpicklable = {"lock"}
  Brittle = {"args"}
  ProxyDef = "proxydef"
  Plain = "plain"
  None = "none"
  Tools = 2
  Values <- MCValues
  Exceptions <- MCExceptions
  Registered <- MCRegistered
  Tests = "suite"
  MaxCalls = 0
  MaxFaults = 0
INVARIANT
  CausePassed
CHECK_DEADLOCK FALSE
