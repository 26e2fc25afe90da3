SPECIFICATION Spec
CONSTANTS
  Type <- MCType
  Importable <- MCImportable
  Unpicklable = {"lock"}
  Brittle = {"args"}
  ProxyDef = "proxydef"
  Plain = "plain"
  None = "none"
  Tools = 2
  Values <- MCValues
  Exceptions <- MCExceptions
  Registered <- MCRegistered
  Tests = "suite"
  MaxCalls = 3
  MaxFaults = 2
INVARIANTS
  TypeOK
  AnswerIsOwn
  SentIsFound
  ResultMeansDone
  UnboundMeansExit
PROPERTY
  ToolRunEnds
CHECK_DEADLOCK FALSE
