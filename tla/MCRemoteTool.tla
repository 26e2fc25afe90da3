---------------------------- MODULE MCRemoteTool ----------------------------
(***************************************************************************)
(* Instances of RemoteTool for TLC. The classes: the suites of tests and   *)
(* the test result are registered as remote by their programs; "frame", of *)
(* tblib, found at both ends, stands for any exception with a traceback;   *)
(* "local" is a class only the tests can import, "nested" one that neither *)
(* end finds by its name; "lock" cannot be pickled, and an exception of    *)
(* class "args" not rebuilt, its __init__ wanting more arguments.          *)
(***************************************************************************)
EXTENDS RemoteTool

MCType == {"suite", "result", "frame", "local", "nested", "lock", "args", "proxydef"}
MCImportable ==
  [parent |-> {"result", "frame", "lock", "args", "proxydef"}, child |-> MCType \ {"nested"}]
MCValues == [parent |-> {"result", "lock"}, child |-> {"plain", "local", "nested"}]
MCExceptions == [parent |-> {"frame"}, child |-> {"frame", "args"}]
MCRegistered == [parent |-> {"result"}, child |-> {"suite"}]

=============================================================================
