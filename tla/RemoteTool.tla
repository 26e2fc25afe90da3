----------------------------- MODULE RemoteTool -----------------------------
(***************************************************************************)
(* A run of the unit tests in a tool process: execute_tests_matching       *)
(* (plugins/python/unittest_plugin.py) and start_tool in the process of    *)
(* the build, _instrumented_tool (plugins/python/remote_tools/__init__.py) *)
(* with UnitTestTool (unittest_tool.py) in the process it starts, and the  *)
(* pipe between them. The runner, the tests and the result object call     *)
(* each other across the pipe, in any order and depth; they are the build  *)
(* author's, and may raise or leave as they like.                          *)
(***************************************************************************)
EXTENDS RemotePipe

CONSTANTS
  Tools,       \* how many tools the process is given; the last is UnitTestTool
  Values,      \* classes of the arguments and results sent from each end
  Exceptions,  \* classes of the exceptions raised at each end
  Registered,  \* classes each program registers as remote
  Tests,       \* the class of what is exposed as "unittest_tests"
  MaxCalls,    \* bound: calls made through the pipe
  MaxFaults    \* bound: deaths of processes, SystemExits and objects that
               \* are not callable any more

ASSUME RemoteToolAssumption ==
  /\ Tools \in Nat \ {0}
  /\ Values \in [End -> SUBSET (Type \cup {Plain})]
  /\ Exceptions \in [End -> SUBSET Type]
  /\ Registered \in [End -> SUBSET Type]
  /\ Tests \in Registered["child"]
  /\ MaxCalls \in Nat /\ MaxFaults \in Nat
  \* A class that an end sends and the other one finds, it finds itself.
  /\ \A e \in End : \A t \in Values[e] \cup Exceptions[e] \cup Registered[e] :
       t \in Importable[Peer(e)] => t \in Importable[e]

VARIABLES
  pc,        \* where each program is
  held,      \* how each program ends once the pipe is closed
  code,      \* exit code of the tool process
  started,   \* tools started so far
  stopped,   \* tools stopped so far
  outcome,   \* how execute_tests_matching ends, or "running"
  calls,     \* calls made so far
  faults,    \* faults so far
  attached   \* (history) the exception the tool process passed to close()

program == <<pc, held, code, started, stopped, outcome, attached>>
vars == <<pipe, program, calls, faults>>

ParentPlace == {"version", "fetch", "run", "close", "join", "end"}
ChildPlace == {"spawned", "start", "serve", "stop", "close", "exited"}

Init ==
  /\ PipeInit
  /\ pc = [parent |-> "version", child |-> "spawned"]
  /\ held = [e \in End |-> "nothing"]
  /\ code = 0
  /\ started = 0
  /\ stopped = 0
  /\ outcome = "running"
  /\ calls = 0
  /\ faults = 0
  /\ attached = None

At(e, place) == pc[e] = place /\ InProgram(e)
Goto(e, place) == pc' = [pc EXCEPT ![e] = place]

\* On to `finally: pipe.close()`, and what comes of it is held till then.
ToClose(e, what) ==
  /\ Goto(e, "close")
  /\ held' = [held EXCEPT ![e] = what]
  /\ back' = [back EXCEPT ![e] = "returned"]
  /\ UNCHANGED <<open, net, stack, cause, verified, remote, known, exposed, asked,
                 spoiled, misread>>

----------------------------------------------------------------------------
(* The process of the build *)

\* start_tool: the process ends before it has sent the version.
StartFailed ==
  /\ At("parent", "version") /\ back["parent"] # "returned"
  /\ Goto("parent", "end")
  /\ outcome' = "raised"
  /\ UNCHANGED <<pipe, held, code, started, stopped, attached, calls, faults>>

\* register_remote, register_remote_type, and get_exposed.
GetExposed ==
  /\ At("parent", "version") /\ back["parent"] = "returned"
  /\ Goto("parent", "fetch")
  /\ remote' = [remote EXCEPT !["parent"] = @ \cup Registered["parent"]]
  /\ SendKnowing("parent", net, Msg("GET_EXPOSED", Plain, 0), <<>>, verified["parent"],
                 remote["parent"])
  /\ UNCHANGED <<verified, known, exposed, misread, held, code, started, stopped, outcome,
                 attached, calls, faults>>

Exposed ==
  /\ At("parent", "fetch")
  /\ \/ /\ back["parent"] = "returned"
        /\ Goto("parent", "run")
        /\ UNCHANGED <<pipe, held>>
     \/ /\ back["parent"] \in {"error", "none"}   \* run(None) raises a TypeError
        /\ ToClose("parent", "exception")
     \/ /\ back["parent"] = "shutdown"
        /\ ToClose("parent", "nothing")
  /\ UNCHANGED <<code, started, stopped, outcome, attached, calls, faults>>

\* runner.run is over: with a result or an exception, its own or one that it
\* lets pass. A runner that a call met with PipeShutdownError may let that pass,
\* which says nothing, or swallow it and make a result of what it has.
RunEnds ==
  /\ At("parent", "run")
  /\ \E what \in IF back["parent"] = "shutdown" THEN {"nothing", "salvaged", "exception"}
                                                ELSE {"result", "exception"} :
       ToClose("parent", what)
  /\ UNCHANGED <<code, started, stopped, outcome, attached, calls, faults>>

ParentClose ==
  /\ At("parent", "close") /\ open["parent"]
  /\ Close("parent", None)
  /\ UNCHANGED <<program, calls, faults>>

ParentClosed ==
  /\ At("parent", "close") /\ ~ open["parent"]
  /\ Goto("parent", "join")
  /\ held' = IF back["parent"] = "returned" THEN held
             ELSE [held EXCEPT !["parent"] = "exception"]
  /\ UNCHANGED <<pipe, code, started, stopped, outcome, attached, calls, faults>>

\* proc.join() returns; the exit code, then the cause of the shutdown, then
\* the result are looked at, unless an exception is on its way.
Join ==
  /\ At("parent", "join") /\ pc["child"] = "exited"
  /\ Goto("parent", "end")
  /\ outcome' = CASE held["parent"] = "exception" -> "raised"
                  [] held["parent"] # "exception" /\ code # 0 -> "failed"
                  [] held["parent"] # "exception" /\ code = 0 /\ cause["parent"] # None -> "cause"
                  [] OTHER -> IF held["parent"] = "nothing" THEN "unbound" ELSE "result"
  /\ UNCHANGED <<pipe, held, code, started, stopped, attached, calls, faults>>

----------------------------------------------------------------------------
(* The tool process *)

\* __setstate__ sends the version as the arguments of the process are
\* unpickled; when that fails the process ends.
SendVersion ==
  /\ At("child", "spawned")
  /\ Write("child", net, Msg("PICKLE_VERSION", Plain, 0), <<>>, <<>>)
  /\ IF open["parent"] THEN Goto("child", "start") /\ UNCHANGED code
                       ELSE Goto("child", "exited") /\ code' = 1
  /\ UNCHANGED <<verified, remote, known, exposed, asked, misread, held, started, stopped,
                 outcome, attached, calls, faults>>

\* The last tool is UnitTestTool: it exposes the tests, or the exception that
\* loading them raised.
StartTool ==
  /\ At("child", "start") /\ started < Tools
  /\ started' = started + 1
  /\ IF started + 1 < Tools THEN UNCHANGED <<exposed, remote>>
     ELSE /\ \E answer \in {Msg("GET_EXPOSED_RESULT", Tests, 0)}
                           \cup {Msg("GET_EXPOSED_ERROR", x, 0) : x \in Exceptions["child"]} :
               exposed' = [exposed EXCEPT !["child"] = answer]
          /\ remote' = [remote EXCEPT !["child"] = @ \cup Registered["child"]]
  /\ UNCHANGED <<open, net, stack, cause, verified, known, asked, back, spoiled, misread,
                 pc, held, code, stopped, outcome, attached, calls, faults>>

StartRaises ==
  /\ At("child", "start") /\ started + 1 < Tools
  /\ ToClose("child", "exception")
  /\ UNCHANGED <<code, started, stopped, outcome, attached, calls, faults>>

\* A test module leaves with SystemExit as it is imported.
StartExits ==
  /\ At("child", "start") /\ started + 1 = Tools /\ faults < MaxFaults
  /\ faults' = faults + 1
  /\ code' \in {0, 1}
  /\ ToClose("child", "exit")
  /\ UNCHANGED <<started, stopped, outcome, attached, calls>>

\* while True: pipe.receive()
Listen ==
  /\ \/ At("child", "start") /\ started = Tools
     \/ At("child", "serve") /\ back["child"] = "returned"
  /\ Goto("child", "serve")
  /\ Receive("child")
  /\ UNCHANGED <<held, code, started, stopped, outcome, attached, calls, faults>>

ServeEnds ==
  /\ At("child", "serve")
  /\ \/ /\ back["child"] = "shutdown"
        /\ Goto("child", "stop")
        /\ UNCHANGED <<pipe, held, code>>
     \/ /\ back["child"] = "error"
        /\ ToClose("child", "exception")
        /\ UNCHANGED code
     \/ /\ back["child"] = "exit"
        /\ ToClose("child", "exit")
        /\ code' \in {0, 1}
  /\ UNCHANGED <<started, stopped, outcome, attached, calls, faults>>

\* In reverse. A tool that cannot be stopped leaves the others running, and
\* its exception ends the process.
StopTool ==
  /\ At("child", "stop") /\ stopped < started
  /\ \/ /\ stopped' = stopped + 1
        /\ UNCHANGED <<pipe, pc, held, code>>
     \/ /\ ToClose("child", "exit")
        /\ code' = 1
        /\ UNCHANGED stopped
  /\ UNCHANGED <<started, outcome, attached, calls, faults>>

\* The loop in reverse leaves out the first tool.
BugFirstToolLeft ==
  /\ At("child", "stop") /\ stopped + 1 = started
  /\ ToClose("child", "nothing")
  /\ UNCHANGED <<code, started, stopped, outcome, attached, calls, faults>>

\* The tools are stopped once more.
BugStopAgain ==
  /\ At("child", "stop") /\ stopped = started
  /\ ToClose("child", "nothing")
  /\ stopped' = stopped + 1
  /\ UNCHANGED <<code, started, outcome, attached, calls, faults>>

Stopped ==
  /\ At("child", "stop") /\ stopped = started
  /\ ToClose("child", "nothing")
  /\ UNCHANGED <<code, started, stopped, outcome, attached, calls, faults>>

ChildClose ==
  /\ At("child", "close") /\ open["child"]
  /\ \E exc \in IF held["child"] = "exception" THEN Exceptions["child"] ELSE {None} :
       /\ attached' = exc
       /\ Close("child", exc)
  /\ UNCHANGED <<pc, held, code, started, stopped, outcome, calls, faults>>

\* The process ends, by os._exit(1) if a thread of the tests is still alive.
ChildExits ==
  /\ At("child", "close") /\ ~ open["child"]
  /\ Goto("child", "exited")
  /\ code' \in IF back["child"] = "error" THEN {1} ELSE {code, 1}
  /\ UNCHANGED <<pipe, held, started, stopped, outcome, attached, calls, faults>>

----------------------------------------------------------------------------
(* Runner, tests and results *)

Running(e) == InCall(e) \/ (e = "parent" /\ At(e, "run") /\ back[e] # "shutdown")

CallOther(e) ==
  /\ Running(e) /\ calls < MaxCalls
  /\ calls' = calls + 1
  /\ \E load \in Values[e] : Call(e, load)
  /\ UNCHANGED <<program, faults>>

Return(e) ==
  /\ InCall(e)
  /\ \E load \in Values[e] : Answer(e, "RETURN", load)
  /\ UNCHANGED <<program, calls, faults>>

RaiseException(e) ==
  /\ InCall(e) \/ CallOfNone(e)
  /\ \E load \in Exceptions[e] : Answer(e, "EXCEPTION", load)
  /\ UNCHANGED <<program, calls, faults>>

----------------------------------------------------------------------------
(* Faults *)

NotCallable(e) ==
  /\ faults < MaxFaults
  /\ faults' = faults + 1
  /\ ServeDud(e)
  /\ UNCHANGED <<program, calls>>

ExitCall ==
  /\ InCall("child") /\ faults < MaxFaults
  /\ faults' = faults + 1
  /\ Exit("child")
  /\ UNCHANGED <<program, calls>>

Gone(e) == open' = [open EXCEPT ![e] = FALSE] /\ stack' = [stack EXCEPT ![e] = <<>>]

\* A process is killed, or ends without passing through the code above.
Die(e) ==
  /\ pc[e] \notin {"exited", "end"} /\ faults < MaxFaults
  /\ faults' = faults + 1
  /\ Gone(e)
  /\ Goto(e, IF e = "child" THEN "exited" ELSE "end")
  /\ IF e = "child" THEN code' = 1 /\ UNCHANGED outcome
                    ELSE outcome' = "died" /\ UNCHANGED code
  /\ UNCHANGED <<net, cause, verified, remote, known, exposed, asked, back, spoiled,
                 misread, held, started, stopped, attached, calls>>

----------------------------------------------------------------------------

AppStep(e) == CallOther(e) \/ Return(e) \/ RaiseException(e)

ParentStep ==
  \/ StartFailed \/ GetExposed \/ Exposed \/ RunEnds \/ ParentClose \/ ParentClosed \/ Join
  \/ AppStep("parent")
  \/ PipeStep("parent") /\ UNCHANGED <<program, calls, faults>>

ChildStep ==
  \/ SendVersion \/ StartTool \/ StartRaises \/ Listen \/ ServeEnds \/ StopTool \/ Stopped
  \/ ChildClose \/ ChildExits
  \/ AppStep("child")
  \/ PipeStep("child") /\ UNCHANGED <<program, calls, faults>>

Fault == StartExits \/ ExitCall \/ \E e \in End : NotCallable(e) \/ Die(e)

Ended == pc["parent"] = "end" /\ pc["child"] = "exited"

Finished == Ended /\ UNCHANGED vars

Next == ParentStep \/ ChildStep \/ Fault \/ Finished

\* Both processes run: code of the build author's is assumed to end.
Spec == Init /\ [][Next]_vars /\ WF_vars(ParentStep) /\ WF_vars(ChildStep)
----------------------------------------------------------------------------
(* Properties *)

\* The state is of the right type.
TypeOK ==
  /\ PipeTypeOK
  /\ pc \in [End -> ParentPlace \cup ChildPlace]
  /\ pc["parent"] \in ParentPlace /\ pc["child"] \in ChildPlace
  /\ held \in [End -> {"nothing", "result", "salvaged", "exception", "exit"}]
  /\ code \in {0, 1}
  /\ started \in 0 .. Tools /\ stopped \in 0 .. started
  /\ outcome \in {"running", "raised", "failed", "cause", "result", "unbound", "died"}
  /\ calls \in 0 .. MaxCalls /\ faults \in 0 .. MaxFaults
  /\ attached \in Load

\* An answer is taken by the request it answers, however calls, verifications
\* of classes and definitions of proxies nest, unless a request was given up
\* before its answer came or an object was not callable (_recv pairs answers
\* and requests by their order alone).
AnswerIsOwn == ~ misread

\* No object is sent by value that the other end could not unpickle because it
\* does not find its class, the classes verified being those of both ends
\* (_dump and VERIFY_TYPES).
SentIsFound ==
  \A e \in End : \A i \in DOMAIN net[e] :
    LET m == net[e][i] IN CarriesObject(m) /\ ~ m.ref => m.load \in Importable[e]

\* A result is only reported by execute_tests_matching when the tool process
\* stopped every tool - the coverage is saved by then - and passed no exception
\* to the pipe, unless a request was given up on the way. A runner that makes a
\* result in spite of a PipeShutdownError gets it through only when the tool
\* process left with SystemExit: else the exit code or the cause betrays it.
ResultMeansDone ==
  outcome = "result" /\ ~ spoiled =>
    \/ stopped = Tools /\ attached = None
    \/ held = [parent |-> "salvaged", child |-> "exit"]

\* When `result` is not bound at the return of execute_tests_matching, the tool
\* process left with SystemExit, and an exit code of 0.
UnboundMeansExit == outcome = "unbound" => held["child"] = "exit"

\* A run of the tests comes to an end, whoever closes, fails or dies: the two
\* ends do not wait for each other, unless a request was given up on the way -
\* then each can be left waiting for an answer the other does not owe it.
ToolRunEnds == <>(Ended \/ spoiled)

\* "You can optionally attach an exception to pass to the other end of the
\* pipe" (RemoteObjectPipe.close).
CausePassed == Ended /\ attached # None => cause["parent"] = attached

=============================================================================
