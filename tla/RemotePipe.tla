----------------------------- MODULE RemotePipe -----------------------------
(***************************************************************************)
(* _RemoteObjectPipe (pybuilder/remote/__init__.py): two processes call    *)
(* each other's objects over one connection. Each end is one thread that   *)
(* serves requests only while it waits for an answer to one of its own, so *)
(* the calls nest: what an end is doing is the stack of its open waits and *)
(* of the functions it serves.                                             *)
(*                                                                         *)
(* The operators below are the methods of the pipe; a program that uses    *)
(* the pipe (RemoteTool) composes them into steps. An object that is sent  *)
(* is known by its class: classes decide whether it travels by value, by   *)
(* reference or not at all.                                                *)
(***************************************************************************)
EXTENDS Naturals, Sequences

CONSTANTS
  Type,        \* classes of the objects sent
  Importable,  \* the classes find_class finds, at each end
  Unpicklable, \* classes whose instances cannot be pickled by value
  Brittle,     \* classes whose instances cannot be rebuilt from their pickle
  ProxyDef,    \* the class of the definitions of proxies
  Plain,       \* stands for the values whose class is never verified
  None

End == {"parent", "child"}
Peer(e) == IF e = "parent" THEN "child" ELSE "parent"

ASSUME RemotePipeAssumption ==
  /\ Importable \in [End -> SUBSET Type]
  /\ Unpicklable \subseteq Type /\ Brittle \subseteq Type
  /\ ProxyDef \in (Importable["parent"] \cap Importable["child"]) \ (Unpicklable \cup Brittle)
  /\ Plain \notin Type /\ None \notin Type /\ Plain # None

VARIABLES
  open,      \* is the end's connection open (not conn.closed)
  net,       \* what is on its way to the end, oldest first
  stack,     \* the open waits and served functions of the end, innermost last
  cause,     \* _remote_close_cause
  verified,  \* _verified_types
  remote,    \* _remote_types, with the classes of the registered objects
  known,     \* classes of the objects in _remote_proxy_defs
  exposed,   \* what the end answers to GET_EXPOSED
  asked,     \* (history) requests sent by the end
  back,      \* how the last call into the pipe made by the end's program ended
  spoiled,   \* (history) a request was given up with the connection open, or
             \* answered twice
  misread    \* (history) an answer was taken by another request than its own,
             \* though nothing was spoiled

pipe == <<open, net, stack, cause, verified, remote, known, exposed, asked, back,
          spoiled, misread>>

Load == Type \cup {Plain, None}

Kind ==
  {"CLOSE", "CLOSE_CLOSED", "PICKLE_VERSION",
   "GET_EXPOSED", "GET_EXPOSED_RESULT", "GET_EXPOSED_ERROR",
   "GET_PROXY_DEF", "GET_PROXY_DEF_RESULT",
   "VERIFY_TYPES", "VERIFY_TYPES_RESULT",
   "CALL", "REMOTE_ERROR", "RETURN", "EXCEPTION"}

\* What waits for an answer, and what is one.
Requests == {"GET_EXPOSED", "GET_PROXY_DEF", "VERIFY_TYPES", "CALL"}
Answers ==
  {"GET_EXPOSED_RESULT", "GET_EXPOSED_ERROR", "GET_PROXY_DEF_RESULT",
   "VERIFY_TYPES_RESULT", "REMOTE_ERROR", "RETURN", "EXCEPTION"}

Message ==
  [ kind : Kind,
    load : Load,
    ref  : BOOLEAN,   \* the load is a PICKLE_PID_TYPE_REMOTE_OBJ
    ok   : BOOLEAN,   \* VERIFY_TYPES_RESULT: the class was found
    of   : Nat ]      \* (history) number of the request, or of the one answered

Msg(kind, load, n) ==
  [kind |-> kind, load |-> load, ref |-> FALSE, ok |-> FALSE, of |-> n]

Nothing == Msg("CLOSE_CLOSED", Plain, 0)

Frame ==
  [ at  : {"receive",   \* receive(), called by the program
           "answer",    \* call, get_exposed: waits for the answer
           "verify",    \* _dump: waits to know how to send msg
           "proxy",     \* loads: waits for the definition of the proxy in msg
           "closing",   \* close(): sends CLOSE, then waits for anything
           "drain",     \* CLOSE was received and answered: waits for anything
           "call",      \* a function called by _recv
           "dud"},      \* None used by _recv in place of a function or object
    n   : Nat,          \* number of the request
    msg : Message ]

Wait(at, n) == [at |-> at, n |-> n, msg |-> Nothing]

Asking == {"answer", "verify", "proxy"}
Serving == {"call", "dud"}

Top(e) == stack[e][Len(stack[e])]
Below(s) == SubSeq(s, 1, Len(s) - 1)
Has(s, kind) == \E i \in DOMAIN s : s[i].at = kind

PipeTypeOK ==
  /\ open \in [End -> BOOLEAN]
  /\ net \in [End -> Seq(Message)]
  /\ stack \in [End -> Seq(Frame)]
  /\ cause \in [End -> Load]
  /\ verified \in [End -> SUBSET Type]
  /\ remote \in [End -> SUBSET Type]
  /\ known \in [End -> SUBSET Type]
  /\ exposed \in [End -> Message]
  /\ asked \in [End -> Nat]
  /\ back \in [End -> {"returned", "none", "error", "shutdown", "exit"}]
  /\ spoiled \in BOOLEAN /\ misread \in BOOLEAN

PipeInit ==
  /\ open = [e \in End |-> TRUE]
  /\ net = [e \in End |-> <<>>]
  /\ stack = [e \in End |-> IF e = "parent" THEN <<Wait("receive", 0)>> ELSE <<>>]
  /\ cause = [e \in End |-> None]
  /\ verified = [e \in End |-> {}]
  /\ remote = [e \in End |-> {}]
  /\ known = [e \in End |-> {}]
  /\ exposed = [e \in End |-> Msg("GET_EXPOSED_RESULT", None, 0)]
  /\ asked = [e \in End |-> 0]
  /\ back = [e \in End |-> "returned"]
  /\ spoiled = FALSE
  /\ misread = FALSE

----------------------------------------------------------------------------
(* An exception on the stack *)

\* The function served innermost, whose code an exception reaches first; 0 for
\* the program itself.
LastCall(s) ==
  IF \E i \in DOMAIN s : s[i].at \in Serving
  THEN CHOOSE i \in DOMAIN s :
         s[i].at \in Serving /\ \A j \in DOMAIN s : s[j].at \in Serving => j <= i
  ELSE 0

\* An exception leaves the waits of s above k. A drain turns it into a
\* PipeShutdownError; close() closes the connection, and swallows that error.
Unwind(e, s, k, how) ==
  LET left == SubSeq(s, k + 1, Len(s))
      turned == IF Has(left, "drain") THEN "shutdown" ELSE how
      closes == turned = "shutdown" \/ Has(left, "closing")
  IN /\ stack' = [stack EXCEPT ![e] = SubSeq(s, 1, k)]
     /\ open' = [open EXCEPT ![e] = @ /\ ~ closes]
     /\ back' = IF k # 0 THEN back
                ELSE [back EXCEPT ![e] = IF turned = "shutdown" /\ Has(left, "closing")
                                         THEN "returned" ELSE turned]
     /\ spoiled' = (spoiled \/ (open[e] /\ ~ closes /\ \E kind \in Asking : Has(left, kind)))

Raise(e, s, how) == Unwind(e, s, LastCall(s), how)

\* _set_remote_close_cause
Caused(e, exc) == IF cause[e] = None THEN [cause EXCEPT ![e] = exc] ELSE cause

----------------------------------------------------------------------------
(* _send_obj *)

\* conn._send_bytes, called with the frames of s open; then those of after are.
\* on is what is under way by then.
Write(e, on, m, s, after) ==
  \/ /\ open[Peer(e)]
     /\ net' = [on EXCEPT ![Peer(e)] = Append(@, m)]
     /\ stack' = [stack EXCEPT ![e] = after]
     /\ UNCHANGED <<open, cause, back, spoiled>>
  \/ /\ ~ open[Peer(e)]
     /\ net' = on
     /\ cause' = Caused(e, Plain)
     /\ Raise(e, s, "shutdown")

\* A request is written; e waits for its answer in a frame of the given kind,
\* holding the message it was made for.
Ask(e, on, m, s, at, held) ==
  /\ asked' = [asked EXCEPT ![e] = @ + 1]
  /\ Write(e, on, [m EXCEPT !.of = asked[e] + 1], s,
           Append(s, [at |-> at, n |-> asked[e] + 1, msg |-> held]))

\* _send_obj with _dump, when the classes in v are verified and those in r are
\* sent by reference: an object of any other class waits for the other end to
\* say whether it finds the class.
SendKnowing(e, on, m, s, v, r) ==
  \/ /\ ~ open[e] \/ m.load \in Unpicklable \ r
     /\ net' = on
     /\ Raise(e, s, "error")
     /\ UNCHANGED <<cause, asked>>
  \/ /\ open[e] /\ m.load \in Type \ (Unpicklable \cup v \cup r)
     /\ Ask(e, on, Msg("VERIFY_TYPES", m.load, 0), s, "verify", m)
  \/ /\ open[e] /\ m.load \notin Type \ (v \cup r) /\ m.load \notin Unpicklable \ r
     /\ IF m.kind \in {"CALL", "GET_EXPOSED"}
        THEN Ask(e, on, [m EXCEPT !.ref = m.load \in r], s, "answer", Nothing)
        ELSE /\ Write(e, on, [m EXCEPT !.ref = m.load \in r], s, s)
             /\ UNCHANGED asked

Send(e, on, m, s) ==
  /\ SendKnowing(e, on, m, s, verified[e], remote[e])
  /\ UNCHANGED <<verified, remote>>

----------------------------------------------------------------------------
(* Calls into the pipe *)

\* The program or a served function runs at e, not the pipe.
InProgram(e) == stack[e] = <<>>
InCall(e) == stack[e] # <<>> /\ Top(e).at = "call"

\* call, call_getattr, call_setattr with an argument of class load.
Call(e, load) ==
  /\ Send(e, net, Msg("CALL", load, 0), stack[e])
  /\ UNCHANGED <<known, exposed, misread>>

\* The answer that a call returns is sent whether it raised or not.
BugAnswerTwice(e, kind, load) ==
  \/ /\ kind = "EXCEPTION" /\ open[e] /\ open[Peer(e)]
     /\ LET m == Msg(kind, Plain, Top(e).n)
        IN net' = [net EXCEPT ![Peer(e)] = @ \o <<m, [m EXCEPT !.kind = "RETURN"]>>]
     /\ stack' = [stack EXCEPT ![e] = Below(@)]
     /\ UNCHANGED <<open, cause, verified, remote, known, exposed, asked, back, spoiled, misread>>
  \/ /\ kind # "EXCEPTION"
     /\ Send(e, net, Msg(kind, load, Top(e).n), Below(stack[e]))
     /\ UNCHANGED <<known, exposed, misread>>

\* The function served returns, or raises an Exception, of class load.
Answer(e, kind, load) ==
  /\ Send(e, net, Msg(kind, load, Top(e).n), Below(stack[e]))
  /\ UNCHANGED <<known, exposed, misread>>

\* A SystemExit or KeyboardInterrupt leaves the function served: _recv lets it
\* pass, and any function below, or the program, may be the one to catch it.
Exit(e) ==
  /\ \E k \in {0} \cup {i \in 1 .. Len(stack[e]) - 1 : stack[e][i].at = "call"} :
       Unwind(e, Below(stack[e]), k, "exit")
  /\ UNCHANGED <<net, cause, verified, remote, known, exposed, asked, misread>>

\* close(exc), on an open connection.
Close(e, exc) ==
  /\ Send(e, net, Msg("CLOSE", exc, 0), <<Wait("closing", 0)>>)
  /\ UNCHANGED <<known, exposed, misread>>

Receive(e) ==
  /\ stack' = [stack EXCEPT ![e] = <<Wait("receive", 0)>>]
  /\ UNCHANGED <<open, net, cause, verified, remote, known, exposed, asked, back,
                 spoiled, misread>>

----------------------------------------------------------------------------
(* _recv_obj *)

Waiting(e) == open[e] /\ stack[e] # <<>> /\ Top(e).at \notin Serving

First(e) == Head(net[e])
Rest(e) == [net EXCEPT ![e] = Tail(@)]

\* The other end is gone and nothing is left to read. A drain minds it not.
EndOfFile(e) ==
  /\ Waiting(e) /\ net[e] = <<>> /\ ~ open[Peer(e)]
  /\ cause' = IF Top(e).at = "drain" THEN cause ELSE Caused(e, Plain)
  /\ Raise(e, stack[e], "shutdown")
  /\ UNCHANGED <<net, verified, remote, known, exposed, asked, misread>>

\* VERIFY_TYPES and its answer carry names of classes, all others an object.
CarriesObject(m) == m.load \in Type /\ m.kind \notin {"VERIFY_TYPES", "VERIFY_TYPES_RESULT"}

UnknownProxy(e, m) == CarriesObject(m) /\ m.ref /\ m.load \notin known[e]

Unloadable(e, m) ==
  CarriesObject(m) /\ ~ m.ref /\ (m.load \in Brittle \/ m.load \notin Importable[e])

\* loads meets a reference to an object it has no proxy for: it asks for the
\* definition, serving requests meanwhile, before the message is received.
GetProxyDef(e) ==
  /\ Waiting(e) /\ net[e] # <<>> /\ UnknownProxy(e, First(e))
  /\ Ask(e, Rest(e), Msg("GET_PROXY_DEF", Plain, 0), stack[e], "proxy", First(e))
  /\ UNCHANGED <<verified, remote, known, exposed, misread>>

\* The frames left when the innermost wait gets m as its answer.
Answered(e, m) ==
  IF m.kind \in Answers /\ m.of = Top(e).n THEN Below(stack[e]) ELSE stack[e]

LoadFails(e) ==
  /\ Waiting(e) /\ net[e] # <<>> /\ Unloadable(e, First(e))
  /\ net' = Rest(e)
  /\ Raise(e, Answered(e, First(e)), "error")
  /\ UNCHANGED <<cause, verified, remote, known, exposed, asked, misread>>

Received(e) ==
  /\ Waiting(e) /\ net[e] # <<>>
  /\ ~ UnknownProxy(e, First(e)) /\ ~ Unloadable(e, First(e))

\* close() and the end of a drain take whatever comes, and close.
LastReceived(e) ==
  /\ Received(e) /\ Top(e).at \in {"closing", "drain"}
  /\ net' = Rest(e)
  /\ Raise(e, stack[e], "shutdown")
  /\ UNCHANGED <<cause, verified, remote, known, exposed, asked, misread>>

----------------------------------------------------------------------------
(* _recv: what the loop does with a message *)

Arrives(e, kinds) ==
  Received(e) /\ Top(e).at \notin {"closing", "drain"} /\ First(e).kind \in kinds

\* The function is called; it runs until it returns or raises.
ServeCall(e) ==
  /\ Arrives(e, {"CALL"})
  /\ stack' = [stack EXCEPT ![e] = Append(@, Wait("call", First(e).of))]
  /\ net' = Rest(e)
  /\ UNCHANGED <<open, cause, verified, remote, known, exposed, asked, back, spoiled, misread>>

\* The object is gone or its attribute not callable any more: either is reported
\* as an error, and then None is used in its place all the same. None called, or
\* given an attribute, raises; asked for one, it has a value to return.
ServeDud(e) ==
  /\ Arrives(e, {"CALL"})
  /\ \/ /\ open[Peer(e)]
        /\ LET error == Msg("REMOTE_ERROR", Plain, First(e).of)
               Reply(answers) == net' = [Rest(e) EXCEPT ![Peer(e)] = @ \o answers]
           IN \/ /\ Reply(<<error>>) \/ Reply(<<error, error>>)
                 /\ stack' = [stack EXCEPT ![e] = Append(@, Wait("dud", First(e).of))]
              \/ /\ Reply(<<error, Msg("RETURN", Plain, First(e).of)>>)
                 /\ UNCHANGED stack
        /\ spoiled' = TRUE
        /\ UNCHANGED <<open, cause, back>>
     \/ /\ ~ open[Peer(e)]
        /\ net' = Rest(e)
        /\ cause' = Caused(e, Plain)
        /\ Raise(e, stack[e], "shutdown")
  /\ UNCHANGED <<verified, remote, known, exposed, asked, misread>>

CallOfNone(e) == stack[e] # <<>> /\ Top(e).at = "dud"

ServeExposed(e) ==
  /\ Arrives(e, {"GET_EXPOSED"})
  /\ Send(e, Rest(e), [exposed[e] EXCEPT !.of = First(e).of], stack[e])
  /\ UNCHANGED <<known, exposed, misread>>

ServeProxyDef(e) ==
  /\ Arrives(e, {"GET_PROXY_DEF"})
  /\ Send(e, Rest(e), Msg("GET_PROXY_DEF_RESULT", ProxyDef, First(e).of), stack[e])
  /\ UNCHANGED <<known, exposed, misread>>

\* A class whose module is found counts as found.
BugNameNotLookedUp(e) ==
  /\ Arrives(e, {"VERIFY_TYPES"})
  /\ verified' = [verified EXCEPT ![e] = @ \cup {First(e).load}]
  /\ Write(e, Rest(e), [Msg("VERIFY_TYPES_RESULT", First(e).load, First(e).of) EXCEPT !.ok = TRUE],
           stack[e], stack[e])
  /\ UNCHANGED <<remote, known, exposed, asked, misread>>

\* find_class finds the class named, which is verified for this end too, or not.
ServeVerifyTypes(e) ==
  /\ Arrives(e, {"VERIFY_TYPES"})
  /\ LET found == First(e).load \in Importable[e]
         result == [Msg("VERIFY_TYPES_RESULT", First(e).load, First(e).of) EXCEPT !.ok = found]
     IN /\ verified' = [verified EXCEPT ![e] = @ \cup (IF found THEN {First(e).load} ELSE {})]
        /\ Write(e, Rest(e), result, stack[e], stack[e])
  /\ UNCHANGED <<remote, known, exposed, asked, misread>>

Misreads(e) == misread' = (misread \/ (~ spoiled /\ First(e).of # Top(e).n))

\* _recv returns what came; what its caller does with it depends on what the
\* caller waits for.
TakeValue(e, v, r) ==
  /\ Misreads(e)
  /\ verified' = [verified EXCEPT ![e] = v]
  /\ remote' = [remote EXCEPT ![e] = r]
  /\ \/ /\ Top(e).at \in {"answer", "receive"}
        /\ net' = Rest(e)
        /\ stack' = [stack EXCEPT ![e] = Below(@)]
        /\ back' = IF Len(stack[e]) > 1 THEN back
                   ELSE [back EXCEPT ![e] = IF First(e).load = None THEN "none" ELSE "returned"]
        /\ UNCHANGED <<open, cause, known, asked, spoiled>>
     \/ /\ Top(e).at = "verify"   \* _dump tries again
        /\ SendKnowing(e, Rest(e), Top(e).msg, Below(stack[e]), v, r)
        /\ UNCHANGED known
     \/ /\ Top(e).at = "proxy" /\ First(e).kind = "GET_PROXY_DEF_RESULT"   \* loads goes on
        /\ known' = [known EXCEPT ![e] = @ \cup {Top(e).msg.load}]
        /\ net' = [net EXCEPT ![e] = <<Top(e).msg>> \o Tail(@)]
        /\ stack' = [stack EXCEPT ![e] = Below(@)]
        /\ UNCHANGED <<open, cause, asked, back, spoiled>>
     \/ /\ Top(e).at = "proxy" /\ First(e).kind # "GET_PROXY_DEF_RESULT"   \* not a definition
        /\ net' = Rest(e)
        /\ Raise(e, Below(stack[e]), "error")
        /\ UNCHANGED <<cause, known, asked>>
  /\ UNCHANGED exposed

TakeAnswer(e) ==
  /\ Arrives(e, {"RETURN", "GET_EXPOSED_RESULT", "GET_PROXY_DEF_RESULT", "PICKLE_VERSION"})
  /\ TakeValue(e, verified[e], remote[e])

\* A class the other end found is sent by value from now on, another one by
\* reference; both have to be found at this end as well. The class this end
\* finds by the name is taken to be the class of the object it is about to send:
\* where another class has that name, the code verifies and registers the other
\* one, and _dump, which looks for the class itself, asks again without end.
TakeVerifyTypesResult(e) ==
  /\ Arrives(e, {"VERIFY_TYPES_RESULT"})
  /\ LET t == First(e).load
     IN \/ /\ t \in Importable[e] /\ First(e).ok
           /\ TakeValue(e, verified[e] \cup {t}, remote[e])
        \/ /\ t \in Importable[e] /\ ~ First(e).ok
           /\ TakeValue(e, verified[e], remote[e] \cup {t})
        \/ /\ t \notin Importable[e]
           /\ Misreads(e)
           /\ net' = Rest(e)
           /\ Raise(e, Below(stack[e]), "error")
           /\ UNCHANGED <<cause, verified, remote, known, exposed, asked>>

\* An answer that is an error, and a message the loop does not understand.
TakeError(e) ==
  /\ Arrives(e, {"EXCEPTION", "REMOTE_ERROR", "GET_EXPOSED_ERROR", "CLOSE_CLOSED"})
  /\ IF First(e).kind = "CLOSE_CLOSED" THEN UNCHANGED misread ELSE Misreads(e)
  /\ net' = Rest(e)
  /\ Raise(e, Answered(e, First(e)), "error")
  /\ UNCHANGED <<cause, verified, remote, known, exposed, asked>>

\* The exception that comes with CLOSE is not kept.
BugCauseNotKept(e) ==
  /\ Arrives(e, {"CLOSE"})
  /\ IF open[Peer(e)]
     THEN /\ net' = [Rest(e) EXCEPT ![Peer(e)] = Append(@, Msg("CLOSE_CLOSED", Plain, 0))]
          /\ stack' = [stack EXCEPT ![e] = Append(@, Wait("drain", 0))]
          /\ UNCHANGED <<open, cause, back, spoiled>>
     ELSE /\ net' = Rest(e)
          /\ cause' = Caused(e, Plain)
          /\ Raise(e, stack[e], "shutdown")
  /\ UNCHANGED <<verified, remote, known, exposed, asked, misread>>

\* CLOSE is not answered before the last message is waited for.
BugCloseNotAnswered(e) ==
  /\ Arrives(e, {"CLOSE"})
  /\ net' = Rest(e)
  /\ cause' = Caused(e, First(e).load)
  /\ stack' = [stack EXCEPT ![e] = Append(@, Wait("drain", 0))]
  /\ UNCHANGED <<open, verified, remote, known, exposed, asked, back, spoiled, misread>>

\* The other end closes: the cause is kept, CLOSE_CLOSED sent, and one message
\* more is waited for before this end closes too.
TakeClose(e) ==
  /\ Arrives(e, {"CLOSE"})
  /\ IF open[Peer(e)]
     THEN /\ net' = [Rest(e) EXCEPT ![Peer(e)] = Append(@, Msg("CLOSE_CLOSED", Plain, 0))]
          /\ cause' = Caused(e, First(e).load)
          /\ stack' = [stack EXCEPT ![e] = Append(@, Wait("drain", 0))]
          /\ UNCHANGED <<open, back, spoiled>>
     ELSE /\ net' = Rest(e)
          /\ cause' = IF First(e).load # None THEN Caused(e, First(e).load) ELSE Caused(e, Plain)
          /\ Raise(e, stack[e], "shutdown")
  /\ UNCHANGED <<verified, remote, known, exposed, asked, misread>>

\* What the pipe does at e while neither its program nor a function runs there.
PipeStep(e) ==
  \/ EndOfFile(e)
  \/ GetProxyDef(e)
  \/ LoadFails(e)
  \/ LastReceived(e)
  \/ ServeCall(e)
  \/ ServeExposed(e)
  \/ ServeProxyDef(e)
  \/ ServeVerifyTypes(e)
  \/ TakeAnswer(e)
  \/ TakeVerifyTypesResult(e)
  \/ TakeError(e)
  \/ TakeClose(e)
=============================================================================
