-------------------------- MODULE RemoteToolProofs --------------------------
(***************************************************************************)
(* For any classes, tools, values and bounds of RemoteTool: the state is   *)
(* of its type, and what is sent by value is found by the receiver. Both   *)
(* follow from one invariant, stated as the type of what is under way and  *)
(* of what the ends hold back: a message is good for the end it is on its  *)
(* way to when its class is found there, a name asked about is one that    *)
(* its sender may send, and a class reported as found is found. Frames     *)
(* keep messages while classes are verified and definitions fetched, so    *)
(* what they keep has to be good as well; this is the strengthening that   *)
(* makes the invariant inductive.                                          *)
(*                                                                         *)
(* The second part is about how a run ends: where a CLOSE that comes       *)
(* without an exception can be (Bids), what the frames of an end say about *)
(* the cause it has (Marks), and what the places of the programs say about *)
(* how the child left (Parting).                                           *)
(***************************************************************************)
EXTENDS RemoteTool, SequenceTheorems, WellFoundedInduction, TLAPS

How == {"error", "shutdown", "exit"}
Back == {"returned", "none", "error", "shutdown", "exit"}

Verifying == {"VERIFY_TYPES", "VERIFY_TYPES_RESULT"}

\* A class that e may send: when the other end finds it, so does e.
Sendable(e, t) == t \in Importable[Peer(e)] => t \in Importable[e]

GoodMessage(e, m) ==
  /\ CarriesObject(m) /\ ~ m.ref => m.load \in Importable[e]
  /\ m.kind = "VERIFY_TYPES" => Sendable(Peer(e), m.load)
  /\ m.kind = "VERIFY_TYPES_RESULT" /\ m.ok => m.load \in Importable[Peer(e)]

To(e) == {m \in Message : GoodMessage(e, m)}

GoodFrame(e, f) ==
  /\ f.at = "verify" => Sendable(e, f.msg.load) /\ f.msg.kind \notin Verifying
  /\ f.at = "proxy" => GoodMessage(e, f.msg) /\ CarriesObject(f.msg)

On(e) == {f \in Frame : GoodFrame(e, f)}

Nets == {n \in [End -> Seq(Message)] : \A e \in End : n[e] \in Seq(To(e))}
Stacks == {s \in [End -> Seq(Frame)] : \A e \in End : s[e] \in Seq(On(e))}

Exposures ==
  {x \in [End -> Message] :
     \A e \in End : Sendable(e, x[e].load) /\ x[e].kind \notin Verifying}

Verifications ==
  {v \in [End -> SUBSET Type] : \A e \in End : v[e] \subseteq Importable[Peer(e)]}

\* What a message sent, and an exception, may change.
Moving ==
  /\ open \in [End -> BOOLEAN]
  /\ net \in Nets
  /\ stack \in Stacks
  /\ cause \in [End -> Load]
  /\ back \in [End -> Back]
  /\ spoiled \in BOOLEAN

PipeInv ==
  /\ Moving
  /\ verified \in Verifications
  /\ remote \in [End -> SUBSET Type]
  /\ known \in [End -> SUBSET Type]
  /\ exposed \in Exposures
  /\ asked \in [End -> Nat]
  /\ misread \in BOOLEAN

ProgramInv ==
  /\ pc \in [End -> ParentPlace \cup ChildPlace]
  /\ pc["parent"] \in ParentPlace /\ pc["child"] \in ChildPlace
  /\ held \in [End -> {"nothing", "result", "salvaged", "exception", "exit"}]
  /\ code \in {0, 1}
  /\ started \in 0 .. Tools /\ stopped \in 0 .. started
  /\ outcome \in {"running", "raised", "failed", "cause", "result", "unbound", "died"}
  /\ calls \in 0 .. MaxCalls /\ faults \in 0 .. MaxFaults
  /\ attached \in Load

Inv == PipeInv /\ ProgramInv

----------------------------------------------------------------------------
(* Ends, sequences and messages *)

LEMMA Peers == \A e \in End : Peer(e) \in End /\ Peer(e) # e /\ Peer(Peer(e)) = e
  BY DEF End, Peer

LEMMA Prefix ==
  ASSUME NEW S, NEW s \in Seq(S), NEW k \in 0 .. Len(s)
  PROVE  SubSeq(s, 1, k) \in Seq(S)
  OBVIOUS

\* What is left below the innermost frame.
LEMMA BelowType ==
  ASSUME NEW S, NEW s \in Seq(S), s # <<>>
  PROVE  Below(s) \in Seq(S) /\ Len(Below(s)) = Len(s) - 1
<1>1. Len(s) - 1 \in 0 .. Len(s)
  BY EmptySeq, LenProperties
<1>2. Len(SubSeq(s, 1, Len(s) - 1)) = Len(s) - 1
  <2> DEFINE n == Len(s) - 1
  <2>1. n \in Nat /\ n \in Int /\ 1 \in Int /\ \A i \in 1 .. n : s[i] \in S
    BY <1>1, LenProperties, ElementOfSeq
  <2> HIDE DEF n
  <2>2. Len(SubSeq(s, 1, n)) = IF 1 <= n THEN n - 1 + 1 ELSE 0
    BY <2>1, SubSeqProperties
  <2>3. Len(SubSeq(s, 1, n)) = n
    BY <2>1, <2>2
  <2> QED BY <2>3 DEF n
<1> QED BY <1>1, <1>2, Prefix DEF Below

LEMMA LeastNatural ==
  ASSUME NEW T, T \subseteq Nat, T # {}
  PROVE  \E d \in T : \A c \in T : d <= c
<1>1. PICK d \in T : \A c \in T : ~ (<<c, d>> \in OpToRel(<, Nat))
  BY NatLessThanWellFounded, WFMin
<1>2. \A c \in T : c < d => <<c, d>> \in OpToRel(<, Nat)
  BY DEF OpToRel
<1>3. ASSUME NEW c \in T PROVE d <= c
  <2>1. ~ (c < d)
    BY <1>1, <1>2
  <2>2. c \in Nat /\ d \in Nat
    OBVIOUS
  <2> QED BY <2>1, <2>2
<1> QED BY <1>3

LEMMA LastCallRange ==
  ASSUME NEW s \in Seq(Frame)
  PROVE  /\ LastCall(s) \in 0 .. Len(s)
         /\ LastCall(s) # 0 => s[LastCall(s)].at \in Serving
         /\ \A j \in 1 .. Len(s) : s[j].at \in Serving => j <= LastCall(s)
<1>0. DOMAIN s = 1 .. Len(s) /\ Len(s) \in Nat
  BY LenProperties
<1>1. CASE \E i \in DOMAIN s : s[i].at \in Serving
  <2>1. \E i \in DOMAIN s :
          s[i].at \in Serving /\ \A j \in DOMAIN s : s[j].at \in Serving => j <= i
    <3> DEFINE I == {i \in DOMAIN s : s[i].at \in Serving}
               Behind == {Len(s) - i : i \in I}
    <3>1. I # {} /\ I \subseteq 1 .. Len(s) /\ Len(s) \in Nat
      BY <1>1, LenProperties
    <3>2. Behind \subseteq Nat /\ Behind # {}
      BY <3>1
    <3>3. PICK d \in Behind : \A c \in Behind : d <= c
      <4> HIDE DEF Behind
      <4> QED BY <3>2, LeastNatural
    <3>4. PICK i \in I : d = Len(s) - i
      BY <3>3
    <3>5. ASSUME NEW j \in I PROVE j <= i
      <4>1. Len(s) - j \in Behind /\ i \in Nat /\ j \in Nat
        BY <3>1, <3>4
      <4>2. Len(s) - i <= Len(s) - j
        BY <3>3, <3>4, <4>1
      <4> HIDE DEF Behind, I
      <4> QED BY <3>1, <4>1, <4>2
    <3> QED BY <3>4, <3>5
  <2> QED BY <1>0, <1>1, <2>1 DEF LastCall
<1>2. CASE ~ \E i \in DOMAIN s : s[i].at \in Serving
  BY <1>0, <1>2 DEF LastCall
<1> QED BY <1>1, <1>2

LEMMA MsgType ==
  ASSUME NEW kind \in Kind, NEW load \in Load, NEW n \in Nat
  PROVE  /\ Msg(kind, load, n) \in Message
         /\ Msg(kind, load, n).kind = kind /\ Msg(kind, load, n).load = load
         /\ Msg(kind, load, n).ref = FALSE /\ Msg(kind, load, n).ok = FALSE
  BY DEF Msg, Message

LEMMA WaitType ==
  ASSUME NEW e \in End, NEW n \in Nat,
         NEW at \in {"receive", "answer", "closing", "drain", "call", "dud"}
  PROVE  Wait(at, n) \in On(e)
<1>1. "CLOSE_CLOSED" \in Kind /\ Plain \in Load /\ 0 \in Nat
  BY DEF Kind, Load
<1>2. Nothing \in Message
  BY <1>1, MsgType DEF Nothing
<1> QED BY <1>2 DEF Wait, On, Frame, GoodFrame

\* Every class but the ones of Type can be sent, and ProxyDef can.
LEMMA PlainSendable ==
  ASSUME NEW e \in End
  PROVE  /\ Plain \in Load /\ None \in Load /\ ProxyDef \in Load
         /\ Sendable(e, Plain) /\ Sendable(e, None) /\ Sendable(e, ProxyDef)
<1>1. Importable[e] \subseteq Type /\ Importable[Peer(e)] \subseteq Type
  BY Peers, RemotePipeAssumption
<1>2. ProxyDef \in Importable[e]
  BY RemotePipeAssumption DEF End
<1> QED BY <1>1, <1>2, RemotePipeAssumption DEF Sendable, Load

LEMMA StackUpdate ==
  ASSUME NEW stacks \in Stacks, NEW e \in End, NEW s \in Seq(On(e))
  PROVE  [stacks EXCEPT ![e] = s] \in Stacks
<1>1. s \in Seq(Frame)
  BY SeqMonotonic DEF On
<1> QED BY <1>1 DEF Stacks

LEMMA NetAppend ==
  ASSUME NEW on \in Nets, NEW e \in End, NEW m \in To(e)
  PROVE  [on EXCEPT ![e] = Append(@, m)] \in Nets
<1>1. Append(on[e], m) \in Seq(To(e))
  BY AppendProperties DEF Nets
<1>2. Append(on[e], m) \in Seq(Message)
  BY AppendProperties DEF Nets, To
<1> QED BY <1>1, <1>2 DEF Nets

LEMMA NetExtend ==
  ASSUME NEW on \in Nets, NEW e \in End, NEW s \in Seq(To(e))
  PROVE  [on EXCEPT ![e] = @ \o s] \in Nets
<1>1. on[e] \o s \in Seq(To(e))
  BY ConcatProperties DEF Nets
<1>2. on[e] \o s \in Seq(Message)
  BY <1>1, SeqMonotonic DEF To
<1> QED BY <1>1, <1>2 DEF Nets

\* What the innermost wait of e takes, and what is left of it.
LEMMA Taking ==
  ASSUME PipeInv, NEW e \in End
  PROVE  /\ stack[e] \in Seq(On(e))
         /\ stack[e] # <<>> => Top(e) \in On(e) /\ Below(stack[e]) \in Seq(On(e))
         /\ net[e] # <<>> => First(e) \in To(e) /\ Rest(e) \in Nets
<1>1. stack[e] \in Seq(On(e))
  BY DEF PipeInv, Moving, Stacks
<1>2. ASSUME stack[e] # <<>> PROVE Top(e) \in On(e) /\ Below(stack[e]) \in Seq(On(e))
  <2>1. Len(stack[e]) \in 1 .. Len(stack[e])
    BY <1>1, <1>2, EmptySeq, LenProperties
  <2>2. stack[e][Len(stack[e])] \in On(e)
    BY <1>1, <2>1, ElementOfSeq
  <2> QED BY <1>1, <1>2, <2>2, BelowType DEF Top
<1>3. ASSUME net[e] # <<>> PROVE First(e) \in To(e) /\ Rest(e) \in Nets
  <2>1. net \in [End -> Seq(Message)] /\ net[e] \in Seq(To(e)) /\ net \in Nets
    BY DEF PipeInv, Moving, Nets
  <2>2. Head(net[e]) \in To(e) /\ Tail(net[e]) \in Seq(To(e)) /\ Tail(net[e]) \in Seq(Message)
    BY <1>3, <2>1, HeadTailProperties
  <2> QED BY <2>1, <2>2 DEF First, Rest, Nets
<1> QED BY <1>1, <1>2, <1>3

----------------------------------------------------------------------------
(* Exceptions, and messages sent *)

LEMMA UnwindType ==
  ASSUME PipeInv, NEW e \in End, NEW s \in Seq(On(e)), NEW k \in 0 .. Len(s),
         NEW how \in How, Unwind(e, s, k, how),
         net' \in Nets, cause' \in [End -> Load]
  PROVE  Moving'
<1>1. SubSeq(s, 1, k) \in Seq(On(e))
  BY Prefix
<1>2. stack' \in Stacks
  BY <1>1, StackUpdate DEF Unwind, PipeInv, Moving
<1>3. open' \in [End -> BOOLEAN]
  BY DEF Unwind, PipeInv, Moving
<1>4. back' \in [End -> Back]
  BY DEF Unwind, PipeInv, Moving, Back, How
<1>5. spoiled' \in BOOLEAN
  BY DEF Unwind, PipeInv, Moving
<1> QED BY <1>2, <1>3, <1>4, <1>5 DEF Moving

LEMMA RaiseType ==
  ASSUME PipeInv, NEW e \in End, NEW s \in Seq(On(e)), NEW how \in How, Raise(e, s, how),
         net' \in Nets, cause' \in [End -> Load]
  PROVE  Moving'
<1>1. s \in Seq(Frame)
  BY SeqMonotonic DEF On
<1>2. LastCall(s) \in 0 .. Len(s)
  BY <1>1, LastCallRange
<1> QED BY <1>2, UnwindType DEF Raise

LEMMA CausedType ==
  ASSUME PipeInv, NEW e \in End, NEW exc \in Load
  PROVE  Caused(e, exc) \in [End -> Load]
  BY DEF PipeInv, Moving, Caused

LEMMA WriteType ==
  ASSUME PipeInv, NEW e \in End, NEW on \in Nets, NEW m \in To(Peer(e)),
         NEW s \in Seq(On(e)), NEW after \in Seq(On(e)), Write(e, on, m, s, after)
  PROVE  Moving'
<1>1. CASE /\ open[Peer(e)]
           /\ net' = [on EXCEPT ![Peer(e)] = Append(@, m)]
           /\ stack' = [stack EXCEPT ![e] = after]
           /\ UNCHANGED <<open, cause, back, spoiled>>
  <2>1. net' \in Nets
    BY <1>1, NetAppend, Peers
  <2>2. stack' \in Stacks
    BY <1>1, StackUpdate DEF PipeInv, Moving
  <2> QED BY <1>1, <2>1, <2>2 DEF PipeInv, Moving
<1>2. CASE /\ ~ open[Peer(e)]
           /\ net' = on
           /\ cause' = Caused(e, Plain)
           /\ Raise(e, s, "shutdown")
  <2>1. cause' \in [End -> Load]
    BY <1>2, CausedType, PlainSendable
  <2> QED BY <1>2, <2>1, RaiseType DEF How
<1> QED BY <1>1, <1>2 DEF Write

LEMMA AskType ==
  ASSUME PipeInv, NEW e \in End, NEW on \in Nets, NEW m \in To(Peer(e)),
         NEW s \in Seq(On(e)), NEW at \in Asking, NEW kept \in Message,
         at = "verify" => Sendable(e, kept.load) /\ kept.kind \notin Verifying,
         at = "proxy" => GoodMessage(e, kept) /\ CarriesObject(kept),
         Ask(e, on, m, s, at, kept)
  PROVE  Moving' /\ asked' \in [End -> Nat]
<1>1. asked \in [End -> Nat] /\ asked[e] + 1 \in Nat
  BY DEF PipeInv
<1>2. [m EXCEPT !.of = asked[e] + 1] \in To(Peer(e))
  BY <1>1 DEF To, Message, GoodMessage, CarriesObject
<1>3. [at |-> at, n |-> asked[e] + 1, msg |-> kept] \in On(e)
  BY <1>1 DEF On, Frame, GoodFrame, Asking
<1>4. Append(s, [at |-> at, n |-> asked[e] + 1, msg |-> kept]) \in Seq(On(e))
  BY <1>3, AppendProperties
<1>5. Moving'
  BY <1>2, <1>4, WriteType DEF Ask
<1> QED BY <1>1, <1>5 DEF Ask

\* A message sent by reference, or by value.
LEMMA SentByRef ==
  ASSUME NEW m \in Message, NEW r
  PROVE  LET sent == [m EXCEPT !.ref = m.load \in r]
         IN  /\ sent \in Message /\ sent.kind = m.kind /\ sent.load = m.load
             /\ sent.of = m.of /\ (~ sent.ref => m.load \notin r)
<1> DEFINE sent == [m EXCEPT !.ref = m.load \in r]
<1>1. CASE m.load \in r
  BY <1>1 DEF Message
<1>2. CASE m.load \notin r
  <2>1. (m.load \in r) = FALSE
    BY <1>2
  <2>2. sent = [m EXCEPT !.ref = FALSE]
    BY <2>1
  <2> QED BY <1>2, <2>2 DEF Message
<1> QED BY <1>1, <1>2

LEMMA SendType ==
  ASSUME PipeInv, NEW e \in End, NEW on \in Nets, NEW m \in Message,
         NEW s \in Seq(On(e)), NEW v \in SUBSET Importable[Peer(e)], NEW r,
         m.kind \notin Verifying, Sendable(e, m.load),
         SendKnowing(e, on, m, s, v, r)
  PROVE  Moving' /\ asked' \in [End -> Nat]
<1>1. CASE /\ net' = on
           /\ Raise(e, s, "error")
           /\ UNCHANGED <<cause, asked>>
  BY <1>1, RaiseType DEF How, PipeInv, Moving
<1>2. CASE /\ m.load \in Type
           /\ Ask(e, on, Msg("VERIFY_TYPES", m.load, 0), s, "verify", m)
  <2> DEFINE query == Msg("VERIFY_TYPES", m.load, 0)
  <2>1. query \in Message /\ query.kind = "VERIFY_TYPES" /\ query.load = m.load
    <3>1. "VERIFY_TYPES" \in Kind /\ m.load \in Load /\ 0 \in Nat
      BY DEF Message, Kind
    <3> QED BY <3>1 DEF Msg, Message
  <2>2. query \in To(Peer(e))
    BY <2>1, Peers DEF To, GoodMessage, CarriesObject
  <2> HIDE DEF query
  <2>3. Ask(e, on, query, s, "verify", m)
    BY <1>2 DEF query
  <2> QED BY <2>2, <2>3, AskType DEF Asking
<1>3. CASE m.load \notin Type \ (v \cup r)
  <2> DEFINE sent == [m EXCEPT !.ref = m.load \in r]
  <2>1. sent \in Message /\ sent.kind = m.kind /\ sent.load = m.load
        /\ (~ sent.ref => m.load \notin r)
    BY SentByRef
  <2>2. sent \in To(Peer(e))
    BY <1>3, <2>1 DEF To, GoodMessage, CarriesObject, Verifying
  <2> HIDE DEF sent
  <2>3. CASE Ask(e, on, sent, s, "answer", Nothing)
    <3>1. Nothing \in Message
      BY MsgType DEF Nothing, Kind, Load
    <3> QED BY <2>2, <2>3, <3>1, AskType DEF Asking
  <2>4. CASE Write(e, on, sent, s, s) /\ UNCHANGED asked
    BY <2>2, <2>4, WriteType DEF PipeInv
  <2>5. \/ Ask(e, on, sent, s, "answer", Nothing)
        \/ Write(e, on, sent, s, s) /\ UNCHANGED asked
        \/ net' = on /\ Raise(e, s, "error") /\ UNCHANGED <<cause, asked>>
    BY <1>3 DEF SendKnowing, sent
  <2> QED BY <1>1, <2>3, <2>4, <2>5
<1> QED BY <1>1, <1>2, <1>3 DEF SendKnowing

\* The same through _send_obj, from the classes the pipe keeps.
LEMMA SentByPipe ==
  ASSUME PipeInv, NEW e \in End, NEW on \in Nets, NEW m \in Message, NEW s \in Seq(On(e)),
         m.kind \notin Verifying, Sendable(e, m.load), Send(e, on, m, s),
         UNCHANGED <<known, exposed, misread>>
  PROVE  PipeInv'
<1>1. verified[e] \in SUBSET Importable[Peer(e)]
  BY DEF PipeInv, Verifications
<1>2. Moving' /\ asked' \in [End -> Nat]
  BY <1>1, SendType DEF Send
<1> QED BY <1>2 DEF PipeInv, Send

\* A message of the program, or of the pipe itself.
LEMMA Made ==
  ASSUME NEW kind \in Kind \ Verifying, NEW load \in Load, NEW n \in Nat
  PROVE  /\ Msg(kind, load, n) \in Message
         /\ Msg(kind, load, n).kind \notin Verifying /\ Msg(kind, load, n).load = load
  BY MsgType

----------------------------------------------------------------------------
(* Calls into the pipe *)

LEMMA CallType ==
  ASSUME PipeInv, NEW e \in End, NEW load \in Load, Sendable(e, load), Call(e, load)
  PROVE  PipeInv'
<1>1. "CALL" \in Kind \ Verifying /\ net \in Nets /\ stack[e] \in Seq(On(e))
  BY Taking DEF Kind, Verifying, PipeInv, Moving
<1> QED BY <1>1, Made, SentByPipe DEF Call

LEMMA AnswerType ==
  ASSUME PipeInv, NEW e \in End, NEW load \in Load, Sendable(e, load),
         NEW kind \in {"RETURN", "EXCEPTION"}, stack[e] # <<>>, Answer(e, kind, load)
  PROVE  PipeInv'
<1>1. kind \in Kind \ Verifying /\ net \in Nets
  BY DEF Kind, Verifying, PipeInv, Moving
<1>2. Below(stack[e]) \in Seq(On(e)) /\ Top(e).n \in Nat
  BY Taking DEF On, Frame
<1> QED BY <1>1, <1>2, Made, SentByPipe DEF Answer

LEMMA ExitType ==
  ASSUME PipeInv, NEW e \in End, stack[e] # <<>>, Exit(e)
  PROVE  PipeInv'
<1>1. PICK k \in {0} \cup {i \in 1 .. Len(stack[e]) - 1 : stack[e][i].at = "call"} :
        Unwind(e, Below(stack[e]), k, "exit")
  BY DEF Exit
<1>2. stack[e] \in Seq(On(e)) /\ Below(stack[e]) \in Seq(On(e))
      /\ Len(Below(stack[e])) = Len(stack[e]) - 1
  BY Taking, BelowType
<1>3. k \in 0 .. Len(Below(stack[e]))
  BY <1>2, LenProperties
<1>4. Moving'
  BY <1>1, <1>2, <1>3, UnwindType DEF How, Exit, PipeInv, Moving
<1> QED BY <1>4 DEF PipeInv, Exit

LEMMA CloseType ==
  ASSUME PipeInv, NEW e \in End, NEW exc \in Load, Sendable(e, exc), Close(e, exc)
  PROVE  PipeInv'
<1>1. "CLOSE" \in Kind \ Verifying /\ net \in Nets
  BY DEF Kind, Verifying, PipeInv, Moving
<1>2. <<Wait("closing", 0)>> \in Seq(On(e))
  BY WaitType
<1> QED BY <1>1, <1>2, Made, SentByPipe DEF Close

LEMMA ReceiveType ==
  ASSUME PipeInv, NEW e \in End, Receive(e)
  PROVE  PipeInv'
<1>1. <<Wait("receive", 0)>> \in Seq(On(e))
  BY WaitType
<1> QED BY <1>1, StackUpdate DEF Receive, PipeInv, Moving

----------------------------------------------------------------------------
(* What the pipe does with what comes *)

LEMMA EndOfFileType ==
  ASSUME PipeInv, NEW e \in End, EndOfFile(e)
  PROVE  PipeInv'
<1>1. cause' \in [End -> Load]
  BY CausedType, PlainSendable DEF EndOfFile, PipeInv, Moving
<1>2. Moving'
  BY <1>1, Taking, RaiseType DEF EndOfFile, How, PipeInv, Moving
<1> QED BY <1>2 DEF EndOfFile, PipeInv

LEMMA GetProxyDefType ==
  ASSUME PipeInv, NEW e \in End, GetProxyDef(e)
  PROVE  PipeInv'
<1> DEFINE query == Msg("GET_PROXY_DEF", Plain, 0)
<1>1. First(e) \in To(e) /\ Rest(e) \in Nets /\ stack[e] \in Seq(On(e))
  BY Taking DEF GetProxyDef
<1>2. query \in Message /\ query.kind = "GET_PROXY_DEF" /\ query.load \notin Type
  <2>1. "GET_PROXY_DEF" \in Kind /\ Plain \in Load /\ Plain \notin Type
    BY RemotePipeAssumption DEF Kind, Load
  <2> QED BY <2>1 DEF Msg, Message
<1>3. query \in To(Peer(e))
  BY <1>2 DEF To, GoodMessage, CarriesObject
<1> HIDE DEF query
<1>4. Ask(e, Rest(e), query, stack[e], "proxy", First(e))
  BY DEF GetProxyDef, query
<1>5. First(e) \in Message /\ GoodMessage(e, First(e)) /\ CarriesObject(First(e))
  BY <1>1 DEF To, GetProxyDef, UnknownProxy
<1>6. Moving' /\ asked' \in [End -> Nat]
  BY <1>1, <1>3, <1>4, <1>5, AskType DEF Asking
<1> QED BY <1>6 DEF GetProxyDef, PipeInv

LEMMA RaisedType ==
  ASSUME PipeInv, NEW e \in End, NEW s \in Seq(On(e)), NEW how \in How,
         net[e] # <<>>, net' = Rest(e), Raise(e, s, how), UNCHANGED cause
  PROVE  Moving'
<1>1. net' \in Nets /\ cause' \in [End -> Load]
  BY Taking DEF PipeInv, Moving
<1> QED BY <1>1, RaiseType

LEMMA AnsweredType ==
  ASSUME PipeInv, NEW e \in End, NEW m, stack[e] # <<>>
  PROVE  Answered(e, m) \in Seq(On(e))
  BY Taking DEF Answered

LEMMA LoadFailsType ==
  ASSUME PipeInv, NEW e \in End, LoadFails(e)
  PROVE  PipeInv'
<1>1. Moving'
  BY AnsweredType, RaisedType DEF LoadFails, Waiting, How
<1> QED BY <1>1 DEF LoadFails, PipeInv

LEMMA LastReceivedType ==
  ASSUME PipeInv, NEW e \in End, LastReceived(e)
  PROVE  PipeInv'
<1>1. Moving'
  BY Taking, RaisedType DEF LastReceived, Received, How
<1> QED BY <1>1 DEF LastReceived, PipeInv

LEMMA Arrived ==
  ASSUME PipeInv, NEW e \in End, NEW kinds, Arrives(e, kinds)
  PROVE  /\ net[e] # <<>> /\ stack[e] # <<>> /\ First(e).kind \in kinds
         /\ First(e) \in To(e) /\ First(e).of \in Nat /\ First(e).load \in Load
         /\ Rest(e) \in Nets /\ stack[e] \in Seq(On(e)) /\ Below(stack[e]) \in Seq(On(e))
         /\ Top(e) \in On(e)
  BY Taking DEF Arrives, Received, Waiting, To, Message

\* A frame opened on what came.
LEMMA Opened ==
  ASSUME PipeInv, NEW e \in End, stack[e] # <<>>, NEW n \in Nat,
         NEW at \in {"receive", "answer", "closing", "drain", "call", "dud"}
  PROVE  [stack EXCEPT ![e] = Append(@, Wait(at, n))] \in Stacks
<1>1. Append(stack[e], Wait(at, n)) \in Seq(On(e))
  BY Taking, WaitType, AppendProperties
<1>2. stack \in [End -> Seq(Frame)] /\ stack \in Stacks
  BY DEF PipeInv, Moving, Stacks
<1> QED BY <1>1, <1>2, StackUpdate

LEMMA ServeCallType ==
  ASSUME PipeInv, NEW e \in End, ServeCall(e)
  PROVE  PipeInv'
<1>1. stack' \in Stacks /\ net' \in Nets
  BY Arrived, Opened DEF ServeCall
<1> QED BY <1>1 DEF ServeCall, PipeInv, Moving

\* An answer that is no object of Type.
LEMMA PlainAnswer ==
  ASSUME PipeInv, NEW e \in End, NEW on \in Nets, NEW n \in Nat,
         NEW kind \in {"REMOTE_ERROR", "CLOSE_CLOSED", "PICKLE_VERSION"}
  PROVE  [on EXCEPT ![Peer(e)] = Append(@, Msg(kind, Plain, n))] \in Nets
<1> DEFINE m == Msg(kind, Plain, n)
<1>1. m \in Message /\ m.kind = kind /\ m.load \notin Type
  <2>1. kind \in Kind /\ Plain \in Load /\ Plain \notin Type
    BY RemotePipeAssumption DEF Kind, Load
  <2> QED BY <2>1 DEF Msg, Message
<1>2. m \in To(Peer(e))
  BY <1>1 DEF To, GoodMessage, CarriesObject
<1> QED BY <1>2, NetAppend, Peers

\* What is answered where there is no object, or nothing to call.
DudAnswers(n) ==
  LET error == Msg("REMOTE_ERROR", Plain, n)
  IN {<<error>>, <<error, error>>, <<error, Msg("RETURN", Plain, n)>>}

LEMMA DudAnswered ==
  ASSUME NEW e \in End, ServeDud(e), open[Peer(e)]
  PROVE  /\ \E answers \in DudAnswers(First(e).of) :
              net' = [Rest(e) EXCEPT ![Peer(e)] = @ \o answers]
         /\ \/ stack' = [stack EXCEPT ![e] = Append(@, Wait("dud", First(e).of))]
            \/ UNCHANGED stack
         /\ spoiled' = TRUE /\ UNCHANGED <<open, cause, back>>
  BY DEF ServeDud, DudAnswers

LEMMA DudMessages ==
  ASSUME NEW n \in Nat, NEW answers \in DudAnswers(n)
  PROVE  answers \in Seq({m \in Message : /\ m.kind \in {"REMOTE_ERROR", "RETURN"}
                                           /\ m.load \notin Type})
<1> DEFINE S == {m \in Message : m.kind \in {"REMOTE_ERROR", "RETURN"} /\ m.load \notin Type}
<1>1. ASSUME NEW kind \in {"REMOTE_ERROR", "RETURN"} PROVE Msg(kind, Plain, n) \in S
  <2>1. kind \in Kind /\ Plain \in Load /\ Plain \notin Type
    BY RemotePipeAssumption DEF Kind, Load
  <2> QED BY <2>1 DEF Msg, Message
<1>2. Msg("REMOTE_ERROR", Plain, n) \in S /\ Msg("RETURN", Plain, n) \in S
  BY <1>1
<1> HIDE DEF S
<1>3. ASSUME NEW a \in S, NEW b \in S PROVE <<a>> \in Seq(S) /\ <<a, b>> \in Seq(S)
  OBVIOUS
<1>4. \/ answers = <<Msg("REMOTE_ERROR", Plain, n)>>
      \/ answers = <<Msg("REMOTE_ERROR", Plain, n), Msg("REMOTE_ERROR", Plain, n)>>
      \/ answers = <<Msg("REMOTE_ERROR", Plain, n), Msg("RETURN", Plain, n)>>
  BY DEF DudAnswers
<1>5. answers \in Seq(S)
  BY <1>2, <1>3, <1>4
<1> QED BY <1>5 DEF S

LEMMA ServeDudType ==
  ASSUME PipeInv, NEW e \in End, ServeDud(e)
  PROVE  PipeInv'
<1>1. Rest(e) \in Nets /\ First(e).of \in Nat /\ stack[e] # <<>> /\ net[e] # <<>>
  BY Arrived DEF ServeDud
<1>2. CASE open[Peer(e)]
  <2>1. PICK answers \in DudAnswers(First(e).of) :
          net' = [Rest(e) EXCEPT ![Peer(e)] = @ \o answers]
    BY <1>2, DudAnswered
  <2>2. answers \in Seq(To(Peer(e)))
    <3>1. {m \in Message : m.kind \in {"REMOTE_ERROR", "RETURN"} /\ m.load \notin Type}
            \subseteq To(Peer(e))
      BY DEF To, GoodMessage, CarriesObject
    <3> QED BY <1>1, <3>1, DudMessages, SeqMonotonic
  <2>3. net' \in Nets
    BY <1>1, <2>1, <2>2, NetExtend, Peers
  <2>4. stack' \in Stacks
    <3>1. [stack EXCEPT ![e] = Append(@, Wait("dud", First(e).of))] \in Stacks /\ stack \in Stacks
      BY <1>1, Opened DEF PipeInv, Moving
    <3>2. \/ stack' = [stack EXCEPT ![e] = Append(@, Wait("dud", First(e).of))]
          \/ UNCHANGED stack
      BY <1>2, DudAnswered
    <3> QED BY <3>1, <3>2
  <2> QED BY <1>2, <2>3, <2>4, DudAnswered DEF ServeDud, PipeInv, Moving
<1>3. CASE ~ open[Peer(e)]
  <2>0. net' = Rest(e) /\ cause' = Caused(e, Plain) /\ Raise(e, stack[e], "shutdown")
    BY <1>3 DEF ServeDud
  <2>1. cause' \in [End -> Load]
    BY <2>0, CausedType, PlainSendable
  <2>2. Moving'
    BY <1>1, <2>0, <2>1, Taking, RaiseType DEF How
  <2> QED BY <2>2 DEF ServeDud, PipeInv
<1> QED BY <1>2, <1>3

LEMMA ServeExposedType ==
  ASSUME PipeInv, NEW e \in End, ServeExposed(e)
  PROVE  PipeInv'
<1> DEFINE answer == [exposed[e] EXCEPT !.of = First(e).of]
<1>1. Rest(e) \in Nets /\ First(e).of \in Nat /\ stack[e] \in Seq(On(e))
  BY Arrived DEF ServeExposed
<1>2. exposed[e] \in Message /\ Sendable(e, exposed[e].load) /\ exposed[e].kind \notin Verifying
  BY DEF PipeInv, Exposures
<1>3. answer \in Message /\ answer.kind \notin Verifying /\ Sendable(e, answer.load)
  BY <1>1, <1>2 DEF Message
<1> HIDE DEF answer
<1>4. Send(e, Rest(e), answer, stack[e]) /\ UNCHANGED <<known, exposed, misread>>
  BY DEF ServeExposed, answer
<1> QED BY <1>1, <1>3, <1>4, SentByPipe

LEMMA ServeProxyDefType ==
  ASSUME PipeInv, NEW e \in End, ServeProxyDef(e)
  PROVE  PipeInv'
<1>1. Rest(e) \in Nets /\ First(e).of \in Nat /\ stack[e] \in Seq(On(e))
  BY Arrived DEF ServeProxyDef
<1>2. "GET_PROXY_DEF_RESULT" \in Kind \ Verifying
  BY DEF Kind, Verifying
<1> QED BY <1>1, <1>2, Made, PlainSendable, SentByPipe DEF ServeProxyDef

\* The class asked about is found here, so that its asker finds it as well.
LEMMA VerdictGood ==
  ASSUME PipeInv, NEW e \in End, ServeVerifyTypes(e)
  PROVE  /\ \E answer \in To(Peer(e)) :
              /\ answer.kind = "VERIFY_TYPES_RESULT"
              /\ answer.load = First(e).load /\ answer.of = First(e).of
              /\ Write(e, Rest(e), answer, stack[e], stack[e])
         /\ verified' \in Verifications
<1> DEFINE t == First(e).load
           found == t \in Importable[e]
           answer == [Msg("VERIFY_TYPES_RESULT", t, First(e).of) EXCEPT !.ok = found]
<1>1. /\ Rest(e) \in Nets /\ First(e).of \in Nat /\ t \in Load
      /\ stack[e] \in Seq(On(e)) /\ First(e) \in To(e) /\ First(e).kind = "VERIFY_TYPES"
  BY Arrived DEF ServeVerifyTypes
<1>2. found => t \in Importable[Peer(e)] /\ t \in Type
  BY <1>1, Peers, RemotePipeAssumption DEF To, GoodMessage, Sendable
<1>3. /\ answer \in To(Peer(e)) /\ answer.kind = "VERIFY_TYPES_RESULT" /\ answer.load = t
      /\ answer.of = First(e).of
  <2> DEFINE m == Msg("VERIFY_TYPES_RESULT", t, First(e).of)
  <2>1. "VERIFY_TYPES_RESULT" \in Kind
    BY DEF Kind
  <2>2. m \in Message /\ m.kind = "VERIFY_TYPES_RESULT" /\ m.load = t /\ m.of = First(e).of
    BY <1>1, <2>1 DEF Msg, Message
  <2>3. CASE found
    <3>1. answer = [m EXCEPT !.ok = TRUE]
      BY <2>3
    <3>2. /\ answer \in Message /\ answer.kind = "VERIFY_TYPES_RESULT" /\ answer.load = t
          /\ answer.of = First(e).of
      BY <2>2, <3>1 DEF Message
    <3> QED BY <1>2, <2>3, <3>2, Peers DEF To, GoodMessage, CarriesObject
  <2>4. CASE ~ found
    <3>0. found = FALSE
      BY <2>4
    <3>1. answer = [m EXCEPT !.ok = FALSE]
      BY <3>0
    <3>2. /\ answer \in Message /\ answer.kind = "VERIFY_TYPES_RESULT" /\ answer.load = t
          /\ answer.of = First(e).of /\ answer.ok = FALSE
      BY <2>2, <3>1 DEF Message
    <3> QED BY <3>2 DEF To, GoodMessage, CarriesObject
  <2> QED BY <2>3, <2>4
<1>4. verified' \in Verifications
  BY <1>2, Peers DEF ServeVerifyTypes, PipeInv, Verifications
<1> HIDE DEF answer
<1>5. Write(e, Rest(e), answer, stack[e], stack[e])
  BY DEF ServeVerifyTypes, answer
<1> QED BY <1>3, <1>4, <1>5

LEMMA ServeVerifyTypesType ==
  ASSUME PipeInv, NEW e \in End, ServeVerifyTypes(e)
  PROVE  PipeInv'
<1>1. Rest(e) \in Nets /\ stack[e] \in Seq(On(e))
  BY Arrived DEF ServeVerifyTypes
<1>2. PICK answer \in To(Peer(e)) : Write(e, Rest(e), answer, stack[e], stack[e])
  BY VerdictGood
<1>3. Moving'
  BY <1>1, <1>2, WriteType
<1>4. verified' \in Verifications
  BY VerdictGood
<1> QED BY <1>3, <1>4 DEF ServeVerifyTypes, PipeInv

LEMMA TakeValueType ==
  ASSUME PipeInv, NEW e \in End, NEW kinds, Arrives(e, kinds),
         NEW v \in SUBSET Importable[Peer(e)], NEW r \in SUBSET Type, TakeValue(e, v, r)
  PROVE  PipeInv'
<1>1. /\ net[e] # <<>> /\ stack[e] # <<>> /\ First(e) \in To(e)
      /\ Rest(e) \in Nets /\ stack[e] \in Seq(On(e)) /\ Below(stack[e]) \in Seq(On(e))
      /\ Top(e) \in On(e)
  BY Arrived
<1>2. misread' \in BOOLEAN
  BY DEF TakeValue, Misreads, PipeInv
<1>3. verified' \in Verifications /\ remote' \in [End -> SUBSET Type] /\ exposed' \in Exposures
  <2>1. v \in SUBSET Type
    BY Peers, RemotePipeAssumption
  <2> QED BY <2>1 DEF TakeValue, PipeInv, Verifications
<1>4. [stack EXCEPT ![e] = Below(@)] \in Stacks
  <2>1. stack \in [End -> Seq(Frame)] /\ stack \in Stacks
    BY DEF PipeInv, Moving, Stacks
  <2> QED BY <1>1, <2>1, StackUpdate
<1>5. CASE /\ net' = Rest(e)
           /\ stack' = [stack EXCEPT ![e] = Below(@)]
           /\ back' = IF Len(stack[e]) > 1 THEN back
                      ELSE [back EXCEPT ![e] = IF First(e).load = None THEN "none" ELSE "returned"]
           /\ UNCHANGED <<open, cause, known, asked, spoiled>>
  <2>1. back' \in [End -> Back]
    BY <1>5 DEF PipeInv, Moving, Back
  <2> QED BY <1>1, <1>2, <1>3, <1>4, <1>5, <2>1 DEF PipeInv, Moving
<1>6. CASE /\ Top(e).at = "verify"
           /\ SendKnowing(e, Rest(e), Top(e).msg, Below(stack[e]), v, r)
           /\ UNCHANGED known
  <2>1. /\ Top(e).msg \in Message /\ Top(e).msg.kind \notin Verifying
        /\ Sendable(e, Top(e).msg.load)
    BY <1>1, <1>6 DEF On, Frame, GoodFrame
  <2>2. Moving' /\ asked' \in [End -> Nat]
    BY <1>1, <1>6, <2>1, SendType
  <2> QED BY <1>2, <1>3, <1>6, <2>2 DEF PipeInv
<1>7. CASE /\ Top(e).at = "proxy"
           /\ known' = [known EXCEPT ![e] = @ \cup {Top(e).msg.load}]
           /\ net' = [net EXCEPT ![e] = <<Top(e).msg>> \o Tail(@)]
           /\ stack' = [stack EXCEPT ![e] = Below(@)]
           /\ UNCHANGED <<open, cause, asked, back, spoiled>>
  <2>1. Top(e).msg \in To(e) /\ Top(e).msg.load \in Type
    BY <1>1, <1>7 DEF On, Frame, GoodFrame, To, CarriesObject
  <2>2. known' \in [End -> SUBSET Type]
    BY <1>7, <2>1 DEF PipeInv
  <2>3. net' \in Nets
    <3>1. net \in [End -> Seq(Message)] /\ net[e] \in Seq(To(e)) /\ net \in Nets
      BY DEF PipeInv, Moving, Nets
    <3>2. Tail(net[e]) \in Seq(To(e))
      BY <1>1, <3>1, HeadTailProperties
    <3>3. <<Top(e).msg>> \o Tail(net[e]) \in Seq(To(e))
      BY <2>1, <3>2, ConcatProperties
    <3>4. <<Top(e).msg>> \o Tail(net[e]) \in Seq(Message)
      BY <3>3, SeqMonotonic DEF To
    <3> QED BY <1>7, <3>1, <3>3, <3>4 DEF Nets
  <2> QED BY <1>2, <1>3, <1>4, <1>7, <2>2, <2>3 DEF PipeInv, Moving
<1>8. CASE /\ net' = Rest(e)
           /\ Raise(e, Below(stack[e]), "error")
           /\ UNCHANGED <<cause, known, asked>>
  <2>1. Moving'
    BY <1>1, <1>8, RaisedType DEF How
  <2> QED BY <1>2, <1>3, <1>8, <2>1 DEF PipeInv
<1> QED BY <1>5, <1>6, <1>7, <1>8 DEF TakeValue

LEMMA TakeAnswerType ==
  ASSUME PipeInv, NEW e \in End, TakeAnswer(e)
  PROVE  PipeInv'
<1>1. verified[e] \in SUBSET Importable[Peer(e)] /\ remote[e] \in SUBSET Type
  BY DEF PipeInv, Verifications
<1> QED BY <1>1, TakeValueType DEF TakeAnswer

LEMMA TakeVerifyTypesResultType ==
  ASSUME PipeInv, NEW e \in End, TakeVerifyTypesResult(e)
  PROVE  PipeInv'
<1> DEFINE t == First(e).load
<1>1. verified[e] \in SUBSET Importable[Peer(e)] /\ remote[e] \in SUBSET Type
  BY DEF PipeInv, Verifications
<1>2. PICK kinds : Arrives(e, kinds) /\ kinds = {"VERIFY_TYPES_RESULT"}
  BY DEF TakeVerifyTypesResult
<1>3. /\ net[e] # <<>> /\ stack[e] # <<>> /\ First(e) \in To(e)
      /\ First(e).kind = "VERIFY_TYPES_RESULT" /\ Below(stack[e]) \in Seq(On(e))
  BY <1>2, Arrived
<1>4. CASE First(e).ok /\ TakeValue(e, verified[e] \cup {t}, remote[e])
  <2>1. t \in Importable[Peer(e)]
    BY <1>3, <1>4 DEF To, GoodMessage
  <2>2. verified[e] \cup {t} \in SUBSET Importable[Peer(e)]
    BY <1>1, <2>1
  <2> QED BY <1>1, <1>2, <1>4, <2>2, TakeValueType
<1>5. CASE t \in Importable[e] /\ TakeValue(e, verified[e], remote[e] \cup {t})
  <2>1. remote[e] \cup {t} \in SUBSET Type
    BY <1>1, <1>5, RemotePipeAssumption
  <2> QED BY <1>1, <1>2, <1>5, <2>1, TakeValueType
<1>6. CASE /\ Misreads(e)
           /\ net' = Rest(e)
           /\ Raise(e, Below(stack[e]), "error")
           /\ UNCHANGED <<cause, verified, remote, known, exposed, asked>>
  <2>1. Moving'
    BY <1>3, <1>6, RaisedType DEF How
  <2>2. misread' \in BOOLEAN
    BY <1>6 DEF Misreads, PipeInv
  <2> QED BY <1>6, <2>1, <2>2 DEF PipeInv
<1> QED BY <1>4, <1>5, <1>6 DEF TakeVerifyTypesResult

LEMMA TakeErrorType ==
  ASSUME PipeInv, NEW e \in End, TakeError(e)
  PROVE  PipeInv'
<1>1. net[e] # <<>> /\ stack[e] # <<>>
  BY Arrived DEF TakeError
<1>2. Moving'
  BY <1>1, AnsweredType, RaisedType DEF TakeError, How
<1>3. misread' \in BOOLEAN
  BY DEF TakeError, Misreads, PipeInv
<1> QED BY <1>2, <1>3 DEF TakeError, PipeInv

LEMMA TakeCloseType ==
  ASSUME PipeInv, NEW e \in End, TakeClose(e)
  PROVE  PipeInv'
<1>1. Rest(e) \in Nets /\ First(e).load \in Load /\ stack[e] # <<>> /\ net[e] # <<>>
  BY Arrived DEF TakeClose
<1>2. CASE /\ net' = [Rest(e) EXCEPT ![Peer(e)] = Append(@, Msg("CLOSE_CLOSED", Plain, 0))]
           /\ cause' = Caused(e, First(e).load)
           /\ stack' = [stack EXCEPT ![e] = Append(@, Wait("drain", 0))]
           /\ UNCHANGED <<open, back, spoiled>>
  <2>1. net' \in Nets /\ stack' \in Stacks
    BY <1>1, <1>2, PlainAnswer, Opened
  <2>2. cause' \in [End -> Load]
    BY <1>1, <1>2, CausedType
  <2> QED BY <1>2, <2>1, <2>2 DEF TakeClose, PipeInv, Moving
<1>3. CASE /\ net' = Rest(e)
           /\ cause' = IF First(e).load # None THEN Caused(e, First(e).load) ELSE Caused(e, Plain)
           /\ Raise(e, stack[e], "shutdown")
  <2>1. cause' \in [End -> Load]
    BY <1>1, <1>3, CausedType, PlainSendable
  <2>2. Moving'
    BY <1>1, <1>3, <2>1, Taking, RaiseType DEF How
  <2> QED BY <2>2 DEF TakeClose, PipeInv
<1> QED BY <1>2, <1>3 DEF TakeClose

LEMMA PipeStepType ==
  ASSUME PipeInv, NEW e \in End, PipeStep(e)
  PROVE  PipeInv'
  BY EndOfFileType, GetProxyDefType, LoadFailsType, LastReceivedType, ServeCallType,
     ServeExposedType, ServeProxyDefType, ServeVerifyTypesType, TakeAnswerType,
     TakeVerifyTypesResultType, TakeErrorType, TakeCloseType DEF PipeStep

----------------------------------------------------------------------------
(* The programs *)

\* What the programs send and what they raise.
LEMMA Sent ==
  ASSUME NEW e \in End
  PROVE  /\ \A load \in Values[e] : load \in Load /\ Sendable(e, load)
         /\ \A load \in Exceptions[e] : load \in Load /\ Sendable(e, load)
         /\ \A load \in Registered[e] : load \in Load /\ Sendable(e, load)
<1>1. /\ Values[e] \subseteq Type \cup {Plain} /\ Exceptions[e] \subseteq Type
      /\ Registered[e] \subseteq Type
  BY RemoteToolAssumption
<1>2. \A load \in Values[e] \cup Exceptions[e] \cup Registered[e] : Sendable(e, load)
  BY RemoteToolAssumption DEF Sendable
<1> QED BY <1>1, <1>2 DEF Load

LEMMA Initially ==
  Init => Inv
<1> SUFFICES ASSUME Init PROVE Inv
  OBVIOUS
<1> USE DEF Init, PipeInit
<1>1. net \in Nets
  BY EmptySeq DEF Nets
<1>2. stack \in Stacks
  <2>1. \A e \in End : <<>> \in Seq(Frame) /\ <<>> \in Seq(On(e))
    OBVIOUS
  <2>2. \A e \in End : Wait("receive", 0) \in On(e)
    BY WaitType
  <2>3. \A e \in End : <<Wait("receive", 0)>> \in Seq(Frame) /\ <<Wait("receive", 0)>> \in Seq(On(e))
    BY <2>2 DEF On
  <2> QED BY <2>1, <2>3 DEF Stacks
<1>3. exposed \in Exposures
  <2>1. "GET_EXPOSED_RESULT" \in Kind \ Verifying
    BY DEF Kind, Verifying
  <2> QED BY <2>1, Made, PlainSendable DEF Exposures
<1>4. Moving
  BY <1>1, <1>2, PlainSendable DEF Moving, Back
<1>5. PipeInv
  BY <1>3, <1>4 DEF PipeInv, Verifications
<1>6. ProgramInv
  BY RemoteToolAssumption, PlainSendable DEF ProgramInv, ParentPlace, ChildPlace, End
<1> QED BY <1>5, <1>6 DEF Inv

\* A step of a program that the pipe has no part in, but for `back`.
LEMMA Aside ==
  ASSUME PipeInv, back' \in [End -> Back],
         UNCHANGED <<open, net, stack, cause, verified, remote, known, exposed, asked,
                     spoiled, misread>>
  PROVE  PipeInv'
  BY DEF PipeInv, Moving

LEMMA ToCloseType ==
  ASSUME PipeInv, ProgramInv, NEW e \in End,
         NEW what \in {"nothing", "result", "salvaged", "exception", "exit"}, ToClose(e, what)
  PROVE  /\ PipeInv'
         /\ pc' \in [End -> ParentPlace \cup ChildPlace]
         /\ pc'["parent"] \in ParentPlace /\ pc'["child"] \in ChildPlace
         /\ held' \in [End -> {"nothing", "result", "salvaged", "exception", "exit"}]
<1>1. back' \in [End -> Back]
  BY DEF ToClose, PipeInv, Moving, Back
<1>2. PipeInv'
  BY <1>1, Aside DEF ToClose
<1> QED BY <1>2 DEF ToClose, Goto, ProgramInv, ParentPlace, ChildPlace, End

LEMMA GotoType ==
  ASSUME ProgramInv, NEW e \in End, NEW place, Goto(e, place),
         e = "parent" => place \in ParentPlace, e = "child" => place \in ChildPlace
  PROVE  /\ pc' \in [End -> ParentPlace \cup ChildPlace]
         /\ pc'["parent"] \in ParentPlace /\ pc'["child"] \in ChildPlace
  BY DEF Goto, ProgramInv, End

LEMMA PipeStepInv ==
  ASSUME Inv, NEW e \in End, PipeStep(e), UNCHANGED <<program, calls, faults>>
  PROVE  Inv'
<1>1. PipeInv'
  BY PipeStepType DEF Inv
<1>2. ProgramInv'
  BY DEF Inv, ProgramInv, program
<1> QED BY <1>1, <1>2 DEF Inv

LEMMA AppStepInv ==
  ASSUME Inv, NEW e \in End, AppStep(e)
  PROVE  Inv'
<1> PipeInv /\ ProgramInv
  BY DEF Inv
<1>1. CASE CallOther(e)
  <2>1. PipeInv'
    BY <1>1, Sent, CallType DEF CallOther
  <2>2. ProgramInv'
    BY <1>1, RemoteToolAssumption DEF CallOther, program, ProgramInv
  <2> QED BY <2>1, <2>2 DEF Inv
<1>2. CASE Return(e)
  <2>1. PipeInv'
    BY <1>2, Sent, AnswerType DEF Return, InCall
  <2>2. ProgramInv'
    BY <1>2 DEF Return, program, ProgramInv
  <2> QED BY <2>1, <2>2 DEF Inv
<1>3. CASE RaiseException(e)
  <2>1. PipeInv'
    BY <1>3, Sent, AnswerType DEF RaiseException, InCall, CallOfNone
  <2>2. ProgramInv'
    BY <1>3 DEF RaiseException, program, ProgramInv
  <2> QED BY <2>1, <2>2 DEF Inv
<1> QED BY <1>1, <1>2, <1>3 DEF AppStep

LEMMA ParentStepInv ==
  ASSUME Inv, ParentStep
  PROVE  Inv'
<1> "parent" \in End
  BY DEF End
<1> PipeInv /\ ProgramInv
  BY DEF Inv
<1>1. CASE StartFailed
  <2>1. PipeInv'
    BY <1>1 DEF StartFailed, pipe, PipeInv, Moving
  <2>2. ProgramInv'
    BY <1>1, GotoType DEF StartFailed, ProgramInv, ParentPlace
  <2> QED BY <2>1, <2>2 DEF Inv
<1>2. CASE GetExposed
  <2> DEFINE query == Msg("GET_EXPOSED", Plain, 0)
  <2>1. "GET_EXPOSED" \in Kind \ Verifying /\ Plain \in Load /\ Sendable("parent", Plain)
    BY PlainSendable DEF Kind, Verifying
  <2>2. query \in Message /\ query.kind \notin Verifying /\ Sendable("parent", query.load)
    BY <2>1 DEF Msg, Message
  <2>3. <<>> \in Seq(On("parent")) /\ net \in Nets
    BY DEF PipeInv, Moving
  <2>4. verified["parent"] \in SUBSET Importable[Peer("parent")]
    BY DEF PipeInv, Verifications
  <2> HIDE DEF query
  <2>5. SendKnowing("parent", net, query, <<>>, verified["parent"], remote["parent"])
    BY <1>2 DEF GetExposed, query
  <2>6. Moving' /\ asked' \in [End -> Nat]
    BY <2>2, <2>3, <2>4, <2>5, SendType
  <2>7. remote' \in [End -> SUBSET Type]
    BY <1>2, RemoteToolAssumption DEF GetExposed, PipeInv
  <2>8. PipeInv'
    BY <1>2, <2>6, <2>7 DEF GetExposed, PipeInv
  <2>9. ProgramInv'
    BY <1>2, GotoType DEF GetExposed, ProgramInv, ParentPlace
  <2> QED BY <2>8, <2>9 DEF Inv
<1>3. CASE Exposed
  <2>1. CASE Goto("parent", "run") /\ UNCHANGED <<pipe, held>>
    <3>1. PipeInv'
      BY <2>1 DEF pipe, PipeInv, Moving
    <3>2. ProgramInv'
      BY <1>3, <2>1, GotoType DEF Exposed, ProgramInv, ParentPlace
    <3> QED BY <3>1, <3>2 DEF Inv
  <2>2. CASE ToClose("parent", "exception") \/ ToClose("parent", "nothing")
    BY <1>3, <2>2, ToCloseType DEF Exposed, ProgramInv, Inv
  <2> QED BY <1>3, <2>1, <2>2 DEF Exposed
<1>4. CASE RunEnds
  <2>1. PICK what \in {"nothing", "result", "salvaged", "exception"} : ToClose("parent", what)
    BY <1>4 DEF RunEnds
  <2> QED BY <1>4, <2>1, ToCloseType DEF RunEnds, ProgramInv, Inv
<1>5. CASE ParentClose
  <2>1. PipeInv'
    BY <1>5, CloseType, PlainSendable DEF ParentClose
  <2>2. ProgramInv'
    BY <1>5 DEF ParentClose, program, ProgramInv
  <2> QED BY <2>1, <2>2 DEF Inv
<1>6. CASE ParentClosed
  <2>1. PipeInv'
    BY <1>6 DEF ParentClosed, pipe, PipeInv, Moving
  <2>2. ProgramInv'
    BY <1>6, GotoType DEF ParentClosed, ProgramInv, ParentPlace
  <2> QED BY <2>1, <2>2 DEF Inv
<1>7. CASE Join
  <2>1. PipeInv'
    BY <1>7 DEF Join, pipe, PipeInv, Moving
  <2>2. outcome' \in {"raised", "failed", "cause", "result", "unbound"}
    BY <1>7 DEF Join
  <2>3. ProgramInv'
    BY <1>7, <2>2, GotoType DEF Join, ProgramInv, ParentPlace
  <2> QED BY <2>1, <2>3 DEF Inv
<1>8. CASE AppStep("parent")
  BY <1>8, AppStepInv
<1>9. CASE PipeStep("parent") /\ UNCHANGED <<program, calls, faults>>
  BY <1>9, PipeStepInv
<1> QED BY <1>1, <1>2, <1>3, <1>4, <1>5, <1>6, <1>7, <1>8, <1>9 DEF ParentStep

LEMMA StartToolInv ==
  ASSUME Inv, StartTool
  PROVE  Inv'
<1> PipeInv /\ ProgramInv /\ "child" \in End
  BY DEF Inv, End
<1>1. started' \in 0 .. Tools /\ stopped' \in 0 .. started'
  BY RemoteToolAssumption DEF StartTool, ProgramInv
<1>2. ProgramInv'
  BY <1>1 DEF StartTool, ProgramInv
<1>3. remote' \in [End -> SUBSET Type]
  BY RemoteToolAssumption DEF StartTool, PipeInv
<1>4. exposed' \in Exposures
  <2>1. CASE UNCHANGED exposed
    BY <2>1 DEF PipeInv
  <2>2. ASSUME NEW answer \in {Msg("GET_EXPOSED_RESULT", Tests, 0)}
                              \cup {Msg("GET_EXPOSED_ERROR", x, 0) : x \in Exceptions["child"]}
        PROVE  answer \in Message /\ answer.kind \notin Verifying /\ Sendable("child", answer.load)
    <3>1. "GET_EXPOSED_RESULT" \in Kind \ Verifying /\ "GET_EXPOSED_ERROR" \in Kind \ Verifying
      BY DEF Kind, Verifying
    <3>2. Tests \in Load /\ Sendable("child", Tests)
      BY Sent, RemoteToolAssumption
    <3>3. \A x \in Exceptions["child"] : x \in Load /\ Sendable("child", x)
      BY Sent
    <3>4. CASE answer = Msg("GET_EXPOSED_RESULT", Tests, 0)
      BY <3>1, <3>2, <3>4, Made
    <3>5. CASE \E x \in Exceptions["child"] : answer = Msg("GET_EXPOSED_ERROR", x, 0)
      BY <3>1, <3>3, <3>5, Made
    <3> QED BY <3>4, <3>5
  <2>3. CASE ~ UNCHANGED exposed
    <3>1. PICK answer \in {Msg("GET_EXPOSED_RESULT", Tests, 0)}
                          \cup {Msg("GET_EXPOSED_ERROR", x, 0) : x \in Exceptions["child"]} :
            exposed' = [exposed EXCEPT !["child"] = answer]
      BY <2>3 DEF StartTool
    <3>2. answer \in Message /\ answer.kind \notin Verifying /\ Sendable("child", answer.load)
      BY <2>2
    <3> QED BY <3>1, <3>2 DEF PipeInv, Exposures
  <2> QED BY <2>1, <2>3
<1>5. PipeInv'
  BY <1>3, <1>4 DEF StartTool, PipeInv, Moving
<1> QED BY <1>2, <1>5 DEF Inv

LEMMA ChildStepInv ==
  ASSUME Inv, ChildStep
  PROVE  Inv'
<1> "child" \in End
  BY DEF End
<1> PipeInv /\ ProgramInv
  BY DEF Inv
<1>1. CASE SendVersion
  <2> DEFINE version == Msg("PICKLE_VERSION", Plain, 0)
  <2>1. version \in To(Peer("child"))
    <3>1. "PICKLE_VERSION" \in Kind /\ Plain \in Load /\ Plain \notin Type
      BY RemotePipeAssumption DEF Kind, Load
    <3>2. version \in Message /\ version.kind = "PICKLE_VERSION" /\ version.load \notin Type
      BY <3>1 DEF Msg, Message
    <3> QED BY <3>2 DEF To, GoodMessage, CarriesObject
  <2> HIDE DEF version
  <2>2. Write("child", net, version, <<>>, <<>>) /\ net \in Nets /\ <<>> \in Seq(On("child"))
    BY <1>1 DEF SendVersion, version, PipeInv, Moving
  <2>3. Moving'
    BY <2>1, <2>2, WriteType
  <2>4. PipeInv'
    BY <1>1, <2>3 DEF SendVersion, PipeInv
  <2>5. ProgramInv'
    <3>1. CASE Goto("child", "start") /\ UNCHANGED code
      BY <1>1, <3>1, GotoType DEF SendVersion, ProgramInv, ChildPlace
    <3>2. CASE Goto("child", "exited") /\ code' = 1
      BY <1>1, <3>2, GotoType DEF SendVersion, ProgramInv, ChildPlace
    <3> QED BY <1>1, <3>1, <3>2 DEF SendVersion
  <2> QED BY <2>4, <2>5 DEF Inv
<1>2. CASE StartTool
  BY <1>2, StartToolInv
<1>3. CASE StartRaises
  BY <1>3, ToCloseType DEF StartRaises, ProgramInv, Inv
<1>4. CASE Listen
  <2>1. PipeInv'
    BY <1>4, ReceiveType DEF Listen
  <2>2. ProgramInv'
    BY <1>4, GotoType DEF Listen, ProgramInv, ChildPlace
  <2> QED BY <2>1, <2>2 DEF Inv
<1>5. CASE ServeEnds
  <2>1. CASE Goto("child", "stop") /\ UNCHANGED <<pipe, held, code>>
    <3>1. PipeInv'
      BY <2>1 DEF pipe, PipeInv, Moving
    <3>2. ProgramInv'
      BY <1>5, <2>1, GotoType DEF ServeEnds, ProgramInv, ChildPlace
    <3> QED BY <3>1, <3>2 DEF Inv
  <2>2. CASE ToClose("child", "exception") /\ UNCHANGED code
    BY <1>5, <2>2, ToCloseType DEF ServeEnds, ProgramInv, Inv
  <2>3. CASE ToClose("child", "exit") /\ code' \in {0, 1}
    BY <1>5, <2>3, ToCloseType DEF ServeEnds, ProgramInv, Inv
  <2> QED BY <1>5, <2>1, <2>2, <2>3 DEF ServeEnds
<1>6. CASE StopTool
  <2>1. CASE stopped' = stopped + 1 /\ UNCHANGED <<pipe, pc, held, code>>
    <3>1. PipeInv'
      BY <2>1 DEF pipe, PipeInv, Moving
    <3>2. ProgramInv'
      BY <1>6, <2>1, RemoteToolAssumption DEF StopTool, ProgramInv
    <3> QED BY <3>1, <3>2 DEF Inv
  <2>2. CASE ToClose("child", "exit") /\ code' = 1 /\ UNCHANGED stopped
    BY <1>6, <2>2, ToCloseType DEF StopTool, ProgramInv, Inv
  <2> QED BY <1>6, <2>1, <2>2 DEF StopTool
<1>7. CASE Stopped
  BY <1>7, ToCloseType DEF Stopped, ProgramInv, Inv
<1>8. CASE ChildClose
  <2>1. PICK exc \in IF held["child"] = "exception" THEN Exceptions["child"] ELSE {None} :
          attached' = exc /\ Close("child", exc)
    BY <1>8 DEF ChildClose
  <2>2. exc \in Load /\ Sendable("child", exc)
    BY <2>1, Sent, PlainSendable
  <2>3. PipeInv'
    BY <2>1, <2>2, CloseType
  <2>4. ProgramInv'
    BY <1>8, <2>1, <2>2 DEF ChildClose, ProgramInv
  <2> QED BY <2>3, <2>4 DEF Inv
<1>9. CASE ChildExits
  <2>1. PipeInv'
    BY <1>9 DEF ChildExits, pipe, PipeInv, Moving
  <2>2. ProgramInv'
    BY <1>9, GotoType DEF ChildExits, ProgramInv, ChildPlace
  <2> QED BY <2>1, <2>2 DEF Inv
<1>10. CASE AppStep("child")
  BY <1>10, AppStepInv
<1>11. CASE PipeStep("child") /\ UNCHANGED <<program, calls, faults>>
  BY <1>11, PipeStepInv
<1> QED BY <1>1, <1>2, <1>3, <1>4, <1>5, <1>6, <1>7, <1>8, <1>9, <1>10, <1>11 DEF ChildStep

LEMMA FaultInv ==
  ASSUME Inv, Fault
  PROVE  Inv'
<1> PipeInv /\ ProgramInv /\ "child" \in End
  BY DEF Inv, End
<1>0. faults < MaxFaults /\ faults' = faults + 1 => faults' \in 0 .. MaxFaults
  BY RemoteToolAssumption DEF ProgramInv
<1>1. CASE StartExits
  BY <1>0, <1>1, ToCloseType DEF StartExits, ProgramInv, Inv
<1>2. CASE ExitCall
  <2>1. PipeInv'
    BY <1>2, ExitType DEF ExitCall, InCall
  <2>2. ProgramInv'
    BY <1>0, <1>2 DEF ExitCall, program, ProgramInv
  <2> QED BY <2>1, <2>2 DEF Inv
<1>3. ASSUME NEW e \in End, NotCallable(e) PROVE Inv'
  <2>1. PipeInv'
    BY <1>3, ServeDudType DEF NotCallable
  <2>2. ProgramInv'
    BY <1>0, <1>3 DEF NotCallable, program, ProgramInv
  <2> QED BY <2>1, <2>2 DEF Inv
<1>4. ASSUME NEW e \in End, Die(e) PROVE Inv'
  <2>1. <<>> \in Seq(On(e)) /\ stack \in Stacks
    BY DEF PipeInv, Moving
  <2>2. [stack EXCEPT ![e] = <<>>] \in Stacks
    BY <2>1, StackUpdate
  <2>3. PipeInv'
    BY <1>4, <2>2 DEF Die, Gone, PipeInv, Moving
  <2>4. ProgramInv'
    <3>1. CASE e = "child"
      BY <1>0, <1>4, <3>1, GotoType DEF Die, ProgramInv, ChildPlace
    <3>2. CASE e = "parent"
      BY <1>0, <1>4, <3>2, GotoType DEF Die, ProgramInv, ParentPlace
    <3> QED BY <3>1, <3>2 DEF End
  <2> QED BY <2>3, <2>4 DEF Inv
<1> QED BY <1>1, <1>2, <1>3, <1>4 DEF Fault

LEMMA Inductive ==
  Inv /\ [Next]_vars => Inv'
<1> SUFFICES ASSUME Inv, [Next]_vars PROVE Inv'
  OBVIOUS
<1>1. CASE UNCHANGED vars
  BY <1>1 DEF vars, pipe, program, Inv, PipeInv, Moving, ProgramInv
<1>2. CASE Finished
  BY <1>1, <1>2 DEF Finished
<1> QED BY <1>1, <1>2, ParentStepInv, ChildStepInv, FaultInv DEF Next

----------------------------------------------------------------------------
(* Theorems *)

\* What is under way, what the ends hold back and what they hold verified is
\* good for the end it goes to, at every moment of a run.
THEOREM Invariance ==
  Spec => []Inv
BY Initially, Inductive, PTL DEF Spec

\* The state is of its type.
THEOREM TypeCorrect ==
  Spec => []TypeOK
<1>1. Inv => TypeOK
  <2> SUFFICES ASSUME Inv PROVE TypeOK
    OBVIOUS
  <2>1. net \in [End -> Seq(Message)] /\ stack \in [End -> Seq(Frame)]
    BY DEF Inv, PipeInv, Moving, Nets, Stacks
  <2>2. verified \in [End -> SUBSET Type] /\ exposed \in [End -> Message]
    BY DEF Inv, PipeInv, Verifications, Exposures
  <2>3. PipeTypeOK
    BY <2>1, <2>2 DEF PipeTypeOK, Inv, PipeInv, Moving, Back
  <2> QED BY <2>3 DEF TypeOK, Inv, ProgramInv
<1> QED BY <1>1, Invariance, PTL

\* No object is on its way by value to an end that does not find its class:
\* what one end holds verified the other one finds (_dump, VERIFY_TYPES).
THEOREM AlwaysFound ==
  Spec => []SentIsFound
<1>1. Inv => SentIsFound
  <2> SUFFICES ASSUME Inv, NEW e \in End, NEW i \in DOMAIN net[e],
                      CarriesObject(net[e][i]), ~ net[e][i].ref
               PROVE  net[e][i].load \in Importable[e]
    BY DEF SentIsFound
  <2>1. net[e] \in Seq(To(e))
    BY DEF Inv, PipeInv, Moving, Nets
  <2>2. i \in 1 .. Len(net[e])
    BY <2>1, LenProperties
  <2>3. net[e][i] \in To(e)
    BY <2>1, <2>2, ElementOfSeq
  <2> QED BY <2>3 DEF To, GoodMessage
<1> QED BY <1>1, Invariance, PTL

----------------------------------------------------------------------------
(* How a run ends *)

Quit == held["child"] = "exit"
Left == cause["parent"] # None \/ Quit

\* What may be under way: CLOSE only comes without an exception from the parent,
\* and from a tool process that leaves with SystemExit; the version is only sent
\* to the parent.
Bids(e) ==
  {m \in Message :
     /\ e = "parent" /\ m.kind = "CLOSE" /\ m.load = None => Quit
     /\ e = "child" /\ m.kind = "CLOSE" => m.load = None
     /\ m.kind = "PICKLE_VERSION" => e = "parent" /\ m.load = Plain /\ m.of = 0
     /\ m.kind = "CLOSE_CLOSED" => m.load = Plain}

\* What an end may wait for: CLOSE leaves its cause, and is only held back while
\* the class of an exception is verified or its proxy fetched.
Marks(e) ==
  {f \in Frame :
     /\ e = "parent" /\ f.at = "drain" => Left
     /\ f.at = "verify" => f.msg \in Bids(Peer(e)) /\ f.msg.load \in Type
     /\ f.at = "proxy" => f.msg \in Bids(e)}

Backed == \A e \in End : back[e] = "shutdown" => ~ open[e] /\ (e = "parent" => Left)

Marked ==
  /\ \A e \in End : net[e] \in Seq(Bids(e)) /\ stack[e] \in Seq(Marks(e))
  /\ \A e \in End : exposed[e].kind \in {"GET_EXPOSED_RESULT", "GET_EXPOSED_ERROR"}
  /\ Backed

\* What is returned though the runner was told that the pipe is closed, or not
\* bound at all, is returned behind a SystemExit.
LeftByExit ==
  outcome = "unbound" \/ (outcome = "result" /\ held["parent"] = "salvaged")
    => held["child"] = "exit"

\* The programs only say "nothing" once the pipe is closed and has a cause, and
\* only then is there anything to salvage.
Parting ==
  /\ pc["child"] = "stop" => ~ open["child"]
  /\ pc["child"] = "close" /\ open["child"] => held["child"] \in {"exception", "exit"}
  /\ Quit => pc["child"] \in {"close", "exited"}
  /\ pc["parent"] \in {"close", "join"} /\ held["parent"] \in {"nothing", "salvaged"} => Left
  /\ held["parent"] # "exit"
  /\ outcome # "running" => pc["parent"] = "end"
  /\ LeftByExit

\* What a step of the pipe never takes back.
Onward == (\A e \in End : open'[e] => open[e]) /\ (Left => Left') /\ UNCHANGED held

LEMMA LeftOf ==
  ASSUME NEW s \in Seq(Frame), NEW k \in 0 .. Len(s), NEW at
  PROVE  Has(SubSeq(s, k + 1, Len(s)), at) <=> \E i \in 1 .. Len(s) : k < i /\ s[i].at = at
<1> DEFINE t == SubSeq(s, k + 1, Len(s))
           l == Len(s)
<1>1. l \in Nat /\ k \in Nat /\ k <= l /\ \A i \in 1 .. l : s[i] \in Frame
  BY LenProperties, ElementOfSeq
<1>2. \A i \in k + 1 .. l : s[i] \in Frame
  BY <1>1
<1>3. k + 1 \in Int /\ l \in Int
  BY <1>1
<1> HIDE DEF l
<1>4. /\ SubSeq(s, k + 1, l) \in Seq(Frame)
      /\ Len(SubSeq(s, k + 1, l)) = IF k + 1 <= l THEN l - (k + 1) + 1 ELSE 0
      /\ \A i \in 1 .. l - (k + 1) + 1 : SubSeq(s, k + 1, l)[i] = s[k + 1 + i - 1]
  BY <1>2, <1>3, SubSeqProperties
<1>5. t \in Seq(Frame) /\ Len(t) = l - k /\ \A i \in 1 .. l - k : t[i] = s[k + i]
  <2>1. l - (k + 1) + 1 = l - k /\ \A i \in 1 .. l - k : k + 1 + i - 1 = k + i
    BY <1>1
  <2>2. Len(SubSeq(s, k + 1, l)) = l - k
    BY <1>1, <1>4
  <2> QED BY <1>4, <2>1, <2>2 DEF l
<1> HIDE DEF t
<1>6. DOMAIN t = 1 .. l - k
  BY <1>5, LenProperties
<1>7. Has(t, at) <=> \E i \in 1 .. l - k : s[k + i].at = at
  BY <1>5, <1>6 DEF Has
<1>8. (\E i \in 1 .. l - k : s[k + i].at = at) <=> \E i \in 1 .. l : k < i /\ s[i].at = at
  <2>1. ASSUME NEW i \in 1 .. l - k PROVE k + i \in 1 .. l /\ k < k + i
    BY <1>1
  <2>2. ASSUME NEW i \in 1 .. l, k < i PROVE i - k \in 1 .. l - k /\ k + (i - k) = i
    BY <1>1, <2>2
  <2> QED BY <2>1, <2>2
<1> QED BY <1>7, <1>8 DEF t, l

\* What was there stays well marked.
LEMMA Growing ==
  ASSUME Left => Left', Quit => Quit', NEW e \in End
  PROVE  /\ Seq(Bids(e)) \subseteq Seq(Bids(e)') /\ Seq(Marks(e)) \subseteq Seq(Marks(e)')
         /\ Bids(e) \subseteq Bids(e)' /\ Marks(e) \subseteq Marks(e)'
<1>1. \A x : Bids(x) \subseteq Bids(x)'
  BY DEF Bids
<1>2. Marks(e) \subseteq Marks(e)'
  BY <1>1 DEF Marks
<1> QED BY <1>1, <1>2, SeqMonotonic

LEMMA CausedMarks ==
  ASSUME NEW e \in End, NEW exc, cause' = Caused(e, exc), cause \in [End -> Load],
         UNCHANGED held
  PROVE  (Left => Left') /\ (e = "parent" /\ exc # None => Left')
  BY DEF Caused, Left, Quit, End

LEMMA UnwindMarks ==
  ASSUME PipeInv, Marked, NEW e \in End, NEW s \in Seq(Marks(e)), NEW k \in 0 .. Len(s),
         NEW how \in How, Unwind(e, s, k, how), Left => Left', UNCHANGED held,
         e = "parent" /\ how = "shutdown" /\ ~ Has(s, "closing") => Left'
  PROVE  Onward /\ Backed' /\ \A x \in End : stack'[x] \in Seq(Marks(x)')
<1> DEFINE left == SubSeq(s, k + 1, Len(s))
           turned == IF Has(left, "drain") THEN "shutdown" ELSE how
           closes == turned = "shutdown" \/ Has(left, "closing")
<1>1. /\ stack' = [stack EXCEPT ![e] = SubSeq(s, 1, k)]
      /\ open' = [open EXCEPT ![e] = @ /\ ~ closes]
      /\ back' = IF k # 0 THEN back
                 ELSE [back EXCEPT ![e] = IF turned = "shutdown" /\ Has(left, "closing")
                                          THEN "returned" ELSE turned]
  BY DEF Unwind
<1>2. s \in Seq(Frame) /\ \A i \in 1 .. Len(s) : s[i] \in Marks(e)
  BY SeqMonotonic, ElementOfSeq DEF Marks
<1>3. \A at : Has(left, at) <=> \E i \in 1 .. Len(s) : k < i /\ s[i].at = at
  BY <1>2, LeftOf
<1>4. Has(left, "drain") /\ e = "parent" => Left'
  BY <1>2, <1>3 DEF Marks
<1>5. k = 0 /\ Has(s, "closing") => Has(left, "closing")
  <2>1. DOMAIN s = 1 .. Len(s) /\ \A i \in 1 .. Len(s) : 0 < i
    BY <1>2, LenProperties
  <2> QED BY <1>3, <2>1 DEF Has
<1> HIDE DEF left
<1>6. Onward
  BY <1>1 DEF Onward, PipeInv, Moving
<1>7. Backed'
  <2>1. ASSUME k = 0, back'[e] = "shutdown" PROVE ~ open'[e] /\ (e = "parent" => Left')
    <3>1. turned = "shutdown" /\ ~ Has(left, "closing")
      BY <1>1, <2>1 DEF PipeInv, Moving
    <3> QED BY <1>1, <1>4, <1>5, <2>1, <3>1 DEF PipeInv, Moving
  <2>2. ASSUME NEW x \in End, k # 0 \/ x # e, back'[x] = "shutdown"
        PROVE  ~ open'[x] /\ (x = "parent" => Left')
    <3>1. back[x] = "shutdown"
      BY <1>1, <2>2 DEF PipeInv, Moving
    <3> QED BY <1>6, <3>1 DEF Marked, Backed, Onward
  <2> QED BY <2>1, <2>2 DEF Backed
<1>8. ASSUME NEW x \in End PROVE stack'[x] \in Seq(Marks(x)')
  <2>0. Seq(Marks(x)) \subseteq Seq(Marks(x)')
    BY Growing DEF Quit
  <2>1. stack[x] \in Seq(Marks(x)) /\ SubSeq(s, 1, k) \in Seq(Marks(e))
    BY Prefix DEF Marked
  <2>2. stack'[x] = IF x = e THEN SubSeq(s, 1, k) ELSE stack[x]
    BY <1>1 DEF PipeInv, Moving, Stacks
  <2> QED BY <2>0, <2>1, <2>2
<1> QED BY <1>6, <1>7, <1>8

LEMMA RaiseMarks ==
  ASSUME PipeInv, Marked, NEW e \in End, NEW s \in Seq(Marks(e)),
         NEW how \in How, Raise(e, s, how), Left => Left', UNCHANGED held,
         e = "parent" /\ how = "shutdown" /\ ~ Has(s, "closing") => Left'
  PROVE  Onward /\ Backed' /\ \A x \in End : stack'[x] \in Seq(Marks(x)')
<1>1. s \in Seq(Frame)
  BY SeqMonotonic DEF Marks
<1>2. LastCall(s) \in 0 .. Len(s)
  BY <1>1, LastCallRange
<1> QED BY <1>2, UnwindMarks DEF Raise

Bidden(on) == on \in Nets /\ \A x \in End : on[x] \in Seq(Bids(x))

\* What a step of the pipe does to the frames, to what is under way and to how
\* the calls end.
Moved == Onward /\ Backed' /\ Bidden(net)' /\ \A x \in End : stack'[x] \in Seq(Marks(x)')

LEMMA BiddenLater ==
  ASSUME NEW on, Bidden(on), Left => Left', UNCHANGED held, net' = on
  PROVE  Bidden(net)'
<1>1. \A x \in End : Seq(Bids(x)) \subseteq Seq(Bids(x)')
  BY Growing DEF Quit
<1>2. Nets' = Nets
  BY DEF Nets, To, GoodMessage, Sendable, CarriesObject
<1> QED BY <1>1, <1>2 DEF Bidden

LEMMA WriteMarks ==
  ASSUME PipeInv, Marked, NEW e \in End, NEW on, Bidden(on),
         NEW m \in Bids(Peer(e)), m \in To(Peer(e)),
         NEW s \in Seq(Marks(e)), NEW after \in Seq(Marks(e)),
         Write(e, on, m, s, after), UNCHANGED held
  PROVE  Moved
<1>1. CASE /\ open[Peer(e)]
           /\ net' = [on EXCEPT ![Peer(e)] = Append(@, m)]
           /\ stack' = [stack EXCEPT ![e] = after]
           /\ UNCHANGED <<open, cause, back, spoiled>>
  <2>1. Left' = Left /\ Quit' = Quit
    BY <1>1 DEF Left, Quit
  <2>2. Bidden([on EXCEPT ![Peer(e)] = Append(@, m)])
    <3>1. [on EXCEPT ![Peer(e)] = Append(@, m)] \in Nets
      BY NetAppend, Peers DEF Bidden
    <3>2. Append(on[Peer(e)], m) \in Seq(Bids(Peer(e)))
      BY Peers, AppendProperties DEF Bidden
    <3> QED BY <3>1, <3>2, Peers DEF Bidden, Nets
  <2>3. Bidden(net)'
    BY <1>1, <2>1, <2>2, BiddenLater
  <2>4. \A x \in End : stack'[x] \in Seq(Marks(x)')
    <3>1. \A x \in End : stack'[x] \in Seq(Marks(x))
      BY <1>1 DEF Marked, PipeInv, Moving, Stacks
    <3> QED BY <2>1, <3>1, Growing
  <2>5. Onward /\ Backed'
    BY <1>1, <2>1 DEF Onward, Marked, Backed
  <2> QED BY <2>3, <2>4, <2>5 DEF Moved
<1>2. CASE /\ ~ open[Peer(e)]
           /\ net' = on
           /\ cause' = Caused(e, Plain)
           /\ Raise(e, s, "shutdown")
  <2>1. (Left => Left') /\ (e = "parent" => Left')
    BY <1>2, CausedMarks, RemotePipeAssumption DEF PipeInv, Moving
  <2>2. Bidden(net)'
    BY <1>2, <2>1, BiddenLater
  <2> QED BY <1>2, <2>1, <2>2, RaiseMarks DEF How, Moved
<1> QED BY <1>1, <1>2 DEF Write

LEMMA AskMarks ==
  ASSUME PipeInv, Marked, NEW e \in End, NEW on, Bidden(on),
         NEW m \in To(Peer(e)), m.kind \notin {"CLOSE", "CLOSE_CLOSED", "PICKLE_VERSION"},
         NEW s \in Seq(Marks(e)), NEW at \in Asking, NEW kept \in Message,
         at = "verify" => kept \in Bids(Peer(e)) /\ kept.load \in Type,
         at = "proxy" => kept \in Bids(e),
         Ask(e, on, m, s, at, kept), UNCHANGED held
  PROVE  Moved
<1>1. asked \in [End -> Nat] /\ asked[e] + 1 \in Nat
  BY DEF PipeInv
<1>2. [m EXCEPT !.of = asked[e] + 1] \in To(Peer(e))
  BY <1>1 DEF To, Message, GoodMessage, CarriesObject
<1>3. [m EXCEPT !.of = asked[e] + 1] \in Bids(Peer(e))
  BY <1>1 DEF To, Message, Bids
<1>4. [at |-> at, n |-> asked[e] + 1, msg |-> kept] \in Marks(e)
  BY <1>1 DEF Marks, Frame, Asking
<1>5. Append(s, [at |-> at, n |-> asked[e] + 1, msg |-> kept]) \in Seq(Marks(e))
  BY <1>4, AppendProperties
<1> QED BY <1>2, <1>3, <1>5, WriteMarks DEF Ask

LEMMA SendMarks ==
  ASSUME PipeInv, Marked, NEW e \in End, NEW on, Bidden(on),
         NEW m \in Message, m.kind \notin Verifying, Sendable(e, m.load), m \in Bids(Peer(e)),
         NEW s \in Seq(Marks(e)), NEW v \in SUBSET Importable[Peer(e)], NEW r,
         SendKnowing(e, on, m, s, v, r), UNCHANGED held
  PROVE  Moved
<1>1. CASE net' = on /\ Raise(e, s, "error") /\ UNCHANGED <<cause, asked>>
  <2>1. Left' = Left
    BY <1>1 DEF Left, Quit
  <2> QED BY <1>1, <2>1, BiddenLater, RaiseMarks DEF How, Moved
<1>2. CASE m.load \in Type /\ Ask(e, on, Msg("VERIFY_TYPES", m.load, 0), s, "verify", m)
  <2> DEFINE query == Msg("VERIFY_TYPES", m.load, 0)
  <2>1. query \in Message /\ query.kind = "VERIFY_TYPES" /\ query.load = m.load
    <3>1. "VERIFY_TYPES" \in Kind /\ m.load \in Load /\ 0 \in Nat
      BY DEF Message, Kind
    <3> QED BY <3>1 DEF Msg, Message
  <2>2. query \in To(Peer(e)) /\ query.kind \notin {"CLOSE", "CLOSE_CLOSED", "PICKLE_VERSION"}
    BY <2>1, Peers DEF To, GoodMessage, CarriesObject
  <2> HIDE DEF query
  <2>3. Ask(e, on, query, s, "verify", m)
    BY <1>2 DEF query
  <2> QED BY <1>2, <2>2, <2>3, AskMarks DEF Asking
<1>3. CASE m.load \notin Type \ (v \cup r)
  <2> DEFINE sent == [m EXCEPT !.ref = m.load \in r]
  <2>1. /\ sent \in Message /\ sent.kind = m.kind /\ sent.load = m.load
        /\ sent.of = m.of /\ (~ sent.ref => m.load \notin r)
    BY SentByRef
  <2>2. sent \in To(Peer(e)) /\ sent \in Bids(Peer(e))
    BY <1>3, <2>1 DEF To, GoodMessage, CarriesObject, Verifying, Bids
  <2> HIDE DEF sent
  <2>3. CASE m.kind \in {"CALL", "GET_EXPOSED"} /\ Ask(e, on, sent, s, "answer", Nothing)
    <3>1. Nothing \in Message
      BY MsgType DEF Nothing, Kind, Load
    <3> QED BY <2>1, <2>2, <2>3, <3>1, AskMarks DEF Asking
  <2>4. CASE Write(e, on, sent, s, s)
    BY <2>2, <2>4, WriteMarks
  <2>5. \/ m.kind \in {"CALL", "GET_EXPOSED"} /\ Ask(e, on, sent, s, "answer", Nothing)
        \/ Write(e, on, sent, s, s)
        \/ net' = on /\ Raise(e, s, "error") /\ UNCHANGED <<cause, asked>>
    BY <1>3 DEF SendKnowing, sent
  <2> QED BY <1>1, <2>3, <2>4, <2>5
<1> QED BY <1>1, <1>2, <1>3 DEF SendKnowing

LEMMA TakingMarks ==
  ASSUME PipeInv, Marked, NEW e \in End
  PROVE  /\ Bidden(net) /\ stack[e] \in Seq(Marks(e))
         /\ stack[e] # <<>> =>
              /\ Top(e) \in Marks(e) /\ Below(stack[e]) \in Seq(Marks(e))
              /\ Top(e).at = "closing" => Has(stack[e], "closing")
         /\ net[e] # <<>> => First(e) \in Bids(e) /\ Bidden(Rest(e))
<1>1. Bidden(net) /\ stack[e] \in Seq(Marks(e))
  BY DEF Bidden, Marked, PipeInv, Moving
<1>2. ASSUME stack[e] # <<>>
      PROVE  /\ Top(e) \in Marks(e) /\ Below(stack[e]) \in Seq(Marks(e))
             /\ Top(e).at = "closing" => Has(stack[e], "closing")
  <2>1. Len(stack[e]) \in 1 .. Len(stack[e]) /\ DOMAIN stack[e] = 1 .. Len(stack[e])
    BY <1>1, <1>2, EmptySeq, LenProperties
  <2>2. stack[e][Len(stack[e])] \in Marks(e)
    BY <1>1, <2>1, ElementOfSeq
  <2> QED BY <1>1, <1>2, <2>1, <2>2, BelowType DEF Top, Has
<1>3. ASSUME net[e] # <<>> PROVE First(e) \in Bids(e) /\ Bidden(Rest(e))
  <2>1. net \in [End -> Seq(Message)] /\ net[e] \in Seq(Bids(e)) /\ Rest(e) \in Nets
    BY <1>1, <1>3, Taking DEF PipeInv, Moving, Nets, Bidden
  <2>2. Head(net[e]) \in Bids(e) /\ Tail(net[e]) \in Seq(Bids(e))
    BY <1>3, <2>1, HeadTailProperties
  <2>3. \A x \in End : Rest(e)[x] = IF x = e THEN Tail(net[e]) ELSE net[x]
    BY <2>1 DEF Rest
  <2> QED BY <1>1, <2>1, <2>2, <2>3 DEF First, Bidden
<1> QED BY <1>1, <1>2, <1>3

\* The frames of e change, and no call of its program ends in a shutdown.
LEMMA PutMarks ==
  ASSUME PipeInv, Marked, NEW e \in End, NEW on, Bidden(on), net' = on, Left => Left',
         UNCHANGED <<open, held>>, NEW s, s \in Seq(Marks(e)'),
         stack' = [stack EXCEPT ![e] = s],
         \A x \in End : back'[x] = "shutdown" => back[x] = "shutdown"
  PROVE  Moved
<1>1. Bidden(net)'
  BY BiddenLater
<1>2. ASSUME NEW x \in End PROVE stack'[x] \in Seq(Marks(x)')
  <2>1. Seq(Marks(x)) \subseteq Seq(Marks(x)')
    BY Growing DEF Quit
  <2>2. stack[x] \in Seq(Marks(x)) /\ stack'[x] = IF x = e THEN s ELSE stack[x]
    BY DEF Marked, PipeInv, Moving, Stacks
  <2> QED BY <2>1, <2>2
<1>3. Onward
  BY DEF Onward
<1>4. Backed'
  BY DEF Marked, Backed
<1> QED BY <1>1, <1>2, <1>3, <1>4 DEF Moved

LEMMA RaisedMarks ==
  ASSUME PipeInv, Marked, NEW e \in End, NEW s \in Seq(Marks(e)), NEW on, Bidden(on),
         net' = on, Raise(e, s, "error"), UNCHANGED <<cause, held>>
  PROVE  Moved
<1>1. Left' = Left
  BY DEF Left, Quit
<1> QED BY <1>1, BiddenLater, RaiseMarks DEF How, Moved

\* The connection of e is found broken, or e is done with it.
LEMMA ShutMarks ==
  ASSUME PipeInv, Marked, NEW e \in End, NEW on, Bidden(on),
         net' = on, Raise(e, stack[e], "shutdown"), UNCHANGED held, Left => Left',
         e = "parent" /\ ~ Has(stack[e], "closing") => Left'
  PROVE  Moved
BY BiddenLater, RaiseMarks, TakingMarks DEF How, Moved

LEMMA ShutByWrite ==
  ASSUME PipeInv, Marked, NEW e \in End, NEW on, Bidden(on), NEW exc, exc # None,
         net' = on, cause' = Caused(e, exc), Raise(e, stack[e], "shutdown"), UNCHANGED held
  PROVE  Moved
<1>1. (Left => Left') /\ (e = "parent" => Left')
  BY CausedMarks DEF PipeInv, Moving
<1> QED BY <1>1, ShutMarks

LEMMA WaitMarks ==
  ASSUME NEW e \in End, NEW n \in Nat,
         NEW at \in {"receive", "answer", "closing", "drain", "call", "dud"},
         at = "drain" /\ e = "parent" => Left'
  PROVE  Wait(at, n) \in Marks(e)'
<1>1. Wait(at, n) \in Frame /\ Wait(at, n).at = at
  BY WaitType DEF On, Wait
<1> QED BY <1>1 DEF Marks, Frame, Message, Load, Kind

\* The same message with the number of a request, or none.
LEMMA AnswerMarks ==
  ASSUME NEW e \in End, NEW m \in Message, m.kind \notin {"CLOSE", "PICKLE_VERSION"},
         m.kind = "CLOSE_CLOSED" => m.load = Plain
  PROVE  m \in Bids(Peer(e))
  BY DEF Bids

LEMMA ArrivedMarks ==
  ASSUME PipeInv, Marked, NEW e \in End, NEW kinds, Arrives(e, kinds)
  PROVE  /\ net[e] # <<>> /\ stack[e] # <<>> /\ First(e).kind \in kinds
         /\ First(e).of \in Nat /\ First(e).load \in Load /\ First(e) \in Bids(e)
         /\ Bidden(Rest(e)) /\ stack[e] \in Seq(Marks(e)) /\ Below(stack[e]) \in Seq(Marks(e))
         /\ Top(e) \in Marks(e) /\ Top(e) \in On(e) /\ First(e) \in To(e)
  BY Arrived, TakingMarks

LEMMA TakeValueMarks ==
  ASSUME PipeInv, Marked, NEW e \in End, NEW kinds, Arrives(e, kinds), UNCHANGED held,
         NEW v \in SUBSET Importable[Peer(e)], NEW r \in SUBSET Type, TakeValue(e, v, r)
  PROVE  Moved
<1>1. /\ net[e] # <<>> /\ stack[e] # <<>> /\ Top(e) \in On(e) /\ Top(e) \in Marks(e)
      /\ Bidden(Rest(e)) /\ Below(stack[e]) \in Seq(Marks(e))
  BY ArrivedMarks
<1>2. UNCHANGED cause => Left' = Left /\ Below(stack[e]) \in Seq(Marks(e)')
  BY <1>1, Growing DEF Left, Quit
<1>3. CASE /\ net' = Rest(e)
           /\ stack' = [stack EXCEPT ![e] = Below(@)]
           /\ back' = IF Len(stack[e]) > 1 THEN back
                      ELSE [back EXCEPT ![e] = IF First(e).load = None THEN "none" ELSE "returned"]
           /\ UNCHANGED <<open, cause, known, asked, spoiled>>
  <2>1. \A x \in End : back'[x] = "shutdown" => back[x] = "shutdown"
    BY <1>3 DEF PipeInv, Moving
  <2>2. stack' = [stack EXCEPT ![e] = Below(stack[e])]
    BY <1>3
  <2>3. (Left => Left') /\ Below(stack[e]) \in Seq(Marks(e)')
    BY <1>2, <1>3
  <2>4. UNCHANGED <<open, held>> /\ net' = Rest(e)
    BY <1>3
  <2> QED BY <1>1, <2>1, <2>2, <2>3, <2>4, PutMarks
<1>4. CASE /\ Top(e).at = "verify"
           /\ SendKnowing(e, Rest(e), Top(e).msg, Below(stack[e]), v, r)
           /\ UNCHANGED known
  <2>1. /\ Top(e).msg \in Message /\ Top(e).msg.kind \notin Verifying
        /\ Sendable(e, Top(e).msg.load)
    BY <1>1, <1>4 DEF On, Frame, GoodFrame
  <2>2. Top(e).msg \in Bids(Peer(e))
    BY <1>1, <1>4 DEF Marks
  <2> QED BY <1>1, <1>4, <2>1, <2>2, SendMarks
<1>5. CASE /\ Top(e).at = "proxy"
           /\ known' = [known EXCEPT ![e] = @ \cup {Top(e).msg.load}]
           /\ net' = [net EXCEPT ![e] = <<Top(e).msg>> \o Tail(@)]
           /\ stack' = [stack EXCEPT ![e] = Below(@)]
           /\ UNCHANGED <<open, cause, asked, back, spoiled>>
  <2>1. Top(e).msg \in To(e) /\ Top(e).msg \in Bids(e)
    BY <1>1, <1>5 DEF On, Frame, GoodFrame, To, Marks
  <2>2. Bidden(net')
    <3>1. net \in [End -> Seq(Message)] /\ net[e] \in Seq(Bids(e)) /\ net[e] \in Seq(To(e))
      BY DEF PipeInv, Moving, Nets, Marked
    <3>2. Tail(net[e]) \in Seq(Bids(e)) /\ Tail(net[e]) \in Seq(To(e))
      BY <1>1, <3>1, HeadTailProperties
    <3>3. /\ <<Top(e).msg>> \o Tail(net[e]) \in Seq(Bids(e))
          /\ <<Top(e).msg>> \o Tail(net[e]) \in Seq(To(e))
      BY <2>1, <3>2, ConcatProperties
    <3>4. <<Top(e).msg>> \o Tail(net[e]) \in Seq(Message)
      BY <3>3, SeqMonotonic DEF To
    <3>5. net' \in Nets
      BY <1>5, <3>1, <3>3, <3>4 DEF PipeInv, Moving, Nets
    <3>6. \A x \in End : net'[x] \in Seq(Bids(x))
      BY <1>5, <3>1, <3>3 DEF Marked
    <3> QED BY <3>5, <3>6 DEF Bidden
  <2>3. stack' = [stack EXCEPT ![e] = Below(stack[e])] /\ UNCHANGED <<open, held, back>>
    BY <1>5
  <2>4. PICK on : on = net' /\ Bidden(on)
    BY <2>2
  <2>5. (Left => Left') /\ Below(stack[e]) \in Seq(Marks(e)')
    BY <1>2, <1>5
  <2> QED BY <2>3, <2>4, <2>5, PutMarks
<1>6. CASE net' = Rest(e) /\ Raise(e, Below(stack[e]), "error") /\ UNCHANGED <<cause, known, asked>>
  BY <1>1, <1>6, RaisedMarks
<1> QED BY <1>3, <1>4, <1>5, <1>6 DEF TakeValue

LEMMA ServedMarks ==
  ASSUME PipeInv, Marked, NEW e \in End, UNCHANGED held,
         ServeCall(e) \/ ServeDud(e) \/ ServeExposed(e) \/ ServeProxyDef(e) \/ ServeVerifyTypes(e)
  PROVE  Moved
<1>1. PICK kinds : Arrives(e, kinds)
  BY DEF ServeCall, ServeDud, ServeExposed, ServeProxyDef, ServeVerifyTypes
<1>2. /\ Bidden(Rest(e)) /\ stack[e] \in Seq(Marks(e)) /\ First(e).of \in Nat
      /\ First(e) \in To(e) /\ stack[e] # <<>> /\ First(e).load \in Load
  BY <1>1, ArrivedMarks
<1>3. stack \in Stacks /\ stack[e] \in Seq(On(e))
  BY DEF PipeInv, Moving, Stacks
<1>4. ASSUME NEW at \in {"call", "dud"}, Left' = Left
      PROVE  Append(stack[e], Wait(at, First(e).of)) \in Seq(Marks(e)')
  <2>1. Wait(at, First(e).of) \in Marks(e)'
    BY <1>2, WaitMarks
  <2>2. stack[e] \in Seq(Marks(e)')
    BY <1>2, <1>4, Growing DEF Quit
  <2> QED BY <2>1, <2>2, AppendProperties
<1>5. CASE ServeCall(e)
  <2>1. Left' = Left
    BY <1>5 DEF ServeCall, Left, Quit
  <2>2. stack' = [stack EXCEPT ![e] = Append(stack[e], Wait("call", First(e).of))]
    BY <1>5 DEF ServeCall
  <2> QED BY <1>2, <1>4, <1>5, <2>1, <2>2, PutMarks DEF ServeCall
<1>6. CASE ServeDud(e)
  <2>1. CASE open[Peer(e)]
    <3>0. UNCHANGED <<open, cause, back>>
      BY <1>6, <2>1, DudAnswered
    <3>1. Left' = Left
      BY <3>0 DEF Left, Quit
    <3>2. PICK answers \in DudAnswers(First(e).of) :
            net' = [Rest(e) EXCEPT ![Peer(e)] = @ \o answers]
      BY <1>6, <2>1, DudAnswered
    <3>3. Bidden(net')
      <4>1. answers \in Seq(Bids(Peer(e)))
        <5>1. {m \in Message : m.kind \in {"REMOTE_ERROR", "RETURN"} /\ m.load \notin Type}
                \subseteq Bids(Peer(e))
          BY AnswerMarks
        <5> QED BY <1>2, <5>1, DudMessages, SeqMonotonic
      <4>2. PipeInv'
        BY <1>6, ServeDudType
      <4>3. Rest(e)[Peer(e)] \o answers \in Seq(Bids(Peer(e)))
        BY <1>2, <4>1, Peers, ConcatProperties DEF Bidden
      <4> QED BY <1>2, <3>2, <4>2, <4>3, Peers DEF Bidden, Nets, PipeInv, Moving
    <3>4. PICK on : on = net' /\ Bidden(on)
      BY <3>3
    <3>5. PICK t : t \in Seq(Marks(e)') /\ stack' = [stack EXCEPT ![e] = t]
      <4>1. CASE stack' = [stack EXCEPT ![e] = Append(@, Wait("dud", First(e).of))]
        <5>1. stack' = [stack EXCEPT ![e] = Append(stack[e], Wait("dud", First(e).of))]
          BY <4>1
        <5> QED BY <1>4, <3>1, <5>1
      <4>2. CASE UNCHANGED stack
        <5>1. stack[e] \in Seq(Marks(e)')
          BY <1>2, <3>1, Growing DEF Quit
        <5> QED BY <1>3, <4>2, <5>1 DEF Stacks
      <4> QED BY <1>6, <2>1, <4>1, <4>2, DudAnswered
    <3> QED BY <1>2, <3>0, <3>1, <3>4, <3>5, PutMarks
  <2>2. CASE net' = Rest(e) /\ cause' = Caused(e, Plain) /\ Raise(e, stack[e], "shutdown")
    BY <1>2, <2>2, ShutByWrite, RemotePipeAssumption
  <2> QED BY <1>6, <2>1, <2>2 DEF ServeDud
<1>7. CASE ServeExposed(e)
  <2> DEFINE answer == [exposed[e] EXCEPT !.of = First(e).of]
  <2>1. exposed[e] \in Message /\ Sendable(e, exposed[e].load) /\ exposed[e].kind \notin Verifying
        /\ exposed[e].kind \notin {"CLOSE", "CLOSE_CLOSED", "PICKLE_VERSION"}
    BY DEF PipeInv, Exposures, Marked
  <2>2. answer \in Message /\ answer.kind \notin Verifying /\ Sendable(e, answer.load)
        /\ answer.kind \notin {"CLOSE", "CLOSE_CLOSED", "PICKLE_VERSION"}
    BY <1>2, <2>1 DEF Message
  <2>3. answer \in Bids(Peer(e))
    BY <2>2, AnswerMarks
  <2> HIDE DEF answer
  <2>4. SendKnowing(e, Rest(e), answer, stack[e], verified[e], remote[e])
    BY <1>7 DEF ServeExposed, Send, answer
  <2>5. verified[e] \in SUBSET Importable[Peer(e)]
    BY DEF PipeInv, Verifications
  <2> QED BY <1>2, <2>2, <2>3, <2>4, <2>5, SendMarks
<1>8. CASE ServeProxyDef(e)
  <2> DEFINE answer == Msg("GET_PROXY_DEF_RESULT", ProxyDef, First(e).of)
  <2>1. answer \in Message /\ answer.kind = "GET_PROXY_DEF_RESULT" /\ answer.load = ProxyDef
    <3>1. "GET_PROXY_DEF_RESULT" \in Kind /\ ProxyDef \in Load
      BY PlainSendable DEF Kind
    <3> QED BY <1>2, <3>1 DEF Msg, Message
  <2>2. answer.kind \notin Verifying /\ Sendable(e, answer.load)
    BY <2>1, PlainSendable DEF Verifying
  <2>3. answer \in Bids(Peer(e))
    BY <2>1, <2>2, AnswerMarks
  <2> HIDE DEF answer
  <2>4. SendKnowing(e, Rest(e), answer, stack[e], verified[e], remote[e])
    BY <1>8 DEF ServeProxyDef, Send, answer
  <2>5. verified[e] \in SUBSET Importable[Peer(e)]
    BY DEF PipeInv, Verifications
  <2> QED BY <1>2, <2>1, <2>2, <2>3, <2>4, <2>5, SendMarks
<1>9. CASE ServeVerifyTypes(e)
  <2>1. PICK answer \in To(Peer(e)) :
          /\ answer.kind = "VERIFY_TYPES_RESULT"
          /\ Write(e, Rest(e), answer, stack[e], stack[e])
    BY <1>9, VerdictGood
  <2>2. answer \in Bids(Peer(e))
    BY <2>1, AnswerMarks DEF To
  <2> QED BY <1>2, <2>1, <2>2, WriteMarks
<1> QED BY <1>5, <1>6, <1>7, <1>8, <1>9

LEMMA ReceivedMarks ==
  ASSUME PipeInv, Marked, NEW e \in End, UNCHANGED held,
         EndOfFile(e) \/ GetProxyDef(e) \/ LoadFails(e) \/ LastReceived(e)
  PROVE  Moved
<1>1. /\ stack[e] # <<>> /\ stack[e] \in Seq(Marks(e)) /\ Top(e) \in Marks(e)
      /\ Below(stack[e]) \in Seq(Marks(e)) /\ Bidden(net)
      /\ Top(e).at = "closing" => Has(stack[e], "closing")
  BY TakingMarks DEF EndOfFile, GetProxyDef, LoadFails, LastReceived, Received, Waiting
<1>2. \A m : Answered(e, m) \in Seq(Marks(e))
  BY <1>1 DEF Answered
<1>3. CASE EndOfFile(e)
  <2>1. CASE Top(e).at = "drain"
    <3>1. Left' = Left /\ (e = "parent" => Left')
      BY <1>1, <1>3, <2>1 DEF EndOfFile, Marks, Left, Quit
    <3> QED BY <1>1, <1>3, <3>1, ShutMarks DEF EndOfFile
  <2>2. CASE Top(e).at # "drain"
    BY <1>1, <1>3, <2>2, ShutByWrite, RemotePipeAssumption DEF EndOfFile
  <2> QED BY <2>1, <2>2
<1>4. CASE GetProxyDef(e)
  <2> DEFINE query == Msg("GET_PROXY_DEF", Plain, 0)
  <2>1. Bidden(Rest(e)) /\ First(e) \in Message /\ First(e) \in Bids(e)
    BY <1>4, Taking, TakingMarks DEF GetProxyDef, To
  <2>2. query \in Message /\ query.kind = "GET_PROXY_DEF" /\ query.load \notin Type
    <3>1. "GET_PROXY_DEF" \in Kind /\ Plain \in Load /\ Plain \notin Type
      BY RemotePipeAssumption DEF Kind, Load
    <3> QED BY <3>1 DEF Msg, Message
  <2>3. query \in To(Peer(e)) /\ query.kind \notin {"CLOSE", "CLOSE_CLOSED", "PICKLE_VERSION"}
    BY <2>2 DEF To, GoodMessage, CarriesObject
  <2> HIDE DEF query
  <2>4. Ask(e, Rest(e), query, stack[e], "proxy", First(e))
    BY <1>4 DEF GetProxyDef, query
  <2> QED BY <1>1, <2>1, <2>3, <2>4, AskMarks DEF Asking
<1>5. CASE LoadFails(e)
  <2>1. Bidden(Rest(e))
    BY <1>5, TakingMarks DEF LoadFails
  <2> QED BY <1>2, <1>5, <2>1, RaisedMarks DEF LoadFails
<1>6. CASE LastReceived(e)
  <2>1. Bidden(Rest(e)) /\ Left' = Left
    BY <1>6, TakingMarks DEF LastReceived, Received, Left, Quit
  <2>2. e = "parent" /\ ~ Has(stack[e], "closing") => Left
    BY <1>1, <1>6 DEF LastReceived, Marks
  <2> QED BY <1>6, <2>1, <2>2, ShutMarks DEF LastReceived
<1> QED BY <1>3, <1>4, <1>5, <1>6

LEMMA TakenMarks ==
  ASSUME PipeInv, Marked, NEW e \in End, UNCHANGED held,
         TakeAnswer(e) \/ TakeVerifyTypesResult(e) \/ TakeError(e) \/ TakeClose(e)
  PROVE  Moved
<1>1. PICK kinds : Arrives(e, kinds)
  BY DEF TakeAnswer, TakeVerifyTypesResult, TakeError, TakeClose
<1>2. /\ net[e] # <<>> /\ stack[e] # <<>> /\ First(e) \in Bids(e) /\ First(e) \in To(e)
      /\ Bidden(Rest(e)) /\ stack[e] \in Seq(Marks(e)) /\ Below(stack[e]) \in Seq(Marks(e))
  BY <1>1, ArrivedMarks
<1>3. verified[e] \in SUBSET Importable[Peer(e)] /\ remote[e] \in SUBSET Type
  BY DEF PipeInv, Verifications
<1>4. CASE TakeAnswer(e)
  BY <1>3, <1>4, TakeValueMarks DEF TakeAnswer
<1>5. CASE TakeVerifyTypesResult(e)
  <2> DEFINE t == First(e).load
  <2>1. Arrives(e, {"VERIFY_TYPES_RESULT"}) /\ First(e).kind = "VERIFY_TYPES_RESULT"
    BY <1>5, Arrived DEF TakeVerifyTypesResult
  <2>2. CASE First(e).ok /\ TakeValue(e, verified[e] \cup {t}, remote[e])
    <3>1. t \in Importable[Peer(e)]
      BY <1>2, <2>1, <2>2 DEF To, GoodMessage
    <3>2. verified[e] \cup {t} \in SUBSET Importable[Peer(e)]
      BY <1>3, <3>1
    <3> QED BY <1>3, <2>1, <2>2, <3>2, TakeValueMarks
  <2>3. CASE t \in Importable[e] /\ TakeValue(e, verified[e], remote[e] \cup {t})
    <3>1. remote[e] \cup {t} \in SUBSET Type
      BY <1>3, <2>3, RemotePipeAssumption
    <3> QED BY <1>3, <2>1, <2>3, <3>1, TakeValueMarks
  <2>4. CASE /\ net' = Rest(e)
             /\ Raise(e, Below(stack[e]), "error")
             /\ UNCHANGED <<cause, verified, remote, known, exposed, asked>>
    BY <1>2, <2>4, RaisedMarks
  <2> QED BY <1>5, <2>2, <2>3, <2>4 DEF TakeVerifyTypesResult
<1>6. CASE TakeError(e)
  <2>1. Answered(e, First(e)) \in Seq(Marks(e))
    BY <1>2 DEF Answered
  <2> QED BY <1>2, <1>6, <2>1, RaisedMarks DEF TakeError
<1>7. CASE TakeClose(e)
  <2>1. First(e).kind = "CLOSE" /\ First(e) \in Message /\ None # Plain
    BY <1>2, <1>7, Arrived, RemotePipeAssumption DEF TakeClose, To
  <2>2. CASE /\ net' = [Rest(e) EXCEPT ![Peer(e)] = Append(@, Msg("CLOSE_CLOSED", Plain, 0))]
             /\ cause' = Caused(e, First(e).load)
             /\ stack' = [stack EXCEPT ![e] = Append(@, Wait("drain", 0))]
             /\ UNCHANGED <<open, back, spoiled>>
    <3>1. (Left => Left') /\ (e = "parent" /\ First(e).load # None => Left')
      BY <2>2, CausedMarks DEF PipeInv, Moving
    <3>2. e = "parent" => Left'
      BY <1>2, <2>1, <3>1 DEF Bids, Left, Quit
    <3>3. stack[e] \in Seq(Marks(e)')
      BY <1>2, <3>1, Growing DEF Quit
    <3>4. Wait("drain", 0) \in Marks(e)'
      BY <3>2, WaitMarks
    <3>5. Append(stack[e], Wait("drain", 0)) \in Seq(Marks(e)')
      BY <3>3, <3>4, AppendProperties
    <3>6. Bidden(net')
      <4> DEFINE m == Msg("CLOSE_CLOSED", Plain, 0)
      <4>1. m \in Message /\ m.kind = "CLOSE_CLOSED" /\ m.load = Plain
        <5>1. "CLOSE_CLOSED" \in Kind /\ Plain \in Load
          BY DEF Kind, Load
        <5> QED BY <5>1 DEF Msg, Message
      <4>2. net' \in Nets
        BY <1>2, <2>2, PlainAnswer DEF Bidden
      <4>3. m \in Bids(Peer(e))
        BY <4>1, AnswerMarks
      <4> HIDE DEF m
      <4>4. Append(Rest(e)[Peer(e)], m) \in Seq(Bids(Peer(e)))
        BY <1>2, <4>3, Peers, AppendProperties DEF Bidden
      <4>5. net' = [Rest(e) EXCEPT ![Peer(e)] = Append(@, m)]
        BY <2>2 DEF m
      <4> QED BY <1>2, <4>2, <4>4, <4>5, Peers DEF Bidden, Nets
    <3>7. PICK on : on = net' /\ Bidden(on)
      BY <3>6
    <3>8. stack' = [stack EXCEPT ![e] = Append(stack[e], Wait("drain", 0))]
          /\ UNCHANGED <<open, held, back>>
      BY <2>2
    <3> QED BY <3>1, <3>5, <3>7, <3>8, PutMarks
  <2>3. CASE /\ net' = Rest(e)
             /\ cause' = IF First(e).load # None THEN Caused(e, First(e).load) ELSE Caused(e, Plain)
             /\ Raise(e, stack[e], "shutdown")
    <3>1. PICK exc : exc # None /\ cause' = Caused(e, exc)
      BY <2>1, <2>3
    <3> QED BY <1>2, <2>3, <3>1, ShutByWrite
  <2> QED BY <1>7, <2>2, <2>3 DEF TakeClose
<1> QED BY <1>4, <1>5, <1>6, <1>7

LEMMA MovedOn ==
  ASSUME Marked, Parting, Moved, UNCHANGED <<exposed, pc, outcome>>
  PROVE  Marked' /\ Parting'
<1>1. Marked'
  BY DEF Marked, Moved, Bidden
<1>2. Parting'
  BY DEF Parting, Moved, Onward, LeftByExit, Quit, End
<1> QED BY <1>1, <1>2

LEMMA PipeStepMarks ==
  ASSUME PipeInv, Marked, NEW e \in End, PipeStep(e), UNCHANGED held
  PROVE  Moved /\ UNCHANGED exposed
<1>1. Moved
  BY ReceivedMarks, ServedMarks, TakenMarks DEF PipeStep
<1>2. UNCHANGED exposed
  BY DEF PipeStep, EndOfFile, GetProxyDef, LoadFails, LastReceived, ServeCall, ServeExposed,
         ServeProxyDef, ServeVerifyTypes, TakeAnswer, TakeVerifyTypesResult, TakeValue,
         TakeError, TakeClose
<1> QED BY <1>1, <1>2

\* Calls of the programs into the pipe.
LEMMA CallMarks ==
  ASSUME PipeInv, Marked, Parting, NEW e \in End, AppStep(e)
  PROVE  Marked' /\ Parting'
<1>1. PICK kind \in {"CALL", "RETURN", "EXCEPTION"}, load \in Values[e] \cup Exceptions[e],
           n \in Nat, s \in Seq(Marks(e)) :
        Send(e, net, Msg(kind, load, n), s)
  <2>1. ASSUME InCall(e) \/ CallOfNone(e)
        PROVE  Below(stack[e]) \in Seq(Marks(e)) /\ Top(e).n \in Nat
    BY <2>1, TakingMarks DEF InCall, CallOfNone, Marks, Frame
  <2>2. stack[e] \in Seq(Marks(e)) /\ 0 \in Nat
    BY TakingMarks
  <2> QED BY <2>1, <2>2 DEF AppStep, CallOther, Call, Return, RaiseException, Answer
<1> DEFINE m == Msg(kind, load, n)
<1>2. /\ m \in Message /\ Sendable(e, m.load)
      /\ m.kind \notin Verifying \cup {"CLOSE", "CLOSE_CLOSED", "PICKLE_VERSION"}
  <2>1. kind \in Kind \ Verifying /\ load \in Load /\ Sendable(e, load)
    BY Sent DEF Kind, Verifying
  <2> QED BY <2>1, MsgType
<1>3. m \in Bids(Peer(e)) /\ Bidden(net)
  BY <1>2, AnswerMarks, TakingMarks
<1>4. SendKnowing(e, net, m, s, verified[e], remote[e])
  BY <1>1 DEF Send
<1>5. verified[e] \in SUBSET Importable[Peer(e)]
  BY DEF PipeInv, Verifications
<1>6. UNCHANGED <<exposed, pc, outcome, held>>
  BY DEF AppStep, CallOther, Call, Return, RaiseException, Answer, program
<1> HIDE DEF m
<1>7. Moved
  BY <1>2, <1>3, <1>4, <1>5, <1>6, SendMarks
<1> QED BY <1>6, <1>7, MovedOn

\* A step of a program that keeps the pipe as it is, but for `back`.
LEMMA AsideMarks ==
  ASSUME PipeInv, Marked, UNCHANGED <<net, stack, cause, exposed>>,
         \A e \in End : open'[e] => open[e], Quit => Quit',
         \A x \in End : back'[x] = "shutdown" => back[x] = "shutdown"
  PROVE  Marked' /\ (Left => Left')
<1>1. Left => Left'
  BY DEF Left
<1>2. \A e \in End : Seq(Bids(e)) \subseteq Seq(Bids(e)') /\ Seq(Marks(e)) \subseteq Seq(Marks(e)')
  BY <1>1, Growing
<1> QED BY <1>1, <1>2 DEF Marked, Backed

LEMMA ToCloseMarks ==
  ASSUME Inv, Marked, NEW e \in End, NEW what, ToClose(e, what), ~ Quit \/ e = "parent"
  PROVE  /\ Marked' /\ (Left => Left') /\ UNCHANGED open
         /\ pc'[e] = "close" /\ held'[e] = what
         /\ pc'[Peer(e)] = pc[Peer(e)] /\ held'[Peer(e)] = held[Peer(e)]
<1>1. /\ pc'[e] = "close" /\ held'[e] = what
      /\ pc'[Peer(e)] = pc[Peer(e)] /\ held'[Peer(e)] = held[Peer(e)]
  BY Peers DEF ToClose, Goto, Inv, ProgramInv
<1>2. Quit => Quit'
  BY <1>1 DEF Quit, Peer
<1>3. UNCHANGED <<open, net, stack, cause, exposed>>
      /\ \A x \in End : back'[x] = "shutdown" => back[x] = "shutdown"
  BY DEF ToClose, Inv, PipeInv, Moving
<1> QED BY <1>1, <1>2, <1>3, AsideMarks DEF Inv

LEMMA ParentMarks ==
  ASSUME Inv, Marked, Parting, ParentStep
  PROVE  Marked' /\ Parting'
<1> "parent" \in End /\ "child" \in End /\ Peer("parent") = "child" /\ PipeInv
  BY DEF End, Peer, Inv
<1> DEFINE Ready == Exposed /\ Goto("parent", "run") /\ UNCHANGED <<pipe, held>>
<1>1. CASE StartFailed \/ ParentClosed \/ Join \/ Ready
  <2>1. UNCHANGED pipe /\ Quit' = Quit
    BY <1>1 DEF StartFailed, ParentClosed, Join, Quit, Inv, ProgramInv
  <2>2. Marked' /\ (Left => Left')
    BY <2>1, AsideMarks DEF pipe
  <2>3. /\ pc' \in [End -> ParentPlace \cup ChildPlace] /\ pc'["child"] = pc["child"]
        /\ held'["child"] = held["child"]
    BY <1>1, GotoType DEF StartFailed, ParentClosed, Join, Goto, ParentPlace, Inv, ProgramInv
  <2>4. /\ pc'["parent"] \in {"close", "join"} => pc["parent"] = "close"
        /\ held'["parent"] \in {held["parent"], "exception"}
    BY <1>1 DEF StartFailed, ParentClosed, Join, At, Goto, Inv, ProgramInv
  <2>5. LeftByExit'
    <3>1. CASE Join
      <4>1. outcome' = "unbound" \/ (outcome' = "result" /\ held["parent"] = "salvaged")
              => held["parent"] \in {"nothing", "salvaged"} /\ cause["parent"] = None
        BY <3>1 DEF Join, Parting, Inv, ProgramInv
      <4> QED BY <2>3, <3>1, <4>1 DEF Join, Parting, At, LeftByExit, Left, Quit
    <3>2. CASE ~ Join
      BY <1>1, <2>3, <2>4, <3>2 DEF StartFailed, ParentClosed, Exposed, Parting, LeftByExit
    <3> QED BY <3>1, <3>2
  <2>6. outcome' # "running" => pc'["parent"] = "end"
    BY <1>1 DEF StartFailed, ParentClosed, Join, Exposed, Goto, At, Parting, Inv, ProgramInv
  <2> QED BY <2>1, <2>2, <2>3, <2>4, <2>5, <2>6 DEF Parting, Quit, pipe
<1>2. CASE GetExposed
  <2> DEFINE query == Msg("GET_EXPOSED", Plain, 0)
  <2>1. "GET_EXPOSED" \in Kind \ Verifying /\ Plain \in Load /\ Sendable("parent", Plain)
    BY PlainSendable DEF Kind, Verifying
  <2>2. query \in Message /\ query.kind = "GET_EXPOSED" /\ Sendable("parent", query.load)
    BY <2>1 DEF Msg, Message
  <2>3. <<>> \in Seq(Marks("parent")) /\ Bidden(net) /\ query \in Bids("child")
    BY <2>2, TakingMarks DEF Bids
  <2>4. verified["parent"] \in SUBSET Importable[Peer("parent")]
    BY DEF PipeInv, Verifications
  <2> HIDE DEF query
  <2>5. SendKnowing("parent", net, query, <<>>, verified["parent"], remote["parent"])
    BY <1>2 DEF GetExposed, query
  <2>6. UNCHANGED <<held, exposed, outcome>>
    BY <1>2 DEF GetExposed
  <2>7. Moved
    BY <2>2, <2>3, <2>4, <2>5, <2>6, SendMarks DEF Verifying
  <2>8. pc'["child"] = pc["child"] /\ pc'["parent"] = "fetch" /\ outcome = "running"
    BY <1>2 DEF GetExposed, At, Goto, Parting, Inv, ProgramInv
  <2> QED BY <2>6, <2>7, <2>8 DEF Marked, Moved, Bidden, Onward, Parting, LeftByExit, Quit
<1>3. CASE (Exposed /\ ~ Ready) \/ RunEnds
  <2>1. PICK what \in {"nothing", "result", "salvaged", "exception"} :
          ToClose("parent", what) /\ (what \in {"nothing", "salvaged"} => back["parent"] = "shutdown")
    BY <1>3 DEF Exposed, RunEnds
  <2>2. /\ Marked' /\ (Left => Left') /\ UNCHANGED open
        /\ pc'["parent"] = "close" /\ held'["parent"] = what
        /\ pc'["child"] = pc["child"] /\ held'["child"] = held["child"]
    BY <2>1, ToCloseMarks
  <2>3. what \in {"nothing", "salvaged"} => Left'
    BY <2>1, <2>2 DEF Marked, Backed
  <2>4. UNCHANGED outcome /\ outcome = "running"
    BY <1>3 DEF Exposed, RunEnds, At, Parting
  <2> QED BY <2>2, <2>3, <2>4 DEF Parting, Quit, LeftByExit
<1>4. CASE ParentClose
  <2> DEFINE m == Msg("CLOSE", None, 0)
  <2>1. /\ m \in Message /\ m.kind = "CLOSE" /\ m.kind \notin Verifying /\ m.load = None
        /\ Sendable("parent", m.load)
    <3>1. "CLOSE" \in Kind /\ None \in Load /\ Sendable("parent", None)
      BY PlainSendable DEF Kind
    <3> QED BY <3>1 DEF Msg, Message, Verifying
  <2>2. m \in Bids("child") /\ Bidden(net) /\ <<Wait("closing", 0)>> \in Seq(Marks("parent"))
    <3>1. Wait("closing", 0) \in On("parent") /\ Wait("closing", 0).at = "closing"
      BY WaitType DEF Wait
    <3>2. Wait("closing", 0) \in Marks("parent")
      BY <3>1 DEF Marks, On
    <3> QED BY <2>1, <3>2, TakingMarks DEF Bids
  <2> HIDE DEF m
  <2>3. SendKnowing("parent", net, m, <<Wait("closing", 0)>>, verified["parent"], remote["parent"])
    BY <1>4 DEF ParentClose, Close, Send, m
  <2>4. verified["parent"] \in SUBSET Importable[Peer("parent")]
    BY DEF PipeInv, Verifications
  <2>5. UNCHANGED <<held, exposed, outcome, pc>>
    BY <1>4 DEF ParentClose, Close, program
  <2>6. Moved
    BY <2>1, <2>2, <2>3, <2>4, <2>5, SendMarks
  <2> QED BY <2>5, <2>6, MovedOn
<1>5. CASE AppStep("parent")
  BY <1>5, CallMarks
<1>6. CASE PipeStep("parent") /\ UNCHANGED <<program, calls, faults>>
  BY <1>6, PipeStepMarks, MovedOn DEF program
<1> QED BY <1>1, <1>2, <1>3, <1>4, <1>5, <1>6 DEF ParentStep

\* The child goes on to close(), with nothing to say only once the pipe is closed.
LEMMA ChildToClose ==
  ASSUME Inv, Marked, Parting, NEW what \in {"nothing", "exception", "exit"},
         ToClose("child", what), pc["child"] \notin {"close", "exited"}, UNCHANGED outcome,
         what = "nothing" => ~ open["child"]
  PROVE  Marked' /\ Parting'
<1>1. "child" \in End /\ Peer("child") = "parent" /\ ~ Quit
  BY DEF End, Peer, Parting
<1>2. /\ Marked' /\ (Left => Left') /\ UNCHANGED open
      /\ pc'["child"] = "close" /\ held'["child"] = what
      /\ pc'["parent"] = pc["parent"] /\ held'["parent"] = held["parent"]
  BY <1>1, ToCloseMarks
<1> QED BY <1>1, <1>2 DEF Parting, Quit, LeftByExit

LEMMA ChildMarks ==
  ASSUME Inv, Marked, Parting, ChildStep \/ StartExits
  PROVE  Marked' /\ Parting'
<1> "parent" \in End /\ "child" \in End /\ Peer("child") = "parent" /\ PipeInv
  BY DEF End, Peer, Inv
<1>1. CASE SendVersion
  <2> DEFINE version == Msg("PICKLE_VERSION", Plain, 0)
  <2>1. version \in To(Peer("child")) /\ version \in Bids("parent")
    <3>1. "PICKLE_VERSION" \in Kind /\ Plain \in Load /\ Plain \notin Type
      BY RemotePipeAssumption DEF Kind, Load
    <3>2. /\ version \in Message /\ version.kind = "PICKLE_VERSION" /\ version.load = Plain
          /\ version.of = 0
      BY <3>1 DEF Msg, Message
    <3> HIDE DEF version
    <3> QED BY <3>1, <3>2 DEF To, GoodMessage, CarriesObject, Bids
  <2> HIDE DEF version
  <2>2. Write("child", net, version, <<>>, <<>>) /\ Bidden(net) /\ <<>> \in Seq(Marks("child"))
    BY <1>1, TakingMarks DEF SendVersion, version
  <2>3. UNCHANGED <<held, exposed, outcome>>
    BY <1>1 DEF SendVersion
  <2>4. Moved
    BY <2>1, <2>2, <2>3, WriteMarks
  <2>5. pc'["parent"] = pc["parent"] /\ pc'["child"] \in {"start", "exited"} /\ ~ Quit
    BY <1>1 DEF SendVersion, Goto, At, Inv, ProgramInv, Parting
  <2> QED BY <2>3, <2>4, <2>5 DEF Marked, Moved, Bidden, Onward, Parting, LeftByExit, Quit
<1>2. CASE StartTool
  <2>1. \A x \in End : exposed'[x].kind \in {"GET_EXPOSED_RESULT", "GET_EXPOSED_ERROR"}
    <3>1. CASE UNCHANGED exposed
      BY <3>1 DEF Marked
    <3>2. CASE ~ UNCHANGED exposed
      <4>1. PICK answer \in {Msg("GET_EXPOSED_RESULT", Tests, 0)}
                            \cup {Msg("GET_EXPOSED_ERROR", x, 0) : x \in Exceptions["child"]} :
              exposed' = [exposed EXCEPT !["child"] = answer]
        BY <1>2, <3>2 DEF StartTool
      <4>2. answer.kind \in {"GET_EXPOSED_RESULT", "GET_EXPOSED_ERROR"}
        BY DEF Msg
      <4>3. exposed \in [End -> Message]
        BY DEF PipeInv, Exposures
      <4> QED BY <4>1, <4>2, <4>3 DEF Marked
    <3> QED BY <3>1, <3>2
  <2>2. UNCHANGED <<open, net, stack, cause, back, pc, held, outcome>>
    BY <1>2 DEF StartTool
  <2>3. Marked'
    <3>1. Left' = Left /\ Quit' = Quit
      BY <2>2 DEF Left, Quit
    <3>2. \A e \in End : Seq(Bids(e)) \subseteq Seq(Bids(e)') /\ Seq(Marks(e)) \subseteq Seq(Marks(e)')
      BY <3>1, Growing
    <3> QED BY <2>1, <2>2, <3>1, <3>2 DEF Marked, Backed, End
  <2> QED BY <2>2, <2>3 DEF Parting, Left, Quit, LeftByExit
<1>3. CASE StartRaises \/ StartExits \/ StopTool \/ Stopped \/ (ServeEnds /\ ~ Goto("child", "stop"))
  <2>1. UNCHANGED outcome
    BY <1>3 DEF StartRaises, StartExits, StopTool, Stopped, ServeEnds
  <2>2. CASE UNCHANGED <<pipe, pc, held>>
    <3>1. Marked' /\ (Left => Left')
      BY <2>2, AsideMarks DEF pipe, Quit
    <3> QED BY <2>1, <2>2, <3>1 DEF pipe, Parting, Quit, LeftByExit
  <2>3. CASE ~ UNCHANGED <<pipe, pc, held>>
    <3>1. PICK what \in {"nothing", "exception", "exit"} :
            ToClose("child", what) /\ (what = "nothing" => pc["child"] = "stop")
      BY <1>3, <2>3 DEF StartRaises, StartExits, StopTool, Stopped, ServeEnds, At
    <3>2. pc["child"] \in {"start", "stop", "serve"}
      BY <1>3 DEF StartRaises, StartExits, StopTool, Stopped, ServeEnds, At
    <3>3. what = "nothing" => ~ open["child"]
      BY <3>1 DEF Parting
    <3> QED BY <2>1, <3>1, <3>2, <3>3, ChildToClose
  <2> QED BY <2>2, <2>3
<1>4. CASE Listen
  <2>1. <<Wait("receive", 0)>> \in Seq(Marks("child")')
    <3>1. Wait("receive", 0) \in Marks("child")'
      BY WaitMarks
    <3> QED BY <3>1
  <2>2. UNCHANGED <<open, net, back, held, cause, exposed, outcome>> /\ Bidden(net)
    BY <1>4, TakingMarks DEF Listen, Receive
  <2>3. stack' = [stack EXCEPT !["child"] = <<Wait("receive", 0)>>] /\ Left' = Left
    BY <1>4, <2>2 DEF Listen, Receive, Left, Quit
  <2>4. Moved
    BY <2>1, <2>2, <2>3, PutMarks
  <2>5. pc'["parent"] = pc["parent"] /\ pc'["child"] = "serve" /\ ~ Quit
    BY <1>4 DEF Listen, Goto, At, Inv, ProgramInv, Parting
  <2> QED BY <2>2, <2>4, <2>5 DEF Marked, Moved, Bidden, Onward, Parting, LeftByExit, Quit
<1>5. CASE ServeEnds /\ Goto("child", "stop")
  <2>1. UNCHANGED <<pipe, held, outcome>> /\ back["child"] = "shutdown"
    BY <1>5 DEF ServeEnds, Goto, ToClose, Inv, ProgramInv
  <2>2. pc'["parent"] = pc["parent"] /\ pc'["child"] = "stop" /\ ~ Quit
    BY <1>5 DEF ServeEnds, Goto, At, Inv, ProgramInv, Parting
  <2>3. Marked' /\ (Left => Left')
    BY <2>1, AsideMarks DEF pipe, Quit
  <2>4. ~ open["child"]
    BY <2>1 DEF Marked, Backed
  <2> QED BY <2>1, <2>2, <2>3, <2>4 DEF pipe, Parting, Quit, LeftByExit
<1>6. CASE ChildClose
  <2>1. PICK exc \in IF held["child"] = "exception" THEN Exceptions["child"] ELSE {None} :
          Close("child", exc)
    BY <1>6 DEF ChildClose
  <2> DEFINE m == Msg("CLOSE", exc, 0)
  <2>2. /\ exc \in Load /\ Sendable("child", exc)
        /\ exc = None => Quit
    <3>1. CASE held["child"] = "exception"
      BY <2>1, <3>1, Sent, RemotePipeAssumption, RemoteToolAssumption
    <3>2. CASE held["child"] # "exception"
      BY <1>6, <2>1, <3>2, PlainSendable DEF ChildClose, At, Parting, Quit
    <3> QED BY <3>1, <3>2
  <2>3. m \in Message /\ m.kind = "CLOSE" /\ m.load = exc /\ m.kind \notin Verifying
    <3>1. "CLOSE" \in Kind
      BY DEF Kind
    <3> QED BY <2>2, <3>1 DEF Msg, Message, Verifying
  <2>4. m \in Bids("parent") /\ Bidden(net) /\ <<Wait("closing", 0)>> \in Seq(Marks("child"))
    <3>1. Wait("closing", 0) \in On("child") /\ Wait("closing", 0).at = "closing"
      BY WaitType DEF Wait
    <3>2. Wait("closing", 0) \in Marks("child")
      BY <3>1 DEF Marks, On
    <3> QED BY <2>2, <2>3, <3>2, TakingMarks DEF Bids
  <2> HIDE DEF m
  <2>5. SendKnowing("child", net, m, <<Wait("closing", 0)>>, verified["child"], remote["child"])
    BY <2>1 DEF Close, Send, m
  <2>6. verified["child"] \in SUBSET Importable[Peer("child")]
    BY DEF PipeInv, Verifications
  <2>7. UNCHANGED <<held, exposed, outcome, pc>>
    BY <1>6, <2>1 DEF ChildClose, Close
  <2>8. Moved
    BY <2>2, <2>3, <2>4, <2>5, <2>6, <2>7, SendMarks
  <2> QED BY <2>7, <2>8, MovedOn
<1>7. CASE ChildExits
  <2>1. UNCHANGED <<pipe, held, outcome>> /\ pc'["parent"] = pc["parent"] /\ pc'["child"] = "exited"
    BY <1>7 DEF ChildExits, Goto, Inv, ProgramInv
  <2>2. Marked' /\ (Left => Left')
    BY <2>1, AsideMarks DEF pipe, Quit
  <2> QED BY <2>1, <2>2 DEF pipe, Parting, Quit, LeftByExit
<1>8. CASE AppStep("child")
  BY <1>8, CallMarks
<1>9. CASE PipeStep("child") /\ UNCHANGED <<program, calls, faults>>
  BY <1>9, PipeStepMarks, MovedOn DEF program
<1> QED BY <1>1, <1>2, <1>3, <1>4, <1>5, <1>6, <1>7, <1>8, <1>9 DEF ChildStep

LEMMA FaultMarks ==
  ASSUME Inv, Marked, Parting, NEW e \in End, ExitCall \/ NotCallable(e) \/ Die(e)
  PROVE  Marked' /\ Parting'
<1> PipeInv /\ "child" \in End
  BY DEF Inv, End
<1>1. CASE ExitCall
  <2>1. PICK k \in {0} \cup {i \in 1 .. Len(stack["child"]) - 1 : stack["child"][i].at = "call"} :
          Unwind("child", Below(stack["child"]), k, "exit")
    BY <1>1 DEF ExitCall, Exit
  <2>2. stack["child"] \in Seq(Marks("child")) /\ stack["child"] # <<>> /\ Bidden(net)
    BY <1>1, TakingMarks DEF ExitCall, InCall
  <2>3. Below(stack["child"]) \in Seq(Marks("child"))
        /\ Len(Below(stack["child"])) = Len(stack["child"]) - 1
    BY <2>2, BelowType
  <2>4. k \in 0 .. Len(Below(stack["child"]))
    BY <2>2, <2>3, LenProperties
  <2>5. UNCHANGED <<net, cause, held, exposed, pc, outcome>> /\ Left' = Left
    BY <1>1 DEF ExitCall, Exit, program, Left, Quit
  <2>6. Onward /\ Backed' /\ \A x \in End : stack'[x] \in Seq(Marks(x)')
    BY <2>1, <2>3, <2>4, <2>5, UnwindMarks DEF How
  <2>7. Moved
    BY <2>2, <2>5, <2>6, BiddenLater DEF Moved
  <2> QED BY <2>5, <2>7, MovedOn
<1>2. CASE NotCallable(e)
  <2>1. UNCHANGED <<held, exposed, pc, outcome>>
    BY <1>2 DEF NotCallable, ServeDud, program
  <2> QED BY <1>2, <2>1, ServedMarks, MovedOn DEF NotCallable
<1>3. CASE Die(e)
  <2>1. UNCHANGED <<net, cause, held, exposed, back>> /\ Left' = Left /\ Bidden(net)
    BY <1>3, TakingMarks DEF Die, Left, Quit
  <2>2. open' = [open EXCEPT ![e] = FALSE] /\ stack' = [stack EXCEPT ![e] = <<>>]
    BY <1>3 DEF Die, Gone
  <2>3. ASSUME NEW x \in End PROVE stack'[x] \in Seq(Marks(x)')
    <3>1. stack[x] \in Seq(Marks(x)) /\ <<>> \in Seq(Marks(x))
      BY DEF Marked
    <3>2. stack'[x] \in Seq(Marks(x))
      BY <2>2, <3>1 DEF PipeInv, Moving, Stacks
    <3> QED BY <2>1, <3>2, Growing DEF Quit
  <2>4. Moved
    <3>1. Onward /\ Backed'
      BY <2>1, <2>2 DEF Onward, Marked, Backed, PipeInv, Moving
    <3> QED BY <2>1, <2>3, <3>1, BiddenLater DEF Moved
  <2>5. /\ pc'[e] \in {"exited", "end"} /\ \A x \in End \ {e} : pc'[x] = pc[x]
        /\ e = "child" => pc'[e] = "exited" /\ outcome' = outcome
        /\ e = "parent" => pc'[e] = "end" /\ outcome' = "died"
    BY <1>3 DEF Die, Goto, Inv, ProgramInv
  <2>6. Parting'
    <3>1. CASE e = "child"
      BY <2>1, <2>2, <2>5, <3>1 DEF Parting, Quit, LeftByExit, End
    <3>2. CASE e = "parent"
      BY <2>1, <2>2, <2>5, <3>2 DEF Parting, Quit, LeftByExit, End, PipeInv, Moving
    <3> QED BY <3>1, <3>2 DEF End
  <2> QED BY <2>1, <2>4, <2>6 DEF Marked, Moved, Bidden
<1> QED BY <1>1, <1>2, <1>3

LEMMA InitialMarks ==
  Init => Marked /\ Parting
<1> SUFFICES ASSUME Init PROVE Marked /\ Parting
  OBVIOUS
<1> USE DEF Init, PipeInit
<1>1. ~ Quit /\ ~ Left
  BY DEF Quit, Left, End
<1>2. ASSUME NEW e \in End PROVE net[e] \in Seq(Bids(e)) /\ stack[e] \in Seq(Marks(e))
  <2>1. Wait("receive", 0) \in On(e) /\ Wait("receive", 0).at = "receive"
    BY WaitType DEF Wait
  <2>2. Wait("receive", 0) \in Marks(e)
    BY <2>1 DEF Marks, On
  <2>3. <<Wait("receive", 0)>> \in Seq(Marks(e)) /\ <<>> \in Seq(Marks(e)) /\ <<>> \in Seq(Bids(e))
    BY <2>2
  <2> QED BY <2>3
<1>3. \A e \in End : exposed[e].kind = "GET_EXPOSED_RESULT" /\ back[e] # "shutdown"
  BY DEF Msg
<1>4. Parting
  BY DEF Parting, Quit, LeftByExit, End
<1> QED BY <1>2, <1>3, <1>4 DEF Marked, Backed

LEMMA MarkedInductive ==
  ASSUME Inv, Marked, Parting, [Next]_vars
  PROVE  Marked' /\ Parting'
<1>1. CASE UNCHANGED vars
  <2>1. UNCHANGED <<pipe, pc, held, outcome>>
    BY <1>1 DEF vars, program
  <2>2. Marked' /\ (Left => Left')
    BY <2>1, AsideMarks DEF pipe, Quit, Inv
  <2> QED BY <2>1, <2>2 DEF pipe, Parting, Quit, LeftByExit
<1>2. CASE Finished
  BY <1>1, <1>2 DEF Finished
<1>3. CASE Fault
  <2>1. "child" \in End
    BY DEF End
  <2>2. CASE \E e \in End : ExitCall \/ NotCallable(e) \/ Die(e)
    BY <2>2, FaultMarks
  <2> QED BY <1>3, <2>1, <2>2, ChildMarks DEF Fault
<1> QED BY <1>1, <1>2, <1>3, ParentMarks, ChildMarks DEF Next

\* `result` is only unbound at the return of execute_tests_matching when the tool
\* process left with SystemExit, and an exit code of 0: whoever closes the pipe
\* without an exception, or goes without a word, leaves a cause behind.
THEOREM UnboundOnlyByExit ==
  Spec => []UnboundMeansExit
<1>1. Init => Marked /\ Parting
  BY InitialMarks
<1>2. Inv /\ Marked /\ Parting /\ [Next]_vars => Marked' /\ Parting'
  BY MarkedInductive
<1>3. Parting => UnboundMeansExit
  BY DEF Parting, LeftByExit, UnboundMeansExit
<1> QED BY <1>1, <1>2, <1>3, Invariance, PTL DEF Spec
=============================================================================
