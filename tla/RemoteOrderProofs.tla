-------------------------- MODULE RemoteOrderProofs --------------------------
(***************************************************************************)
(* For any classes, tools, values and bounds of RemoteTool: an answer is   *)
(* taken by the request it answers, as long as no request was given up     *)
(* (AnswerIsOwn). Answers carry no number that the code looks at, so this  *)
(* is a matter of order alone: of the frames of both ends and of what is   *)
(* under way to them.                                                      *)
(*                                                                         *)
(* Once the child listens, one message is under way or one end runs, and   *)
(* the waits of an end are paired with what its peer owes it (Regular). An *)
(* end that has the turn (Turn) opens a frame, takes an answer, sends and  *)
(* so hands the turn over, or closes; every handler is made of these.      *)
(* Before the child listens more may be under way at once, but each end    *)
(* asks one question at most (Early, Aborting).                            *)
(*                                                                         *)
(* The last part is about what a result means (ResultMeansDone): where the *)
(* program of each end is (Placed), and how far the other has come by then *)
(* (Listening, Parted, Finishing).                                         *)
(***************************************************************************)
EXTENDS RemoteToolProofs

----------------------------------------------------------------------------
(* What the frames of an end wait for, and what they owe *)

Last(s) == s[Len(s)]

\* A proxy that is fetched for an answer: the wait below has it already.
Settles(f) == f.at = "proxy" /\ f.msg.kind \in Answers

Settled(s, i) == i < Len(s) /\ Settles(s[i + 1])

\* The numbers of the requests whose answers the frames of s wait for.
Asks(s) == {s[i].n : i \in {j \in 1 .. Len(s) : s[j].at \in Asking /\ ~ Settled(s, j)}}

\* A function served, an answer that waits for a class to be verified, and a
\* request that waits for a proxy, each leave the other end waiting.
Owes(f) ==
  \/ f.at \in Serving
  \/ f.at = "verify" /\ f.msg.kind \in Answers
  \/ f.at = "proxy" /\ f.msg.kind \in Requests

Debt(f) == IF f.at \in Serving THEN f.n ELSE f.msg.of

Debts(s) == {Debt(s[i]) : i \in {j \in 1 .. Len(s) : Owes(s[j])}}

\* Nothing comes any more but the end of the connection.
Final(f) == f.at = "drain" \/ (f.at = "proxy" /\ f.msg.kind = "CLOSE")

\* The frames that are opened while the one below waits.
OnWait(f) ==
  \/ f.at \in Serving \cup {"proxy"}
  \/ f.at = "verify" /\ f.msg.kind \notin {"CALL", "GET_EXPOSED"}

\* What only a program, or a function served, starts.
Begins(f) == f.at = "answer" \/ (f.at = "verify" /\ f.msg.kind \in {"CALL", "GET_EXPOSED"})

Rises(f, g) ==
  /\ f.at \in Asking /\ g.at \in Asking => f.n < g.n
  /\ Owes(f) /\ Owes(g) => Debt(f) < Debt(g)

\* f may be opened above the frames of s.
Opens(s, f) ==
  /\ f.at \in {"receive", "closing"} => s = <<>>
  /\ s # <<>> => ~ Final(Last(s))
  /\ OnWait(f) => s # <<>> /\ Last(s).at \notin Serving
  /\ f.at = "verify" => f.msg.kind \in Answers \cup {"CALL", "GET_EXPOSED", "CLOSE"}
  /\ f.at = "verify" /\ f.msg.kind = "CLOSE" => Len(s) = 1 /\ Last(s).at = "closing"
  /\ Begins(f) => s = <<>> \/ Last(s).at \in Serving
  /\ Settles(f) => Last(s).at \in Asking /\ Last(s).n = f.msg.of

Grows(s, f) == Opens(s, f) /\ \A i \in 1 .. Len(s) : Rises(s[i], f)

\* Every frame of s was opened above the ones below it.
Formed(s) == \A k \in 1 .. Len(s) : Grows(SubSeq(s, 1, k - 1), s[k])

Limited(s, n) == \A i \in 1 .. Len(s) : s[i].at \in Asking => s[i].n <= n

LEMMA EmptyStack ==
  /\ Formed(<<>>) /\ Asks(<<>>) = {} /\ Debts(<<>>) = {}
  /\ \A n : Limited(<<>>, n)
  BY DEF Formed, Asks, Debts, Limited

LEMMA Split ==
  ASSUME NEW s \in Seq(Frame), s # <<>>
  PROVE  /\ Below(s) \in Seq(Frame) /\ Last(s) \in Frame
         /\ s = Append(Below(s), Last(s)) /\ Len(Below(s)) = Len(s) - 1
         /\ Len(s) \in Nat \ {0}
<1>1. Below(s) \in Seq(Frame) /\ Len(Below(s)) = Len(s) - 1 /\ Len(s) \in Nat \ {0}
  BY BelowType, EmptySeq, LenProperties
<1>2. Last(s) \in Frame
  BY <1>1, ElementOfSeq DEF Last
<1>3. s = Append(Below(s), Last(s))
  <2>1. \A i \in 1 .. Len(s) - 1 : Below(s)[i] = s[i]
    BY <1>1, SubSeqProperties DEF Below
  <2>2. \A i \in 1 .. Len(s) : Append(Below(s), Last(s))[i] = s[i]
    BY <1>1, <1>2, <2>1, AppendProperties DEF Last
  <2>3. Append(Below(s), Last(s)) \in Seq(Frame) /\ Len(Append(Below(s), Last(s))) = Len(s)
    BY <1>1, <1>2, AppendProperties
  <2> QED BY <2>2, <2>3, SeqEqual
<1> QED BY <1>1, <1>2, <1>3

LEMMA Pushed ==
  ASSUME NEW s \in Seq(Frame), NEW f \in Frame
  PROVE  LET t == Append(s, f)
         IN  /\ t \in Seq(Frame) /\ t # <<>> /\ Len(t) = Len(s) + 1 /\ Len(s) \in Nat
             /\ \A i \in 1 .. Len(s) : t[i] = s[i] /\ s[i] \in Frame
             /\ t[Len(s) + 1] = f /\ Last(t) = f
             /\ 1 .. Len(t) = (1 .. Len(s)) \cup {Len(s) + 1}
<1> DEFINE t == Append(s, f)
<1>1. /\ t \in Seq(Frame) /\ t # <<>> /\ Len(t) = Len(s) + 1 /\ Len(s) \in Nat
      /\ \A i \in 1 .. Len(s) : t[i] = s[i]
      /\ t[Len(s) + 1] = f
  BY AppendProperties, LenProperties
<1>2. \A i \in 1 .. Len(s) : s[i] \in Frame
  BY ElementOfSeq
<1>3. 1 .. Len(t) = (1 .. Len(s)) \cup {Len(s) + 1}
  BY <1>1
<1>4. Last(t) = f
  BY <1>1 DEF Last
<1> QED BY <1>1, <1>2, <1>3, <1>4

LEMMA Prefixes ==
  ASSUME NEW s \in Seq(Frame), NEW f \in Frame
  PROVE  /\ \A k \in 1 .. Len(s) : SubSeq(Append(s, f), 1, k - 1) = SubSeq(s, 1, k - 1)
         /\ SubSeq(Append(s, f), 1, Len(s)) = s
<1> DEFINE t == Append(s, f)
<1>1. t \in Seq(Frame) /\ Len(t) = Len(s) + 1 /\ Len(s) \in Nat
      /\ \A i \in 1 .. Len(s) : t[i] = s[i]
  BY Pushed
<1> HIDE DEF t
<1>2. ASSUME NEW k \in 0 .. Len(s) PROVE SubSeq(t, 1, k) = SubSeq(s, 1, k)
  <2>1. k \in 0 .. Len(t)
    BY <1>1
  <2>2. SubSeq(t, 1, k) \in Seq(Frame) /\ SubSeq(s, 1, k) \in Seq(Frame)
    BY <1>1, <2>1, Prefix
  <2>3. Len(SubSeq(t, 1, k)) = k /\ Len(SubSeq(s, 1, k)) = k
        /\ \A i \in 1 .. k : SubSeq(t, 1, k)[i] = t[i] /\ SubSeq(s, 1, k)[i] = s[i]
    <3>1. k \in Int /\ 1 \in Int /\ \A i \in 1 .. k : t[i] \in Frame /\ s[i] \in Frame
      BY <1>1, <2>1, ElementOfSeq
    <3>2. CASE k = 0
      BY <3>1, <3>2, SubSeqProperties
    <3>3. CASE k # 0
      BY <3>1, <3>3, SubSeqProperties
    <3> QED BY <3>2, <3>3
  <2>4. \A i \in 1 .. k : SubSeq(t, 1, k)[i] = SubSeq(s, 1, k)[i]
    BY <1>1, <2>3
  <2> QED BY <2>2, <2>3, <2>4, SeqEqual
<1>3. SubSeq(s, 1, Len(s)) = s
  <2>1. Len(s) \in 0 .. Len(s)
    BY <1>1
  <2>2. SubSeq(s, 1, Len(s)) \in Seq(Frame)
    BY <2>1, Prefix
  <2>3. Len(SubSeq(s, 1, Len(s))) = Len(s)
        /\ \A i \in 1 .. Len(s) : SubSeq(s, 1, Len(s))[i] = s[i]
    <3>1. \A i \in 1 .. Len(s) : s[i] \in Frame
      BY ElementOfSeq
    <3>2. Len(s) \in Int /\ 1 \in Int
      BY <1>1
    <3> QED BY <1>1, <3>1, <3>2, SubSeqProperties
  <2> QED BY <2>2, <2>3, SeqEqual
<1>4. ASSUME NEW k \in 1 .. Len(s) PROVE SubSeq(t, 1, k - 1) = SubSeq(s, 1, k - 1)
  <2>1. k - 1 \in 0 .. Len(s)
    BY <1>1
  <2> QED BY <1>2, <2>1
<1>5. Len(s) \in 0 .. Len(s)
  BY <1>1
<1> QED BY <1>2, <1>3, <1>4, <1>5 DEF t

LEMMA FormedPush ==
  ASSUME NEW s \in Seq(Frame), NEW f \in Frame
  PROVE  Formed(Append(s, f)) <=> Formed(s) /\ Grows(s, f)
<1> DEFINE t == Append(s, f)
<1>1. /\ Len(t) = Len(s) + 1 /\ Len(s) \in Nat /\ t[Len(s) + 1] = f
      /\ \A i \in 1 .. Len(s) : t[i] = s[i]
      /\ 1 .. Len(t) = (1 .. Len(s)) \cup {Len(s) + 1}
  BY Pushed
<1>2. /\ \A k \in 1 .. Len(s) : SubSeq(t, 1, k - 1) = SubSeq(s, 1, k - 1)
      /\ SubSeq(t, 1, Len(s)) = s
  BY Prefixes
<1>3. Len(s) + 1 - 1 = Len(s)
  BY <1>1
<1> HIDE DEF t
<1>4. Formed(t) <=> /\ \A k \in 1 .. Len(s) : Grows(SubSeq(t, 1, k - 1), t[k])
                    /\ Grows(SubSeq(t, 1, Len(s)), f)
  BY <1>1, <1>3 DEF Formed
<1>5. (\A k \in 1 .. Len(s) : Grows(SubSeq(t, 1, k - 1), t[k])) <=> Formed(s)
  BY <1>1, <1>2 DEF Formed
<1> QED BY <1>2, <1>4, <1>5 DEF t

LEMMA AsksPush ==
  ASSUME NEW s \in Seq(Frame), NEW f \in Frame, Formed(Append(s, f)), ~ Settles(f)
  PROVE  /\ Asks(Append(s, f)) = Asks(s) \cup (IF f.at \in Asking THEN {f.n} ELSE {})
         /\ f.at \in Asking => \A a \in Asks(s) : a < f.n
<1> DEFINE t == Append(s, f)
           A(q) == {j \in 1 .. Len(q) : q[j].at \in Asking /\ ~ Settled(q, j)}
<1>1. /\ Len(t) = Len(s) + 1 /\ Len(s) \in Nat /\ t[Len(s) + 1] = f
      /\ \A i \in 1 .. Len(s) : t[i] = s[i]
      /\ 1 .. Len(t) = (1 .. Len(s)) \cup {Len(s) + 1}
  BY Pushed
<1>2. \A j \in 1 .. Len(s) : Settled(t, j) <=> Settled(s, j)
  BY <1>1 DEF Settled
<1>3. ~ Settled(t, Len(s) + 1)
  BY <1>1 DEF Settled
<1>4. Grows(s, f)
  BY FormedPush
<1>5. A(t) = A(s) \cup (IF f.at \in Asking THEN {Len(s) + 1} ELSE {})
  BY <1>1, <1>2, <1>3
<1>6. Asks(t) = {t[i].n : i \in A(t)} /\ Asks(s) = {s[i].n : i \in A(s)}
  BY DEF Asks
<1>7. A(s) \subseteq 1 .. Len(s)
  OBVIOUS
<1>8. f.at \in Asking => \A i \in A(s) : s[i].n < f.n
  BY <1>4 DEF Grows, Rises
<1> HIDE DEF t, A
<1>9. Asks(t) = Asks(s) \cup (IF f.at \in Asking THEN {f.n} ELSE {})
  BY <1>1, <1>5, <1>6, <1>7
<1>10. f.at \in Asking => \A a \in Asks(s) : a < f.n
  BY <1>6, <1>8
<1> QED BY <1>9, <1>10 DEF t

LEMMA DebtsPush ==
  ASSUME NEW s \in Seq(Frame), NEW f \in Frame, Formed(Append(s, f))
  PROVE  /\ Debts(Append(s, f)) = Debts(s) \cup (IF Owes(f) THEN {Debt(f)} ELSE {})
         /\ Owes(f) => \A d \in Debts(s) : d < Debt(f)
<1> DEFINE t == Append(s, f)
           A(q) == {j \in 1 .. Len(q) : Owes(q[j])}
<1>1. /\ Len(t) = Len(s) + 1 /\ Len(s) \in Nat /\ t[Len(s) + 1] = f
      /\ \A i \in 1 .. Len(s) : t[i] = s[i]
      /\ 1 .. Len(t) = (1 .. Len(s)) \cup {Len(s) + 1}
  BY Pushed
<1>4. Grows(s, f)
  BY FormedPush
<1>5. A(t) = A(s) \cup (IF Owes(f) THEN {Len(s) + 1} ELSE {})
  BY <1>1
<1>6. Debts(t) = {Debt(t[i]) : i \in A(t)} /\ Debts(s) = {Debt(s[i]) : i \in A(s)}
  BY DEF Debts
<1>7. A(s) \subseteq 1 .. Len(s)
  OBVIOUS
<1>8. Owes(f) => \A i \in A(s) : Debt(s[i]) < Debt(f)
  BY <1>4 DEF Grows, Rises
<1> HIDE DEF t, A
<1>9. Debts(t) = Debts(s) \cup (IF Owes(f) THEN {Debt(f)} ELSE {})
  BY <1>1, <1>5, <1>6, <1>7
<1>10. Owes(f) => \A d \in Debts(s) : d < Debt(f)
  BY <1>6, <1>8
<1> QED BY <1>9, <1>10 DEF t

\* A frame that settles the wait below it takes its number out.
LEMMA AsksSettle ==
  ASSUME NEW s \in Seq(Frame), NEW f \in Frame, Formed(Append(s, f)), Settles(f)
  PROVE  /\ Asks(Append(s, f)) = (Asks(s) \ {f.msg.of}) \cup {f.n}
         /\ f.msg.of \in Asks(s) /\ f.msg.of < f.n
         /\ \A a \in Asks(s) : a < f.n /\ (a < f.msg.of \/ a = f.msg.of)
<1> DEFINE t == Append(s, f)
           A(q) == {j \in 1 .. Len(q) : q[j].at \in Asking /\ ~ Settled(q, j)}
           l == Len(s)
<1>1. /\ Len(t) = Len(s) + 1 /\ Len(s) \in Nat /\ t[Len(s) + 1] = f
      /\ \A i \in 1 .. Len(s) : t[i] = s[i]
      /\ 1 .. Len(t) = (1 .. Len(s)) \cup {Len(s) + 1}
  BY Pushed
<1>2. Formed(s) /\ Grows(s, f)
  BY FormedPush
<1>3. s # <<>> /\ l \in 1 .. l /\ s[l].at \in Asking /\ s[l].n = f.msg.of
  <2>1. s # <<>>
    BY <1>2 DEF Grows, Opens, Settles, OnWait
  <2> QED BY <1>1, <1>2, <2>1, EmptySeq DEF Grows, Opens, Last
<1>4. f.at \in Asking
  BY DEF Settles, Asking
<1>5. /\ Settled(t, l) /\ ~ Settled(t, l + 1) /\ ~ Settled(s, l)
      /\ \A j \in 1 .. l - 1 : Settled(t, j) <=> Settled(s, j)
  BY <1>1 DEF Settled
<1>6. A(t) = (A(s) \ {l}) \cup {l + 1} /\ l \in A(s)
  BY <1>1, <1>3, <1>4, <1>5
<1>7. \A i \in A(s) \ {l} : s[i].n < s[l].n
  <2>1. s = Append(Below(s), Last(s)) /\ Below(s) \in Seq(Frame) /\ Last(s) \in Frame
        /\ Len(Below(s)) = l - 1
    BY <1>3, Split
  <2>2. Grows(Below(s), Last(s))
    BY <1>2, <2>1, FormedPush
  <2>3. \A i \in 1 .. l - 1 : s[i] = Below(s)[i]
    BY <2>1, Pushed
  <2>4. \A i \in A(s) \ {l} : i \in 1 .. l - 1 /\ s[i].at \in Asking
    BY <1>1
  <2> QED BY <1>3, <2>1, <2>2, <2>3, <2>4 DEF Grows, Rises, Last
<1>8. \A i \in A(s) : s[i].n < f.n
  BY <1>2, <1>4 DEF Grows, Rises
<1>9. Asks(t) = {t[i].n : i \in A(t)} /\ Asks(s) = {s[i].n : i \in A(s)}
  BY DEF Asks
<1>10. A(s) \subseteq 1 .. l /\ \A i \in A(s) : s[i].n \in Nat
  <2>1. \A i \in 1 .. Len(s) : s[i] \in Frame
    BY ElementOfSeq
  <2> QED BY <2>1 DEF Frame
<1> HIDE DEF t, A, l
<1>11. Asks(t) = (Asks(s) \ {s[l].n}) \cup {f.n}
  <2>1. {t[i].n : i \in A(t)} = {s[i].n : i \in A(s) \ {l}} \cup {f.n}
    BY <1>1, <1>6, <1>10 DEF l
  <2>2. {s[i].n : i \in A(s) \ {l}} = {s[i].n : i \in A(s)} \ {s[l].n}
    BY <1>6, <1>7, <1>10
  <2> QED BY <1>9, <2>1, <2>2
<1>12. \A a \in Asks(s) : a < f.n /\ (a < s[l].n \/ a = s[l].n)
  BY <1>7, <1>8, <1>9
<1>13. s[l].n \in Asks(s) /\ s[l].n < f.n
  BY <1>6, <1>8, <1>9
<1> QED BY <1>3, <1>11, <1>12, <1>13 DEF t

LEMMA SetsOfNumbers ==
  ASSUME NEW s \in Seq(Frame)
  PROVE  Asks(s) \subseteq Nat /\ Debts(s) \subseteq Nat
<1>1. \A i \in 1 .. Len(s) : s[i] \in Frame
  BY ElementOfSeq
<1>2. \A f \in Frame : f.n \in Nat /\ f.msg.of \in Nat
  BY DEF Frame, Message
<1> QED BY <1>1, <1>2 DEF Asks, Debts, Debt

----------------------------------------------------------------------------
(* One of the two ends has the turn *)

Flight(q, kinds) == {q[i].of : i \in {j \in 1 .. Len(q) : q[j].kind \in kinds}}
Carries(m, kinds) == IF m.kind \in kinds THEN {m.of} ELSE {}

\* The answers that e is to get, those under way and those the frames of its
\* peer owe it; the requests under way to a peer that is gone are not served.
Due(e) ==
  Flight(net[e], Answers) \cup (IF open[Peer(e)] THEN Flight(net[Peer(e)], Requests) ELSE {})
Owed(e) == IF open[Peer(e)] THEN Debts(stack[Peer(e)]) ELSE {}

\* What is to come, under way and owed, goes to the newest of the requests
\* asked, and what is under way comes first.
Pairing(asks, due, owed) ==
  /\ due \cup owed \subseteq asks
  /\ \A a \in asks : \A b \in due \cup owed : b < a => a \in due \cup owed
  /\ \A x \in due : \A d \in owed : d < x

\* e sends nothing any more: it closes the connection, or has.
Mute(e) == open[e] => Len(stack[e]) = 1 /\ Last(stack[e]).at = "closing"

Hushed(e) ==
  /\ stack[e] # <<>> /\ Final(Last(stack[e])) =>
       /\ net[e] = <<>> /\ Mute(Peer(e))
       /\ open[Peer(e)] =>
            \A i \in 1 .. Len(net[Peer(e)]) : ~ CarriesObject(net[Peer(e)][i])
  /\ \A i \in 1 .. Len(net[e]) : net[e][i].kind = "CLOSE" => Mute(Peer(e))

\* A request comes after those that e is serving, and the version to receive().
Fresh(e) ==
  /\ \A x \in Flight(net[e], Requests) : \A d \in Debts(stack[e]) : d < x
  /\ \A i \in 1 .. Len(net[e]) : net[e][i].kind = "PICKLE_VERSION" =>
       Len(stack[e]) = 1 /\ Last(stack[e]).at = "receive" /\ Last(stack[e]).n = 0

Fit(e) ==
  /\ Formed(stack[e]) /\ Limited(stack[e], asked[e])
  /\ Hushed(e) /\ Fresh(e)
  /\ Pairing(Asks(stack[e]), Due(e), Owed(e))

Runs(e) == open[e] /\ (stack[e] = <<>> \/ Last(stack[e]).at \in Serving)
Busy(e) == open[e] /\ (net[e] # <<>> \/ Runs(e))

\* One message is under way or one end runs, never both nor two of a kind.
Single ==
  /\ \A e \in End : open[e] => Len(net[e]) <= 1 /\ (Runs(e) => net[e] = <<>>)
  /\ \A e \in End : Busy(e) => ~ Busy(Peer(e))

Regular == Single /\ \A e \in End : open[e] => Fit(e)

\* e has the turn, with the frames s: it holds the answers to its requests in
\* taken, and owes its peer, beside what its frames do, the answers in due. on
\* is what is under way.
Turn(e, on, s, taken, due) ==
  /\ open[e] /\ on[e] = <<>>
  /\ Formed(s) /\ Limited(s, asked[e])
  /\ s # <<>> => ~ Final(Last(s))
  /\ Pairing(Asks(s), taken, Owed(e))
  /\ \A x \in due : \A d \in Debts(s) : d < x
  /\ open[Peer(e)] =>
       /\ on[Peer(e)] = <<>> /\ ~ Runs(Peer(e))
       /\ Formed(stack[Peer(e)]) /\ Limited(stack[Peer(e)], asked[Peer(e)])
       /\ ~ Final(Last(stack[Peer(e)]))
       /\ Pairing(Asks(stack[Peer(e)]), due, Debts(s))

Typed ==
  /\ open \in [End -> BOOLEAN]
  /\ stack \in [End -> Seq(Frame)]
  /\ net \in [End -> Seq(Message)]
  /\ asked \in [End -> Nat]

LEMMA Types == PipeInv => Typed
  BY DEF PipeInv, Moving, Nets, Stacks, Typed

LEMMA TwoEnds ==
  ASSUME NEW e \in End
  PROVE  End = {e, Peer(e)} /\ Peer(e) \in End /\ e # Peer(e) /\ Peer(Peer(e)) = e
  BY DEF End, Peer

LEMMA NoFlight ==
  ASSUME NEW kinds
  PROVE  Flight(<<>>, kinds) = {}
  BY DEF Flight

LEMMA OneFlight ==
  ASSUME NEW q \in Seq(Message), Len(q) <= 1, q # <<>>, NEW kinds
  PROVE  /\ Flight(q, kinds) = Carries(Head(q), kinds) /\ Tail(q) = <<>> /\ Head(q) = q[1]
         /\ Len(q) = 1
<1>1. Len(q) = 1
  BY EmptySeq, LenProperties, SMTT(30)
<1>2. 1 .. Len(q) = {1} /\ Head(q) = q[1]
  BY <1>1
<1>3. Tail(q) \in Seq(Message) /\ Len(Tail(q)) = 0
  BY <1>1, HeadTailProperties
<1>4. Tail(q) = <<>>
  BY <1>3, EmptySeq
<1>5. Flight(q, kinds) = Carries(q[1], kinds)
  BY <1>2 DEF Flight, Carries
<1> QED BY <1>1, <1>2, <1>4, <1>5

\* e closes the connection, and what is left to its peer is not answered.
LEMMA Closed ==
  ASSUME Typed, Typed', NEW e \in End, ~ open'[e],
         open[Peer(e)] =>
           /\ Formed(stack[Peer(e)]) /\ Limited(stack[Peer(e)], asked[Peer(e)])
           /\ net'[Peer(e)] = <<>>,
         open'[Peer(e)] = open[Peer(e)], stack'[Peer(e)] = stack[Peer(e)],
         asked'[Peer(e)] = asked[Peer(e)]
  PROVE  Regular'
<1> DEFINE p == Peer(e)
<1>1. End = {e, p} /\ p # e /\ Peer(p) = e
  BY TwoEnds
<1>2. Single'
  BY <1>1 DEF Single, Busy, Runs
<1>3. ASSUME open'[p] PROVE Fit(p)'
  <2>1. net'[p] = <<>> /\ Flight(net'[p], Answers) = {}
    BY <1>3, NoFlight
  <2>2. Due(p)' = {} /\ Owed(p)' = {}
    BY <1>1, <2>1 DEF Due, Owed
  <2>3. Hushed(p)'
    BY <1>1, <2>1 DEF Hushed, Mute
  <2>4. Fresh(p)'
    BY <2>1, NoFlight DEF Fresh
  <2> QED BY <1>3, <2>2, <2>3, <2>4 DEF Fit, Pairing
<1> QED BY <1>1, <1>2, <1>3 DEF Regular

\* e sends m and waits, or closes.
LEMMA Posted ==
  ASSUME Typed, Typed', NEW e \in End, NEW on, NEW s, NEW taken, NEW due,
         Turn(e, on, s, taken, due), open[Peer(e)],
         NEW m \in Message, NEW after \in Seq(Frame),
         net' = [on EXCEPT ![Peer(e)] = Append(@, m)], on \in [End -> Seq(Message)],
         stack' = [stack EXCEPT ![e] = after], open' = open,
         asked'[Peer(e)] = asked[Peer(e)],
         Formed(after), Limited(after, asked'[e]),
         after # <<>>, Last(after).at \notin Serving,
         Final(Last(after)) => ~ CarriesObject(m) /\ Mute(Peer(e)),
         m.kind = "CLOSE" => Len(after) = 1 /\ Last(after).at = "closing",
         m.kind # "PICKLE_VERSION",
         Pairing(Asks(after), Carries(m, Requests), Owed(e)),
         Pairing(Asks(stack[Peer(e)]), Carries(m, Answers), Debts(after))
  PROVE  Regular'
<1> DEFINE p == Peer(e)
<1>1. End = {e, p} /\ p # e /\ Peer(p) = e
  BY TwoEnds
<1> DEFINE q == net'[p]
<1>2. net'[e] = <<>> /\ q = <<m>>
  <2>1. on[e] = <<>> /\ on[p] = <<>>
    BY DEF Turn
  <2>2. net'[e] = on[e] /\ net'[p] = Append(on[p], m)
    BY <1>1
  <2> QED BY <2>1, <2>2
<1>3. stack'[e] = after /\ stack'[p] = stack[p]
  BY <1>1 DEF Typed
<1>4. /\ Len(q) = 1 /\ q # <<>> /\ q[1] = m /\ 1 .. Len(q) = {1}
      /\ Flight(q, Answers) = Carries(m, Answers)
      /\ Flight(q, Requests) = Carries(m, Requests)
      /\ Len(net'[e]) = 0 /\ 1 .. Len(net'[e]) = {}
  <2>1. Len(<<m>>) = 1 /\ <<m>> # <<>> /\ <<m>>[1] = m /\ Head(<<m>>) = m
    OBVIOUS
  <2>2. q \in Seq(Message) /\ Len(q) = 1 /\ q # <<>> /\ q[1] = m /\ Head(q) = m
    <3>1. q \in Seq(Message)
      BY <1>1 DEF Typed
    <3>2. Len(q) = 1 /\ q # <<>> /\ q[1] = m /\ Head(q) = m
      BY <1>2, <2>1
    <3> QED BY <3>1, <3>2
  <2> HIDE DEF q
  <2>3. 1 .. Len(q) = {1} /\ Len(q) <= 1
    BY <2>2
  <2>4. Flight(q, Answers) = Carries(m, Answers) /\ Flight(q, Requests) = Carries(m, Requests)
    BY <2>2, <2>3, OneFlight
  <2>5. Len(net'[e]) = 0
    BY <1>2
  <2> QED BY <2>2, <2>3, <2>4, <2>5
<1> HIDE DEF q
<1>5. ~ Runs(e)' /\ ~ Runs(p)'
  BY <1>1, <1>3 DEF Runs, Turn
<1>6. Single'
  BY <1>1, <1>2, <1>4, <1>5 DEF Single, Busy, q
<1>7. Fit(e)'
  <2>1. Hushed(e)'
    <3>1. CASE ~ Final(Last(after))
      BY <1>1, <1>2, <1>3, <3>1 DEF Hushed
    <3>2. CASE Final(Last(after))
      <4>1. Mute(p)'
        BY <1>3, <3>2 DEF Mute
      <4>2. \A i \in 1 .. Len(net'[p]) : ~ CarriesObject(net'[p][i])
        BY <1>4, <3>2 DEF q
      <4> QED BY <1>1, <1>2, <1>3, <4>1, <4>2 DEF Hushed
    <3> QED BY <3>1, <3>2
  <2>2. Due(e)' = Carries(m, Requests) /\ Owed(e)' = Owed(e)
    BY <1>1, <1>2, <1>3, <1>4, NoFlight DEF Due, Owed, q
  <2>3. Fresh(e)'
    BY <1>2, <1>4, NoFlight DEF Fresh
  <2> QED BY <1>1, <1>3, <2>1, <2>2, <2>3 DEF Fit
<1>8. Fit(p)'
  <2>1. Hushed(p)'
    <3>1. ~ Final(Last(stack[p]))
      BY DEF Turn
    <3>2. m.kind = "CLOSE" => Mute(e)'
      BY <1>3 DEF Mute
    <3> QED BY <1>1, <1>2, <1>3, <1>4, <3>1, <3>2 DEF Hushed, q
  <2>2. Due(p)' = Carries(m, Answers) /\ Owed(p)' = Debts(after)
    <3>1. open'[e]
      BY DEF Turn
    <3> QED BY <1>1, <1>2, <1>3, <1>4, <3>1, NoFlight DEF Due, Owed, q
  <2>3. Formed(stack[p]) /\ Limited(stack[p], asked[p])
    BY DEF Turn
  <2>4. Fresh(p)'
    BY <1>3, <1>4 DEF Fresh, Pairing, Owed, q
  <2> QED BY <1>3, <2>1, <2>2, <2>3, <2>4 DEF Fit
<1> QED BY <1>1, <1>6, <1>7, <1>8 DEF Regular

\* e goes on, or waits with nothing under way.
LEMMA Resumed ==
  ASSUME Typed, Typed', NEW e \in End, NEW on, NEW s, NEW taken, NEW due,
         Turn(e, on, s, taken, due), NEW after \in Seq(Frame),
         net' = on, stack' = [stack EXCEPT ![e] = after], open' = open,
         asked'[Peer(e)] = asked[Peer(e)],
         Formed(after), Limited(after, asked'[e]),
         after # <<>> => ~ Final(Last(after)),
         Pairing(Asks(after), {}, Owed(e)),
         open[Peer(e)] => Pairing(Asks(stack[Peer(e)]), {}, Debts(after))
  PROVE  Regular'
<1> DEFINE p == Peer(e)
<1>1. End = {e, p} /\ p # e /\ Peer(p) = e
  BY TwoEnds
<1>2. net'[e] = <<>> /\ (open[p] => net'[p] = <<>>)
  BY DEF Turn
<1>3. stack'[e] = after /\ stack'[p] = stack[p]
  BY <1>1 DEF Typed
<1>4. open'[e] /\ (open[p] => ~ Runs(p)')
  BY <1>3 DEF Turn, Runs
<1>5. Len(<<>>) = 0
  OBVIOUS
<1>6. Single'
  BY <1>1, <1>2, <1>4, <1>5 DEF Single, Busy
<1>7. Fit(e)'
  <2>1. Hushed(e)'
    BY <1>1, <1>2, <1>3, <1>5 DEF Hushed
  <2>2. Due(e)' = {} /\ Owed(e)' = Owed(e)
    BY <1>1, <1>2, <1>3, NoFlight DEF Due, Owed
  <2>3. Fresh(e)'
    BY <1>2, <1>5, NoFlight DEF Fresh
  <2> QED BY <1>1, <1>3, <2>1, <2>2, <2>3 DEF Fit
<1>8. ASSUME open[p] PROVE Fit(p)'
  <2>1. Hushed(p)'
    <3>1. ~ Final(Last(stack[p]))
      BY <1>8 DEF Turn
    <3> QED BY <1>1, <1>2, <1>3, <1>5, <1>8, <3>1 DEF Hushed
  <2>2. Due(p)' = {} /\ Owed(p)' = Debts(after)
    BY <1>1, <1>2, <1>3, <1>4, <1>8, NoFlight DEF Due, Owed
  <2>3. Formed(stack[p]) /\ Limited(stack[p], asked[p])
    BY <1>8 DEF Turn
  <2>4. Fresh(p)'
    BY <1>2, <1>5, <1>8, NoFlight DEF Fresh
  <2> QED BY <1>3, <1>8, <2>1, <2>2, <2>3, <2>4 DEF Fit
<1> QED BY <1>1, <1>6, <1>7, <1>8 DEF Regular

----------------------------------------------------------------------------
(* An exception, and a message sent, in one's turn *)

\* An exception that leaves no request given up, on a connection that stays
\* open, reaches a function that is served, or the program from receive().
LEMMA Unwound ==
  ASSUME Typed, NEW e \in End, NEW s \in Seq(Frame), Formed(s), NEW how,
         NEW k \in 0 .. Len(s), Unwind(e, s, k, how), ~ spoiled', open'[e],
         k < Len(s) => Last(s).at \notin Serving
  PROVE  /\ open' = open /\ open[e] /\ how # "shutdown"
         /\ \/ k = Len(s) /\ stack' = [stack EXCEPT ![e] = s]
            \/ /\ k = 0 /\ Len(s) = 1 /\ Last(s).at = "receive"
               /\ stack' = [stack EXCEPT ![e] = <<>>]
<1> DEFINE left == SubSeq(s, k + 1, Len(s))
           turned == IF Has(left, "drain") THEN "shutdown" ELSE how
           closes == turned = "shutdown" \/ Has(left, "closing")
<1>1. /\ stack' = [stack EXCEPT ![e] = SubSeq(s, 1, k)]
      /\ open' = [open EXCEPT ![e] = @ /\ ~ closes]
      /\ spoiled' = (spoiled \/ (open[e] /\ ~ closes /\ \E kind \in Asking : Has(left, kind)))
  BY DEF Unwind
<1> HIDE DEF left
<1>2. open[e] /\ ~ closes
  BY <1>1 DEF Typed
<1>3. ~ Has(left, "drain") /\ ~ Has(left, "closing") /\ how # "shutdown"
      /\ \A kind \in Asking : ~ Has(left, kind)
  BY <1>1, <1>2
<1>4. open' = open
  <2>1. (open[e] /\ ~ closes) = open[e]
    BY <1>2 DEF Typed
  <2> QED BY <1>1, <2>1 DEF Typed
<1>5. \A i \in 1 .. Len(s) : k < i => s[i].at \in {"receive"} \cup Serving
  <2>1. \A at : Has(left, at) <=> \E i \in 1 .. Len(s) : k < i /\ s[i].at = at
    BY LeftOf DEF left
  <2>2. \A i \in 1 .. Len(s) : s[i] \in Frame
    BY ElementOfSeq
  <2>3. \A f \in Frame : f.at \in {"receive", "closing", "drain"} \cup Asking \cup Serving
    BY DEF Frame, Asking, Serving
  <2> QED BY <1>3, <2>1, <2>2, <2>3
<1>6. Len(s) \in Nat
  BY LenProperties
<1>7. CASE k = Len(s)
  <2>1. SubSeq(s, 1, Len(s)) = s
    BY SubSeqFull
  <2> QED BY <1>1, <1>2, <1>3, <1>4, <1>7, <2>1
<1>8. CASE k # Len(s)
  <2>1. s # <<>> /\ Len(s) \in 1 .. Len(s) /\ k < Len(s)
    BY <1>6, <1>8
  <2>2. Last(s).at = "receive"
    BY <1>5, <2>1 DEF Last
  <2>3. Below(s) = <<>>
    <3>1. s = Append(Below(s), Last(s)) /\ Below(s) \in Seq(Frame) /\ Last(s) \in Frame
      BY <2>1, Split
    <3>2. Grows(Below(s), Last(s))
      BY <3>1, FormedPush
    <3> QED BY <2>2, <3>2 DEF Grows, Opens
  <2>4. Len(s) = 1
    <3>1. Len(Below(s)) = Len(s) - 1
      BY <2>1, Split
    <3>2. Len(<<>>) = 0
      OBVIOUS
    <3> QED BY <1>6, <2>3, <3>1, <3>2
  <2>5. k = 0
    BY <2>1, <2>4
  <2>6. SubSeq(s, 1, 0) = <<>>
    BY SubSeqEmpty
  <2> QED BY <1>1, <1>2, <1>3, <1>4, <2>2, <2>4, <2>5, <2>6
<1> QED BY <1>7, <1>8

\* The frames of a receive() alone wait for nothing and owe nothing.
LEMMA Alone ==
  ASSUME NEW s \in Seq(Frame), Len(s) = 1, Last(s).at \in {"receive", "closing"}
  PROVE  Asks(s) = {} /\ Debts(s) = {} /\ Formed(s) /\ \A n : Limited(s, n)
<1>1. 1 .. Len(s) = {1} /\ s[1].at \in {"receive", "closing"} /\ s[1] \in Frame
  <2>1. 1 .. Len(s) = {1}
    OBVIOUS
  <2>2. s[1].at \in {"receive", "closing"}
    BY DEF Last
  <2>3. s[1] \in Frame
    BY <2>1, ElementOfSeq
  <2> QED BY <2>1, <2>2, <2>3
<1>2. Asks(s) = {} /\ Debts(s) = {} /\ \A n : Limited(s, n)
  BY <1>1 DEF Asks, Asking, Debts, Owes, Serving, Limited
<1>3. s # <<>> /\ Below(s) = <<>>
  <2>1. Len(<<>>) = 0 /\ 1 - 1 = 0
    OBVIOUS
  <2>2. SubSeq(s, 1, 0) = <<>>
    BY SubSeqEmpty
  <2>3. s # <<>>
    BY EmptySeq
  <2>4. Below(s) = SubSeq(s, 1, 0)
    BY <2>1 DEF Below
  <2> QED BY <2>2, <2>3, <2>4
<1>4. s = Append(<<>>, s[1]) /\ Len(<<>>) = 0
  BY <1>3, Split DEF Last
<1>5. Grows(<<>>, s[1])
  BY <1>1, <1>4 DEF Grows, Opens, OnWait, Begins, Settles, Serving
<1>6. Formed(Append(<<>>, s[1]))
  <2>1. <<>> \in Seq(Frame)
    OBVIOUS
  <2> QED BY <1>1, <1>5, <2>1, EmptyStack, FormedPush
<1> QED BY <1>2, <1>4, <1>6

LEMMA ShutDown ==
  ASSUME Typed, NEW e \in End, NEW s, Raise(e, s, "shutdown")
  PROVE  ~ open'[e] /\ open'[Peer(e)] = open[Peer(e)] /\ stack'[Peer(e)] = stack[Peer(e)]
<1>1. Peer(e) \in End /\ Peer(e) # e
  BY TwoEnds
<1> QED BY <1>1 DEF Raise, Unwind, Typed

LEMMA TurnShut ==
  ASSUME Typed, Typed', NEW e \in End, NEW on, NEW s, NEW taken, NEW due,
         Turn(e, on, s, taken, due), NEW t, Raise(e, t, "shutdown"),
         net' = on, asked'[Peer(e)] = asked[Peer(e)]
  PROVE  Regular'
<1>1. ~ open'[e] /\ open'[Peer(e)] = open[Peer(e)] /\ stack'[Peer(e)] = stack[Peer(e)]
  BY ShutDown
<1>2. open[Peer(e)] =>
        /\ Formed(stack[Peer(e)]) /\ Limited(stack[Peer(e)], asked[Peer(e)])
        /\ net'[Peer(e)] = <<>>
  BY DEF Turn
<1> QED BY <1>1, <1>2, Closed

LEMMA TurnUnwind ==
  ASSUME Typed, Typed', NEW e \in End, NEW on, NEW s \in Seq(Frame), NEW taken, NEW due,
         Turn(e, on, s, taken, due), NEW k \in 0 .. Len(s), NEW how, Unwind(e, s, k, how),
         k # 0 => s[k].at \in Serving, k < Len(s) => Last(s).at \notin Serving,
         net' = on, UNCHANGED asked, ~ spoiled',
         s # <<>> /\ Last(s).at \in Serving => taken = {} /\ due = {}
  PROVE  Regular'
<1> DEFINE p == Peer(e)
<1>1. p \in End /\ p # e
  BY TwoEnds
<1>2. CASE ~ open'[e]
  <2>1. open'[p] = open[p] /\ stack'[p] = stack[p] /\ asked'[p] = asked[p]
    BY <1>1 DEF Unwind, Typed
  <2>2. open[p] => /\ Formed(stack[p]) /\ Limited(stack[p], asked[p])
                   /\ net'[p] = <<>>
    BY DEF Turn
  <2> QED BY <1>2, <2>1, <2>2, Closed
<1>3. CASE open'[e]
  <2>0. Formed(s) /\ (s # <<>> => ~ Final(Last(s)))
    BY DEF Turn
  <2>1. /\ open' = open
        /\ \/ k = Len(s) /\ stack' = [stack EXCEPT ![e] = s]
           \/ /\ k = 0 /\ Len(s) = 1 /\ Last(s).at = "receive"
              /\ stack' = [stack EXCEPT ![e] = <<>>]
    BY <1>3, <2>0, Unwound
  <2>2. CASE k = Len(s) /\ stack' = [stack EXCEPT ![e] = s]
    <3>1. s = <<>> \/ Last(s).at \in Serving
      BY <2>2, EmptySeq, LenProperties DEF Last
    <3>2. Pairing(Asks(s), {}, Owed(e))
      <4>1. s = <<>> => taken = {}
        BY EmptyStack DEF Turn, Pairing
      <4> QED BY <3>1, <4>1 DEF Turn
    <3>3. open[p] => Pairing(Asks(stack[p]), {}, Debts(s))
      <4>1. s = <<>> => Debts(s) = {}
        BY EmptyStack
      <4> QED BY <3>1, <4>1 DEF Turn, Pairing
    <3>4. Formed(s) /\ Limited(s, asked'[e])
      BY DEF Turn
    <3> QED BY <1>1, <2>0, <2>1, <2>2, <3>2, <3>3, <3>4, Resumed
  <2>3. CASE Len(s) = 1 /\ Last(s).at = "receive" /\ stack' = [stack EXCEPT ![e] = <<>>]
    <3>1. Asks(s) = {} /\ Debts(s) = {}
      BY <2>3, Alone
    <3>2. Owed(e) = {}
      BY <3>1 DEF Turn, Pairing
    <3>3. Asks(<<>>) = {} /\ Debts(<<>>) = {} /\ Formed(<<>>) /\ Limited(<<>>, asked'[e])
          /\ <<>> \in Seq(Frame)
      BY EmptyStack
    <3>4. Pairing(Asks(<<>>), {}, Owed(e)) /\ Pairing(Asks(stack[p]), {}, Debts(<<>>))
      BY <3>2, <3>3 DEF Pairing
    <3> QED BY <1>1, <2>1, <2>3, <3>3, <3>4, Resumed
  <2> QED BY <2>1, <2>2, <2>3
<1> QED BY <1>2, <1>3 DEF Typed

LEMMA TurnRaise ==
  ASSUME Typed, Typed', NEW e \in End, NEW on, NEW s \in Seq(Frame), NEW taken, NEW due,
         Turn(e, on, s, taken, due), NEW how, Raise(e, s, how),
         net' = on, UNCHANGED asked, ~ spoiled',
         s # <<>> /\ Last(s).at \in Serving => taken = {} /\ due = {}
  PROVE  Regular'
<1>1. /\ LastCall(s) \in 0 .. Len(s) /\ (LastCall(s) # 0 => s[LastCall(s)].at \in Serving)
      /\ \A j \in 1 .. Len(s) : s[j].at \in Serving => j <= LastCall(s)
  BY LastCallRange
<1>2. LastCall(s) < Len(s) => Last(s).at \notin Serving
  <2>1. LastCall(s) < Len(s) => Len(s) \in 1 .. Len(s)
    BY <1>1, LenProperties
  <2> QED BY <1>1, <2>1, LenProperties DEF Last
<1> QED BY <1>1, <1>2, TurnUnwind DEF Raise

----------------------------------------------------------------------------
(* How an end comes to its turn, and what it has when a wait is over *)

LEMMA Kinds ==
  /\ Answers \cap Requests = {}
  /\ \A kind \in {"CLOSE", "CLOSE_CLOSED", "PICKLE_VERSION"} :
       kind \notin Answers /\ kind \notin Requests
  /\ \A f \in Frame : f.at \in {"receive", "closing", "drain"} \cup Asking \cup Serving
  /\ Asking \cap Serving = {}
  BY DEF Answers, Requests, Frame, Asking, Serving

\* An end that runs holds no answer, and owes no more than its frames do.
LEMMA RunsTurn ==
  ASSUME Typed, Regular, NEW e \in End, Runs(e)
  PROVE  Turn(e, net, stack[e], {}, {})
<1> DEFINE p == Peer(e)
<1>1. End = {e, p} /\ p # e /\ Peer(p) = e /\ p \in End
  BY TwoEnds
<1>2. open[e] /\ net[e] = <<>> /\ Fit(e)
  BY DEF Regular, Single, Runs
<1>3. open[p] => net[p] = <<>> /\ ~ Runs(p) /\ Fit(p)
  BY <1>1, <1>2 DEF Regular, Single, Busy
<1>4. stack[e] # <<>> => ~ Final(Last(stack[e]))
  BY DEF Runs, Final, Serving
<1>5. Due(e) = {}
  BY <1>1, <1>2, <1>3, NoFlight DEF Due
<1>6. Pairing(Asks(stack[e]), {}, Owed(e))
  BY <1>2, <1>5 DEF Fit
<1>7. ASSUME open[p]
      PROVE  /\ ~ Final(Last(stack[p]))
             /\ Pairing(Asks(stack[p]), {}, Debts(stack[e]))
  <2>1. ~ Final(Last(stack[p]))
    <3>1. stack[p] # <<>>
      BY <1>3, <1>7 DEF Runs
    <3>2. ~ Mute(e)
      <4>1. CASE stack[e] = <<>>
        <5>1. Len(stack[e]) # 1
          BY <4>1
        <5> QED BY <1>2, <5>1 DEF Mute
      <4>2. CASE Last(stack[e]).at \in Serving
        BY <1>2, <4>2 DEF Mute, Serving
      <4> QED BY <4>1, <4>2 DEF Runs
    <3> QED BY <1>1, <1>3, <1>7, <3>1, <3>2 DEF Fit, Hushed
  <2>2. Due(p) = {} /\ Owed(p) = Debts(stack[e])
    BY <1>1, <1>2, <1>3, <1>7, NoFlight DEF Due, Owed
  <2> QED BY <1>3, <1>7, <2>1, <2>2 DEF Fit
<1> QED BY <1>2, <1>3, <1>4, <1>6, <1>7 DEF Turn, Fit

\* An end that a message has come to.
LEMMA HeadTurn ==
  ASSUME Typed, Regular, NEW e \in End, Waiting(e), net[e] # <<>>,
         Top(e).at # "closing" \/ CarriesObject(First(e))
  PROVE  /\ Turn(e, Rest(e), stack[e], Carries(First(e), Answers), Carries(First(e), Requests))
         /\ First(e) \in Message /\ Fit(e)
         /\ First(e).kind = "CLOSE" => Mute(Peer(e))
         /\ First(e).kind = "PICKLE_VERSION" =>
              Len(stack[e]) = 1 /\ Last(stack[e]).at = "receive" /\ Last(stack[e]).n = 0
         /\ Rest(e) \in [End -> Seq(Message)] /\ Top(e) = Last(stack[e])
<1> DEFINE p == Peer(e)
           m == First(e)
<1>1. End = {e, p} /\ p # e /\ Peer(p) = e /\ p \in End
  BY TwoEnds
<1>2. open[e] /\ Fit(e) /\ Len(net[e]) <= 1 /\ net[e] \in Seq(Message)
  BY DEF Regular, Single, Waiting, Typed
<1>3. open[p] => net[p] = <<>> /\ ~ Runs(p) /\ Fit(p)
  BY <1>1, <1>2 DEF Regular, Single, Busy
<1>4. /\ \A kinds : Flight(net[e], kinds) = Carries(m, kinds)
      /\ Tail(net[e]) = <<>> /\ m = net[e][1] /\ m \in Message /\ 1 .. Len(net[e]) = {1}
  <2>1. \A kinds : Flight(net[e], kinds) = Carries(Head(net[e]), kinds)
    BY <1>2, OneFlight
  <2>2. Tail(net[e]) = <<>> /\ Head(net[e]) = net[e][1] /\ Len(net[e]) = 1
    BY <1>2, OneFlight
  <2>3. Head(net[e]) \in Message
    BY <1>2, HeadTailProperties
  <2>4. 1 .. Len(net[e]) = {1}
    BY <2>2
  <2> QED BY <2>1, <2>2, <2>3, <2>4 DEF First
<1>5. Rest(e)[e] = <<>> /\ Rest(e)[p] = net[p] /\ Rest(e) \in [End -> Seq(Message)]
  BY <1>1, <1>2, <1>4 DEF Rest, Typed
<1>6. Top(e) = Last(stack[e]) /\ stack[e] # <<>>
  BY DEF Top, Last, Waiting
<1>7. ~ Final(Last(stack[e]))
  BY <1>2, <1>6 DEF Fit, Hushed
<1>8. Pairing(Asks(stack[e]), Carries(m, Answers), Owed(e))
  <2>1. Due(e) = Carries(m, Answers)
    BY <1>1, <1>3, <1>4, NoFlight DEF Due
  <2> QED BY <1>2, <2>1 DEF Fit
<1>9. \A x \in Carries(m, Requests) : \A d \in Debts(stack[e]) : d < x
  BY <1>2, <1>4 DEF Fit, Fresh
<1>10. ASSUME open[p]
       PROVE  /\ ~ Final(Last(stack[p]))
              /\ Pairing(Asks(stack[p]), Carries(m, Requests), Debts(stack[e]))
  <2>1. ~ Final(Last(stack[p]))
    <3>1. stack[p] # <<>>
      BY <1>3, <1>10 DEF Runs
    <3>2. ASSUME Final(Last(stack[p])) PROVE FALSE
      <4>1. Mute(e) /\ \A i \in 1 .. Len(net[e]) : ~ CarriesObject(net[e][i])
        BY <1>1, <1>2, <1>3, <1>10, <3>1, <3>2 DEF Fit, Hushed
      <4>2. ~ CarriesObject(m)
        BY <1>4, <4>1
      <4> QED BY <1>2, <1>6, <4>1, <4>2 DEF Mute
    <3> QED BY <3>2
  <2>2. Due(p) = Carries(m, Requests) /\ Owed(p) = Debts(stack[e])
    BY <1>1, <1>2, <1>3, <1>4, <1>10, NoFlight DEF Due, Owed
  <2> QED BY <1>3, <1>10, <2>1, <2>2 DEF Fit
<1>11. Turn(e, Rest(e), stack[e], Carries(m, Answers), Carries(m, Requests))
  BY <1>2, <1>3, <1>5, <1>7, <1>8, <1>9, <1>10 DEF Turn, Fit
<1>12. /\ m.kind = "CLOSE" => Mute(p)
       /\ m.kind = "PICKLE_VERSION" =>
            Len(stack[e]) = 1 /\ Last(stack[e]).at = "receive" /\ Last(stack[e]).n = 0
  BY <1>2, <1>4 DEF Fit, Hushed, Fresh
<1> QED BY <1>2, <1>4, <1>5, <1>6, <1>11, <1>12

\* The answer that has come is the one the innermost wait is for.
LEMMA HeadAnswer ==
  ASSUME Typed, NEW e \in End, NEW on, NEW s \in Seq(Frame), NEW x, NEW due,
         Turn(e, on, s, {x}, due), s # <<>>, Last(s).at \notin Serving
  PROVE  Last(s).at \in Asking /\ Last(s).n = x
<1> DEFINE f == Last(s)
           b == Below(s)
<1>1. b \in Seq(Frame) /\ f \in Frame /\ s = Append(b, f)
  BY Split
<1>2. Formed(s) /\ ~ Final(f) /\ Pairing(Asks(s), {x}, Owed(e))
  BY DEF Turn
<1>3. Formed(b) /\ Grows(b, f)
  BY <1>1, <1>2, FormedPush
<1>4. Asks(s) \subseteq Nat
  BY SetsOfNumbers
<1>5. x \in Asks(s) /\ \A a \in Asks(s) : ~ (x < a)
  BY <1>2, <1>4 DEF Pairing
<1>6. CASE f.at \in Asking
  <2>1. f.n \in Asks(s) /\ \A a \in Asks(s) : a = f.n \/ a < f.n
    <3>1. CASE Settles(f)
      <4>1. Formed(Append(b, f))
        BY <1>1, <1>2
      <4>2. Asks(Append(b, f)) = (Asks(b) \ {f.msg.of}) \cup {f.n}
            /\ \A a \in Asks(b) : a < f.n
        BY <1>1, <3>1, <4>1, AsksSettle
      <4>3. Asks(s) = Asks(Append(b, f))
        BY <1>1
      <4> HIDE DEF f, b
      <4> QED BY <4>2, <4>3
    <3>2. CASE ~ Settles(f)
      <4>1. Formed(Append(b, f))
        BY <1>1, <1>2
      <4>2. Asks(Append(b, f)) = Asks(b) \cup {f.n} /\ \A a \in Asks(b) : a < f.n
        BY <1>1, <1>6, <3>2, <4>1, AsksPush
      <4>3. Asks(s) = Asks(Append(b, f))
        BY <1>1
      <4> HIDE DEF f, b
      <4> QED BY <4>2, <4>3
    <3> QED BY <3>1, <3>2
  <2> QED BY <1>4, <1>5, <1>6, <2>1
<1>7. CASE f.at \notin Asking
  <2>1. f.at \in {"receive", "closing"}
    BY <1>1, <1>2, <1>7, Kinds DEF Final
  <2>2. b = <<>> /\ ~ Settles(f)
    BY <1>3, <2>1 DEF Grows, Opens, Settles
  <2>3. Asks(Append(b, f)) = Asks(b)
    <3>1. Formed(Append(b, f)) /\ b \in Seq(Frame) /\ f \in Frame /\ ~ Settles(f)
      BY <1>1, <1>2, <2>2
    <3>2. f.at \notin Asking
      BY <1>7
    <3> HIDE DEF b, f
    <3>3. Asks(Append(b, f)) = Asks(b) \cup {}
      BY <3>1, <3>2, AsksPush
    <3> QED BY <3>3
  <2>4. Asks(s) = {}
    BY <1>1, <2>2, <2>3, EmptyStack
  <2> QED BY <1>5, <2>4
<1> QED BY <1>6, <1>7

\* The wait is over: what it was opened for is in hand again.
Kept(f) == IF Settles(f) THEN {f.msg.of} ELSE {}
Owing(f) == IF Owes(f) THEN {Debt(f)} ELSE {}

LEMMA TakenTurn ==
  ASSUME Typed, NEW e \in End, NEW on, NEW s \in Seq(Frame), s # <<>>,
         Last(s).at \in Asking, Turn(e, on, s, {Last(s).n}, {})
  PROVE  LET f == Last(s)
             b == Below(s)
         IN  /\ Turn(e, on, b, Kept(f), Owing(f))
             /\ Opens(b, f) /\ b \in Seq(Frame) /\ f \in Frame /\ ~ Final(f)
             /\ b # <<>> /\ Last(b).at \in Serving => Kept(f) = {} /\ Owing(f) = {}
<1> DEFINE f == Last(s)
           b == Below(s)
<1>1. b \in Seq(Frame) /\ f \in Frame /\ s = Append(b, f)
  BY Split
<1>2. Formed(s) /\ ~ Final(f) /\ Pairing(Asks(s), {f.n}, Owed(e)) /\ Limited(s, asked[e])
  BY DEF Turn
<1>3. Formed(b) /\ Grows(b, f) /\ Formed(Append(b, f))
  BY <1>1, <1>2, FormedPush
<1>4. Asks(s) \subseteq Nat /\ Asks(b) \subseteq Nat /\ Debts(b) \subseteq Nat /\ f.n \in Nat
      /\ f.msg.of \in Nat /\ Debt(f) \in Nat
  BY <1>1, SetsOfNumbers DEF Frame, Message, Debt
<1>5. Pairing(Asks(b), Kept(f), Owed(e))
  <2>1. CASE Settles(f)
    <3>1. /\ Asks(Append(b, f)) = (Asks(b) \ {f.msg.of}) \cup {f.n}
          /\ f.msg.of \in Asks(b) /\ f.msg.of < f.n
          /\ \A a \in Asks(b) : a < f.n /\ (a < f.msg.of \/ a = f.msg.of)
      BY <1>1, <1>3, <2>1, AsksSettle
    <3>2. Asks(s) = (Asks(b) \ {f.msg.of}) \cup {f.n}
      BY <1>1, <3>1
    <3> HIDE DEF f, b
    <3>3. \A d \in Owed(e) : d \in Asks(b) /\ d < f.msg.of
      BY <1>2, <1>4, <3>1, <3>2 DEF Pairing
    <3>4. \A a \in Asks(b) : \A d \in {f.msg.of} \cup Owed(e) : d < a => a \in {f.msg.of} \cup Owed(e)
      BY <1>2, <1>4, <3>1, <3>2, <3>3 DEF Pairing
    <3> QED BY <2>1, <3>1, <3>3, <3>4 DEF Pairing, Kept
  <2>2. CASE ~ Settles(f)
    <3>1. Asks(Append(b, f)) = Asks(b) \cup {f.n} /\ \A a \in Asks(b) : a < f.n
      BY <1>1, <1>3, <2>2, AsksPush
    <3>2. Asks(s) = Asks(b) \cup {f.n}
      BY <1>1, <3>1
    <3> HIDE DEF f, b
    <3>3. \A d \in Owed(e) : d \in Asks(b)
      BY <1>2, <1>4, <3>1, <3>2 DEF Pairing
    <3>4. \A a \in Asks(b) : \A d \in Owed(e) : d < a => a \in Owed(e)
      BY <1>2, <1>4, <3>1, <3>2 DEF Pairing
    <3> QED BY <2>2, <3>3, <3>4 DEF Pairing, Kept
  <2> QED BY <2>1, <2>2
<1>6. Debts(Append(b, f)) = Debts(b) \cup Owing(f) /\ \A x \in Owing(f) : \A d \in Debts(b) : d < x
  BY <1>1, <1>3, DebtsPush DEF Owing
<1>7. Debts(s) = Debts(b) \cup Owing(f)
  BY <1>1, <1>6
<1>8. Limited(b, asked[e])
  <2>1. \A i \in 1 .. Len(b) : s[i] = b[i] /\ i \in 1 .. Len(s)
    BY <1>1, Pushed
  <2> QED BY <1>2, <2>1 DEF Limited
<1>9. open[Peer(e)] => Pairing(Asks(stack[Peer(e)]), Owing(f), Debts(b))
  BY <1>6, <1>7 DEF Turn, Pairing
<1>10. Opens(b, f) /\ (b # <<>> => ~ Final(Last(b)))
  BY <1>3 DEF Grows, Opens
<1>11. b # <<>> /\ Last(b).at \in Serving => Kept(f) = {} /\ Owing(f) = {}
  <2>1. Settles(f) \/ Owes(f) => OnWait(f)
    BY Kinds DEF Settles, Owes, OnWait, Answers
  <2> QED BY <1>10, <2>1 DEF Opens, Kept, Owing
<1>12. Turn(e, on, b, Kept(f), Owing(f))
  BY <1>3, <1>5, <1>6, <1>8, <1>9, <1>10 DEF Turn
<1> QED BY <1>1, <1>2, <1>10, <1>11, <1>12

\* The function served returns: its answer is in hand.
LEMMA ReturnTurn ==
  ASSUME Typed, NEW e \in End, NEW on, NEW s \in Seq(Frame), s # <<>>,
         Last(s).at \in Serving, Turn(e, on, s, {}, {})
  PROVE  LET b == Below(s)
         IN  /\ Turn(e, on, b, {}, {Last(s).n})
             /\ b \in Seq(Frame) /\ b # <<>> /\ Last(b).at \notin Serving
<1> DEFINE f == Last(s)
           b == Below(s)
<1>1. b \in Seq(Frame) /\ f \in Frame /\ s = Append(b, f)
  BY Split
<1>2. Formed(s) /\ Pairing(Asks(s), {}, Owed(e)) /\ Limited(s, asked[e])
  BY DEF Turn
<1>3. Formed(b) /\ Grows(b, f) /\ Formed(Append(b, f))
  BY <1>1, <1>2, FormedPush
<1>4. ~ Settles(f) /\ f.at \notin Asking /\ Owes(f) /\ Debt(f) = f.n /\ OnWait(f)
  BY DEF Settles, Asking, Serving, Owes, Debt, OnWait
<1>5. Asks(s) = Asks(b)
  <2>1. Asks(Append(b, f)) = Asks(b)
    BY <1>1, <1>3, <1>4, AsksPush
  <2> QED BY <1>1, <2>1
<1>6. Debts(s) = Debts(b) \cup {f.n} /\ \A d \in Debts(b) : d < f.n
  <2>1. Debts(Append(b, f)) = Debts(b) \cup {f.n} /\ \A d \in Debts(b) : d < f.n
    BY <1>1, <1>3, <1>4, DebtsPush
  <2> QED BY <1>1, <2>1
<1>7. Limited(b, asked[e])
  <2>1. \A i \in 1 .. Len(b) : s[i] = b[i] /\ i \in 1 .. Len(s)
    BY <1>1, Pushed
  <2> QED BY <1>2, <2>1 DEF Limited
<1>8. open[Peer(e)] => Pairing(Asks(stack[Peer(e)]), {f.n}, Debts(b))
  BY <1>6 DEF Turn, Pairing
<1>9. b # <<>> /\ Last(b).at \notin Serving /\ ~ Final(Last(b))
  BY <1>3, <1>4 DEF Grows, Opens
<1>10. Turn(e, on, b, {}, {f.n})
  BY <1>2, <1>3, <1>5, <1>6, <1>7, <1>8, <1>9 DEF Turn
<1> QED BY <1>1, <1>9, <1>10

----------------------------------------------------------------------------
(* A message written, a request made, an object sent in one's turn *)

\* What is known of m and after only counts if m can be written.
LEMMA WriteTurn ==
  ASSUME Typed, Typed', NEW e \in End, NEW on, NEW s, NEW taken, NEW due,
         Turn(e, on, s, taken, due), on \in [End -> Seq(Message)],
         NEW m \in Message, NEW after \in Seq(Frame), NEW t, Write(e, on, m, t, after),
         asked'[Peer(e)] = asked[Peer(e)],
         Formed(after), Limited(after, asked'[e]),
         after # <<>>, Last(after).at \notin Serving,
         Final(Last(after)) => ~ CarriesObject(m) /\ Mute(Peer(e)),
         m.kind = "CLOSE" => Len(after) = 1 /\ Last(after).at = "closing",
         m.kind # "PICKLE_VERSION",
         Pairing(Asks(after), Carries(m, Requests), Owed(e)),
         open[Peer(e)] => Pairing(Asks(stack[Peer(e)]), Carries(m, Answers), Debts(after))
  PROVE  Regular'
<1>1. CASE /\ open[Peer(e)]
           /\ net' = [on EXCEPT ![Peer(e)] = Append(@, m)]
           /\ stack' = [stack EXCEPT ![e] = after]
           /\ open' = open
  BY <1>1, Posted
<1>2. CASE net' = on /\ Raise(e, t, "shutdown")
  BY <1>2, TurnShut
<1> QED BY <1>1, <1>2 DEF Write

\* A request m, made in a frame that opens above those of s.
LEMMA AskTurn ==
  ASSUME Typed, Typed', NEW e \in End, NEW on, NEW s \in Seq(Frame),
         on \in [End -> Seq(Message)], NEW m \in Message,
         NEW at \in Asking, NEW kept \in Message, Ask(e, on, m, s, at, kept),
         m.kind \in Requests, ~ CarriesObject(m) \/ at # "proxy",
         LET f == [at |-> at, n |-> asked[e] + 1, msg |-> kept]
         IN  /\ Turn(e, on, s, Kept(f), Owing(f))
             /\ Opens(s, f)
             /\ Final(f) => Mute(Peer(e))
  PROVE  Regular'
<1> DEFINE f == [at |-> at, n |-> asked[e] + 1, msg |-> kept]
           n == asked[e] + 1
           sent == [m EXCEPT !.of = n]
           after == Append(s, f)
<1>1. asked[e] \in Nat /\ n \in Nat /\ Peer(e) \in End /\ Peer(e) # e
  BY TwoEnds DEF Typed
<1>2. f \in Frame /\ f.at = at /\ f.n = n /\ f.msg = kept /\ f.at \in Asking
  BY <1>1 DEF Frame, Asking
<1>3. sent \in Message /\ sent.kind = m.kind /\ sent.of = n /\ sent.load = m.load
  BY <1>1 DEF Message
<1>4. Write(e, on, sent, s, after) /\ asked' = [asked EXCEPT ![e] = n]
  BY DEF Ask
<1>5. Turn(e, on, s, Kept(f), Owing(f)) /\ Opens(s, f) /\ (Final(f) => Mute(Peer(e)))
  OBVIOUS
<1> HIDE DEF f, sent, n
<1>6. asked'[e] = n /\ asked'[Peer(e)] = asked[Peer(e)] /\ n = asked[e] + 1
  BY <1>1, <1>4 DEF Typed, n
<1>7. /\ after \in Seq(Frame) /\ after # <<>> /\ Last(after) = f
      /\ \A i \in 1 .. Len(s) : after[i] = s[i] /\ s[i] \in Frame
      /\ after[Len(s) + 1] = f /\ 1 .. Len(after) = (1 .. Len(s)) \cup {Len(s) + 1}
  BY <1>2, Pushed
<1>8. Grows(s, f)
  <2>1. ASSUME NEW i \in 1 .. Len(s) PROVE Rises(s[i], f)
    <3>1. s[i].at \in Asking => s[i].n <= asked[e]
      BY <1>5 DEF Turn, Limited
    <3>2. s[i].at \in Asking => s[i].n < n
      BY <1>1, <1>6, <1>7, <3>1 DEF Frame
    <3>3. Owes(s[i]) => Debt(s[i]) \in Debts(s)
      BY DEF Debts
    <3>4. Owes(s[i]) /\ Owes(f) => Debt(s[i]) < Debt(f)
      BY <1>5, <3>3 DEF Turn, Owing
    <3> QED BY <1>2, <3>2, <3>4 DEF Rises
  <2> QED BY <1>5, <2>1 DEF Grows
<1>9. Formed(after)
  BY <1>2, <1>5, <1>8, FormedPush DEF Turn
<1>10. Limited(after, asked'[e])
  <2>1. ASSUME NEW i \in 1 .. Len(s), s[i].at \in Asking PROVE s[i].n <= n
    <3>1. s[i].n <= asked[e]
      BY <1>5, <2>1 DEF Turn, Limited
    <3>2. s[i].n \in Nat
      BY <1>7 DEF Frame
    <3> QED BY <1>1, <1>6, <3>1, <3>2
  <2> QED BY <1>1, <1>2, <1>6, <1>7, <2>1 DEF Limited
<1>11. Asks(s) \subseteq Nat /\ Debts(s) \subseteq Nat
  BY SetsOfNumbers
<1>12. Pairing(Asks(after), {n}, Owed(e))
  <2>0. Pairing(Asks(s), Kept(f), Owed(e))
    BY <1>5 DEF Turn
  <2>1. CASE Settles(f)
    <3>1. /\ Asks(after) = (Asks(s) \ {f.msg.of}) \cup {n}
          /\ f.msg.of \in Asks(s) /\ f.msg.of < n
          /\ \A a \in Asks(s) : a < n /\ (a < f.msg.of \/ a = f.msg.of)
      BY <1>2, <1>9, <2>1, AsksSettle
    <3>2. \A d \in Owed(e) : d \in Asks(s) /\ d < f.msg.of
      BY <2>0, <2>1, <3>1 DEF Pairing, Kept
    <3> HIDE DEF after
    <3>3. \A a \in Asks(after) : \A d \in {n} \cup Owed(e) : d < a => a \in {n} \cup Owed(e)
      <4>1. ASSUME NEW a \in Asks(s), a # f.msg.of, NEW d \in {n} \cup Owed(e), d < a
            PROVE  a \in Owed(e)
        BY <1>1, <1>11, <2>0, <2>1, <3>1, <4>1 DEF Pairing, Kept
      <4> QED BY <3>1, <4>1
    <3>4. {n} \cup Owed(e) \subseteq Asks(after) /\ \A d \in Owed(e) : d < n
      BY <1>1, <1>11, <3>1, <3>2
    <3> QED BY <3>3, <3>4 DEF Pairing
  <2>2. CASE ~ Settles(f)
    <3>1. Asks(after) = Asks(s) \cup {n} /\ \A a \in Asks(s) : a < n
      BY <1>2, <1>9, <2>2, AsksPush
    <3>2. Pairing(Asks(s), {}, Owed(e))
      BY <2>0, <2>2 DEF Kept
    <3> HIDE DEF after
    <3>3. \A a \in Asks(after) : \A d \in {n} \cup Owed(e) : d < a => a \in {n} \cup Owed(e)
      BY <1>1, <1>11, <3>1, <3>2 DEF Pairing
    <3>4. {n} \cup Owed(e) \subseteq Asks(after) /\ \A d \in Owed(e) : d < n
      BY <3>1, <3>2 DEF Pairing
    <3> QED BY <3>3, <3>4 DEF Pairing
  <2> QED BY <2>1, <2>2
<1>13. Debts(after) = Debts(s) \cup Owing(f)
  BY <1>2, <1>9, DebtsPush DEF Owing
<1>14. open[Peer(e)] => Pairing(Asks(stack[Peer(e)]), {}, Debts(after))
  BY <1>5, <1>13 DEF Turn, Pairing
<1>15. Carries(sent, Requests) = {n} /\ Carries(sent, Answers) = {}
       /\ sent.kind # "CLOSE" /\ sent.kind # "PICKLE_VERSION"
  BY <1>3, Kinds DEF Carries
<1>16. Final(Last(after)) => ~ CarriesObject(sent) /\ Mute(Peer(e))
  <2>1. Final(f) => at = "proxy"
    BY <1>2 DEF Final, Asking
  <2> QED BY <1>3, <1>5, <1>7, <2>1 DEF CarriesObject
<1>17. Last(after).at \notin Serving
  BY <1>2, <1>7, Kinds
<1> HIDE DEF after
<1> QED
  BY <1>3, <1>4, <1>5, <1>6, <1>7, <1>9, <1>10, <1>12, <1>14, <1>15, <1>16, <1>17, WriteTurn

\* An object is sent in one's turn: an answer that is in hand, a call, or CLOSE.
LEMMA SendTurn ==
  ASSUME Typed, Typed', NEW e \in End, NEW on, NEW s \in Seq(Frame),
         on \in [End -> Seq(Message)], NEW m \in Message, NEW v, NEW r,
         Turn(e, on, s, {}, Carries(m, Answers)), SendKnowing(e, on, m, s, v, r), ~ spoiled',
         m.kind \in Answers \cup {"CALL", "GET_EXPOSED", "CLOSE"},
         m.kind \in Answers => s # <<>> /\ Last(s).at \notin Serving,
         m.kind \in {"CALL", "GET_EXPOSED"} => s = <<>> \/ Last(s).at \in Serving,
         m.kind = "CLOSE" => Len(s) = 1 /\ Last(s).at = "closing"
  PROVE  Regular'
<1>0. open[e] /\ (s # <<>> => ~ Final(Last(s))) /\ Peer(e) \in End
  BY TwoEnds DEF Turn
<1>6. m.kind = "CLOSE" => s # <<>> /\ Last(s).at \notin Serving
  <2>1. s = <<>> <=> Len(s) = 0
    BY EmptySeq
  <2>2. ASSUME m.kind = "CLOSE" PROVE s # <<>>
    <3>1. Len(s) = 1
      BY <2>2
    <3>2. Len(s) # 0
      BY <3>1
    <3> QED BY <2>1, <3>2
  <2>3. m.kind = "CLOSE" => Last(s).at \notin Serving
    BY DEF Serving
  <2> QED BY <2>2, <2>3
<1>1. CASE net' = on /\ Raise(e, s, "error") /\ UNCHANGED <<cause, asked>>
  <2>1. s # <<>> /\ Last(s).at \in Serving => Carries(m, Answers) = {}
    BY DEF Carries
  <2> QED BY <1>1, <2>1, TurnRaise
<1>2. CASE Ask(e, on, Msg("VERIFY_TYPES", m.load, 0), s, "verify", m)
  <2> DEFINE query == Msg("VERIFY_TYPES", m.load, 0)
             f == [at |-> "verify", n |-> asked[e] + 1, msg |-> m]
  <2>1. query \in Message /\ query.kind = "VERIFY_TYPES"
    BY DEF Msg, Message, Kind
  <2>2. query.kind \in Requests /\ ~ CarriesObject(query)
    BY <2>1 DEF Requests, CarriesObject
  <2>3. /\ f.at = "verify" /\ f.msg = m /\ ~ Final(f) /\ ~ Settles(f)
        /\ Owing(f) = Carries(m, Answers) /\ Kept(f) = {}
    BY DEF Final, Settles, Owing, Kept, Owes, Debt, Serving, Carries
  <2>4. Opens(s, f)
    <3>1. OnWait(f) => s # <<>> /\ Last(s).at \notin Serving
      BY <1>6, <2>3 DEF OnWait, Serving
    <3> HIDE DEF f
    <3> QED BY <1>0, <2>3, <3>1 DEF Opens, Begins
  <2>5. /\ Turn(e, on, s, Kept(f), Owing(f)) /\ Opens(s, f) /\ (Final(f) => Mute(Peer(e)))
        /\ "verify" \in Asking
    BY <2>3, <2>4 DEF Asking
  <2> HIDE DEF query
  <2>6. Ask(e, on, query, s, "verify", m)
    BY <1>2 DEF query
  <2> QED BY <2>1, <2>2, <2>5, <2>6, AskTurn
<1> DEFINE sent == [m EXCEPT !.ref = m.load \in r]
<1>3. sent \in Message /\ sent.kind = m.kind /\ sent.of = m.of
  BY SentByRef
<1>4. CASE m.kind \in {"CALL", "GET_EXPOSED"} /\ Ask(e, on, sent, s, "answer", Nothing)
  <2> DEFINE f == [at |-> "answer", n |-> asked[e] + 1, msg |-> Nothing]
  <2>1. /\ f.at = "answer" /\ ~ Final(f) /\ ~ Settles(f)
        /\ s = <<>> \/ Last(s).at \in Serving
        /\ Owing(f) = {} /\ Kept(f) = {} /\ ~ OnWait(f)
    BY <1>4 DEF Final, Settles, Owing, Kept, Owes, Serving, OnWait
  <2>2. Opens(s, f)
    <3> HIDE DEF f
    <3> QED BY <1>0, <2>1 DEF Opens
  <2>3. Carries(m, Answers) = {} /\ m.kind \in Requests
    BY <1>4 DEF Carries, Answers, Requests
  <2>4. Nothing \in Message /\ "answer" \in Asking
    BY MsgType DEF Nothing, Kind, Load, Asking
  <2>5. Turn(e, on, s, Kept(f), Owing(f)) /\ Opens(s, f) /\ (Final(f) => Mute(Peer(e)))
    BY <2>1, <2>2, <2>3
  <2> HIDE DEF sent
  <2> QED BY <1>3, <1>4, <2>3, <2>4, <2>5, AskTurn
<1>5. CASE m.kind \notin {"CALL", "GET_EXPOSED"} /\ Write(e, on, sent, s, s) /\ UNCHANGED asked
  <2>1. s # <<>> /\ Last(s).at \notin Serving
    BY <1>5, <1>6
  <2>2. Carries(sent, Requests) = {} /\ Carries(sent, Answers) = Carries(m, Answers)
        /\ sent.kind # "PICKLE_VERSION"
    BY <1>3, <1>5, Kinds DEF Carries
  <2>3. /\ Formed(s) /\ Limited(s, asked'[e]) /\ ~ Final(Last(s))
        /\ Pairing(Asks(s), {}, Owed(e))
        /\ open[Peer(e)] => Pairing(Asks(stack[Peer(e)]), Carries(m, Answers), Debts(s))
    BY <1>5, <2>1 DEF Turn
  <2> HIDE DEF sent
  <2> QED BY <1>3, <1>5, <2>1, <2>2, <2>3, WriteTurn
<1> HIDE DEF sent
<1> QED BY <1>0, <1>1, <1>2, <1>4, <1>5 DEF SendKnowing, sent

\* What came before the definition of its proxy is received again.
LEMMA PutBack ==
  ASSUME Typed, Typed', NEW e \in End, NEW on, NEW s \in Seq(Frame), NEW h \in Message,
         Turn(e, on, s, Carries(h, Answers), Carries(h, Requests)),
         net' = [on EXCEPT ![e] = <<h>>], stack' = [stack EXCEPT ![e] = s],
         on \in [End -> Seq(Message)],
         open' = open, asked' = asked, s # <<>>, Last(s).at \notin Serving,
         h.kind \notin {"CLOSE", "PICKLE_VERSION"}
  PROVE  Regular'
<1> DEFINE p == Peer(e)
           q == net'[e]
<1>1. End = {e, p} /\ p # e /\ Peer(p) = e
  BY TwoEnds
<1>2. q = <<h>> /\ net'[p] = on[p] /\ (open[p] => net'[p] = <<>>)
  BY <1>1 DEF Turn
<1>3. stack'[e] = s /\ stack'[p] = stack[p]
  BY <1>1 DEF Typed
<1>4. /\ Len(q) = 1 /\ q # <<>> /\ q[1] = h /\ 1 .. Len(q) = {1}
      /\ Flight(q, Answers) = Carries(h, Answers)
      /\ Flight(q, Requests) = Carries(h, Requests)
  <2>1. Len(<<h>>) = 1 /\ <<h>> # <<>> /\ <<h>>[1] = h /\ Head(<<h>>) = h
    OBVIOUS
  <2>2. q \in Seq(Message)
    BY <1>1 DEF Typed
  <2>3. Len(q) = 1 /\ q # <<>> /\ q[1] = h /\ Head(q) = h
    BY <1>2, <2>1
  <2> HIDE DEF q
  <2>4. 1 .. Len(q) = {1} /\ Len(q) <= 1
    BY <2>3
  <2> QED BY <2>2, <2>3, <2>4, OneFlight
<1> HIDE DEF q
<1>5. ~ Runs(e)' /\ (open[p] => ~ Runs(p)') /\ open[e]
  BY <1>1, <1>3 DEF Runs, Turn
<1>6. Len(<<>>) = 0
  OBVIOUS
<1>7. Single'
  BY <1>1, <1>2, <1>4, <1>5, <1>6 DEF Single, Busy, q
<1>8. Fit(e)'
  <2>1. Hushed(e)'
    BY <1>1, <1>3, <1>4 DEF Hushed, Turn, q
  <2>2. Due(e)' = Carries(h, Answers) /\ Owed(e)' = Owed(e)
    BY <1>1, <1>2, <1>3, <1>4, NoFlight DEF Due, Owed, q
  <2>3. Fresh(e)'
    BY <1>3, <1>4 DEF Fresh, Turn, q
  <2> QED BY <1>1, <1>3, <2>1, <2>2, <2>3 DEF Fit, Turn
<1>9. ASSUME open[p] PROVE Fit(p)'
  <2>1. Hushed(p)'
    <3>1. ~ Final(Last(stack[p]))
      BY <1>9 DEF Turn
    <3> QED BY <1>1, <1>2, <1>3, <1>6, <1>9, <3>1 DEF Hushed
  <2>2. Due(p)' = Carries(h, Requests) /\ Owed(p)' = Debts(s)
    BY <1>1, <1>2, <1>3, <1>4, <1>5, <1>9, NoFlight DEF Due, Owed, q
  <2>3. Formed(stack[p]) /\ Limited(stack[p], asked[p])
    BY <1>9 DEF Turn
  <2>4. Fresh(p)'
    BY <1>2, <1>6, <1>9, NoFlight DEF Fresh
  <2> QED BY <1>3, <1>9, <2>1, <2>2, <2>3, <2>4 DEF Fit, Turn
<1> QED BY <1>1, <1>7, <1>8, <1>9 DEF Regular

----------------------------------------------------------------------------
(* Each step keeps the order *)

\* e is gone, or stays so: what is on its way to its peer is still taken.
LEMMA Deserted ==
  ASSUME Typed, Typed', Regular, NEW e \in End, ~ open'[e],
         open'[Peer(e)] = open[Peer(e)], stack'[Peer(e)] = stack[Peer(e)],
         net'[Peer(e)] = net[Peer(e)], asked'[Peer(e)] = asked[Peer(e)]
  PROVE  Regular'
<1> DEFINE p == Peer(e)
<1>1. End = {e, p} /\ p # e /\ Peer(p) = e
  BY TwoEnds
<1>2. open[p] => Len(net'[p]) <= 1 /\ (Runs(p)' => net'[p] = <<>>)
  BY <1>1 DEF Regular, Single, Runs
<1>3. Single'
  BY <1>1, <1>2 DEF Single, Busy, Runs
<1>4. ASSUME open[p] PROVE Fit(p)'
  <2>1. Fit(p)
    BY <1>1, <1>4 DEF Regular
  <2>2. Hushed(p)'
    BY <1>1, <2>1 DEF Fit, Hushed, Mute
  <2>3. Fresh(p)'
    BY <2>1 DEF Fit, Fresh
  <2>4. Due(p)' = Flight(net[p], Answers) /\ Owed(p)' = {}
    BY <1>1 DEF Due, Owed
  <2>5. Pairing(Asks(stack[p]), Flight(net[p], Answers), {})
    <3>1. CASE net[p] = <<>>
      BY <3>1, NoFlight DEF Pairing
    <3>2. CASE net[p] # <<>>
      <4>1. open[e] => net[e] = <<>>
        BY <1>1, <1>4, <3>2 DEF Regular, Single, Busy
      <4>2. Due(p) = Flight(net[p], Answers)
        BY <1>1, <4>1, NoFlight DEF Due
      <4>3. Pairing(Asks(stack[p]), Flight(net[p], Answers), Owed(p))
        BY <2>1, <4>2 DEF Fit
      <4>4. Flight(net[p], Answers) = Carries(Head(net[p]), Answers)
        BY <1>1, <1>4, <3>2, OneFlight DEF Regular, Single, Typed
      <4>5. Asks(stack[p]) \subseteq Nat
        BY <1>1, SetsOfNumbers DEF Typed
      <4> QED BY <4>3, <4>4, <4>5 DEF Pairing, Carries
    <3> QED BY <3>1, <3>2
  <2> QED BY <2>1, <2>2, <2>3, <2>4, <2>5 DEF Fit
<1> QED BY <1>1, <1>3, <1>4 DEF Regular

LEMMA Unmoved ==
  ASSUME Regular, UNCHANGED <<open, net, stack, asked>>
  PROVE  Regular'
  BY DEF Regular, Single, Busy, Runs, Fit, Limited, Hushed, Mute, Fresh, Due, Owed

LEMMA EndOfFileOrder ==
  ASSUME Typed, Typed', Regular, NEW e \in End, EndOfFile(e)
  PROVE  Regular'
<1>1. ~ open'[e] /\ open'[Peer(e)] = open[Peer(e)] /\ stack'[Peer(e)] = stack[Peer(e)]
  BY ShutDown DEF EndOfFile
<1> QED BY <1>1, Closed DEF EndOfFile

LEMMA GetProxyDefOrder ==
  ASSUME Typed, Typed', Regular, NEW e \in End, GetProxyDef(e)
  PROVE  Regular'
<1> DEFINE m == First(e)
           s == stack[e]
           f == [at |-> "proxy", n |-> asked[e] + 1, msg |-> m]
           query == Msg("GET_PROXY_DEF", Plain, 0)
<1>1. Waiting(e) /\ net[e] # <<>> /\ CarriesObject(m) /\ s # <<>>
  BY DEF GetProxyDef, UnknownProxy, Waiting
<1>2. /\ Turn(e, Rest(e), s, Carries(m, Answers), Carries(m, Requests))
      /\ m \in Message /\ (m.kind = "CLOSE" => Mute(Peer(e)))
      /\ Rest(e) \in [End -> Seq(Message)] /\ Top(e) = Last(s)
  BY <1>1, HeadTurn
<1>3. s \in Seq(Frame) /\ Last(s).at \notin Serving
  BY <1>1, <1>2 DEF Typed, Waiting
<1>4. /\ f.at = "proxy" /\ f.msg = m /\ f.at \in Asking /\ OnWait(f)
      /\ Kept(f) = Carries(m, Answers) /\ Owing(f) = Carries(m, Requests)
      /\ (Final(f) => m.kind = "CLOSE") /\ (Settles(f) => m.kind \in Answers)
  BY DEF Asking, OnWait, Kept, Settles, Carries, Owing, Owes, Debt, Final, Serving
<1>5. Opens(s, f)
  <2>1. m.kind \in Answers => Last(s).at \in Asking /\ Last(s).n = m.of
    <3>1. m.kind \in Answers => Turn(e, Rest(e), s, {m.of}, Carries(m, Requests))
      BY <1>2 DEF Carries
    <3> HIDE DEF m, s
    <3> QED BY <1>1, <1>3, <3>1, HeadAnswer
  <2>2. s # <<>> => ~ Final(Last(s))
    BY <1>2 DEF Turn
  <2> HIDE DEF f
  <2> QED BY <1>1, <1>3, <1>4, <2>1, <2>2 DEF Opens, Begins
<1>6. Turn(e, Rest(e), s, Kept(f), Owing(f)) /\ Opens(s, f) /\ (Final(f) => Mute(Peer(e)))
  BY <1>2, <1>4, <1>5
<1>7. query \in Message /\ query.kind \in Requests /\ ~ CarriesObject(query) /\ "proxy" \in Asking
  <2>1. "GET_PROXY_DEF" \in Kind /\ Plain \in Load /\ 0 \in Nat /\ Plain \notin Type
    BY RemotePipeAssumption DEF Kind, Load
  <2>2. query \in Message /\ query.kind = "GET_PROXY_DEF" /\ query.load = Plain
    BY <2>1 DEF Msg, Message
  <2> HIDE DEF query
  <2> QED BY <2>1, <2>2 DEF Requests, CarriesObject, Asking
<1> HIDE DEF query
<1>8. Ask(e, Rest(e), query, s, "proxy", m)
  BY DEF GetProxyDef, query
<1> QED BY <1>2, <1>3, <1>6, <1>7, <1>8, AskTurn

\* The wait for which m has come is over; what it was opened for is in hand.
LEMMA AnswerTurn ==
  ASSUME Typed, Regular, NEW e \in End, Waiting(e), net[e] # <<>>,
         Top(e).at # "closing" \/ CarriesObject(First(e)), First(e).kind \in Answers
  PROVE  LET f == Top(e)
             b == Below(stack[e])
         IN  /\ Turn(e, Rest(e), b, Kept(f), Owing(f))
             /\ f.at \in Asking /\ f.n = First(e).of
             /\ Opens(b, f) /\ b \in Seq(Frame) /\ f \in Frame /\ ~ Final(f)
             /\ b # <<>> /\ Last(b).at \in Serving => Kept(f) = {} /\ Owing(f) = {}
             /\ Rest(e) \in [End -> Seq(Message)]
<1> DEFINE m == First(e)
           s == stack[e]
<1>1. /\ Turn(e, Rest(e), s, Carries(m, Answers), Carries(m, Requests))
      /\ Rest(e) \in [End -> Seq(Message)] /\ Top(e) = Last(s)
  BY HeadTurn
<1>2. Carries(m, Answers) = {m.of} /\ Carries(m, Requests) = {}
  BY Kinds DEF Carries
<1>3. s \in Seq(Frame) /\ s # <<>> /\ Last(s).at \notin Serving
  BY <1>1 DEF Typed, Waiting
<1>4. Turn(e, Rest(e), s, {m.of}, {})
  BY <1>1, <1>2
<1> HIDE DEF m, s
<1>5. Last(s).at \in Asking /\ Last(s).n = m.of
  BY <1>3, <1>4, HeadAnswer
<1>6. Turn(e, Rest(e), s, {Last(s).n}, {})
  BY <1>4, <1>5
<1> DEFINE f == Last(s)
           b == Below(s)
<1>7. /\ Turn(e, Rest(e), b, Kept(f), Owing(f))
      /\ Opens(b, f) /\ b \in Seq(Frame) /\ f \in Frame /\ ~ Final(f)
      /\ b # <<>> /\ Last(b).at \in Serving => Kept(f) = {} /\ Owing(f) = {}
  BY <1>3, <1>5, <1>6, TakenTurn
<1> QED BY <1>1, <1>5, <1>7 DEF m, s

\* The innermost wait, or the one below it, is left by an exception.
LEMMA RaisedOrder ==
  ASSUME Typed, Typed', Regular, NEW e \in End, Waiting(e), net[e] # <<>>,
         Top(e).at # "closing" \/ CarriesObject(First(e)),
         NEW how, Raise(e, Answered(e, First(e)), how),
         net' = Rest(e), UNCHANGED asked, ~ spoiled'
  PROVE  Regular'
<1>1. CASE First(e).kind \in Answers
  <2> DEFINE f == Top(e)
             b == Below(stack[e])
  <2>1. /\ Turn(e, Rest(e), b, Kept(f), Owing(f)) /\ f.n = First(e).of /\ b \in Seq(Frame)
        /\ b # <<>> /\ Last(b).at \in Serving => Kept(f) = {} /\ Owing(f) = {}
    BY <1>1, AnswerTurn
  <2>2. Raise(e, b, how)
    BY <1>1, <2>1 DEF Answered
  <2> HIDE DEF f, b
  <2> QED BY <2>1, <2>2, TurnRaise
<1>2. CASE First(e).kind \notin Answers
  <2>1. /\ Turn(e, Rest(e), stack[e], Carries(First(e), Answers), Carries(First(e), Requests))
        /\ Top(e) = Last(stack[e])
    BY HeadTurn
  <2>2. stack[e] \in Seq(Frame) /\ Last(stack[e]).at \notin Serving
    BY <2>1 DEF Typed, Waiting
  <2>3. Raise(e, stack[e], how)
    BY <1>2 DEF Answered
  <2> QED BY <2>1, <2>2, <2>3, TurnRaise
<1> QED BY <1>1, <1>2

LEMMA LoadFailsOrder ==
  ASSUME Typed, Typed', Regular, NEW e \in End, LoadFails(e), ~ spoiled'
  PROVE  Regular'
  BY RaisedOrder DEF LoadFails, Unloadable

LEMMA LastReceivedOrder ==
  ASSUME Typed, Typed', Regular, NEW e \in End, LastReceived(e)
  PROVE  Regular'
<1> DEFINE p == Peer(e)
<1>1. End = {e, p} /\ p # e /\ Peer(p) = e
  BY TwoEnds
<1>2. Waiting(e) /\ net[e] # <<>> /\ net' = Rest(e) /\ UNCHANGED asked
  BY DEF LastReceived, Received
<1>3. open[p] => net[p] = <<>> /\ Fit(p)
  BY <1>1, <1>2 DEF Regular, Single, Busy, Waiting
<1>4. net'[p] = net[p]
  BY <1>1, <1>2 DEF Rest, Typed
<1>5. ~ open'[e] /\ open'[p] = open[p] /\ stack'[p] = stack[p]
  BY ShutDown DEF LastReceived
<1> QED BY <1>1, <1>2, <1>3, <1>4, <1>5, Closed DEF Fit

\* What has come to the loop of _recv.
LEMMA Arriving ==
  ASSUME Typed, Regular, NEW e \in End, NEW kinds, Arrives(e, kinds)
  PROVE  /\ Turn(e, Rest(e), stack[e], Carries(First(e), Answers), Carries(First(e), Requests))
         /\ First(e) \in Message /\ First(e).kind \in kinds
         /\ First(e).kind = "CLOSE" => Mute(Peer(e))
         /\ First(e).kind = "PICKLE_VERSION" =>
              Len(stack[e]) = 1 /\ Last(stack[e]).at = "receive" /\ Last(stack[e]).n = 0
         /\ Rest(e) \in [End -> Seq(Message)] /\ Top(e) = Last(stack[e])
         /\ stack[e] \in Seq(Frame) /\ stack[e] # <<>> /\ Last(stack[e]).at \notin Serving
         /\ Waiting(e) /\ net[e] # <<>> /\ Top(e).at # "closing"
<1>1. Waiting(e) /\ net[e] # <<>> /\ Top(e).at # "closing" /\ First(e).kind \in kinds
  BY DEF Arrives, Received
<1>2. /\ Turn(e, Rest(e), stack[e], Carries(First(e), Answers), Carries(First(e), Requests))
      /\ First(e) \in Message
      /\ First(e).kind = "CLOSE" => Mute(Peer(e))
      /\ First(e).kind = "PICKLE_VERSION" =>
           Len(stack[e]) = 1 /\ Last(stack[e]).at = "receive" /\ Last(stack[e]).n = 0
      /\ Rest(e) \in [End -> Seq(Message)] /\ Top(e) = Last(stack[e])
  BY <1>1, HeadTurn
<1> QED BY <1>1, <1>2 DEF Typed, Waiting

LEMMA ServeCallOrder ==
  ASSUME Typed, Typed', Regular, NEW e \in End, ServeCall(e)
  PROVE  Regular'
<1> DEFINE s == stack[e]
           x == First(e).of
           f == Wait("call", x)
           after == Append(s, f)
<1>1. /\ Turn(e, Rest(e), s, Carries(First(e), Answers), Carries(First(e), Requests))
      /\ First(e).kind = "CALL" /\ First(e) \in Message
      /\ s \in Seq(Frame) /\ s # <<>> /\ Last(s).at \notin Serving
  BY Arriving DEF ServeCall
<1>2. Turn(e, Rest(e), s, {}, {x}) /\ x \in Nat
  BY <1>1 DEF Carries, Answers, Requests, Message
<1>3. /\ net' = Rest(e) /\ stack' = [stack EXCEPT ![e] = after] /\ open' = open /\ asked' = asked
  BY DEF ServeCall
<1>4. /\ f \in Frame /\ f.at = "call" /\ f.n = x /\ OnWait(f) /\ ~ Settles(f) /\ f.at \notin Asking
      /\ Owes(f) /\ Debt(f) = x /\ ~ Final(f)
  BY <1>2, WaitType DEF Wait, On, OnWait, Serving, Settles, Asking, Owes, Debt, Final
<1> HIDE DEF f, s, x
<1>5. Opens(s, f) /\ Formed(s) /\ Limited(s, asked[e])
  BY <1>1, <1>2, <1>4 DEF Opens, Begins, Turn
<1>6. Grows(s, f)
  <2>1. ASSUME NEW i \in 1 .. Len(s) PROVE Rises(s[i], f)
    <3>1. Owes(s[i]) => Debt(s[i]) \in Debts(s)
      BY DEF Debts
    <3> QED BY <1>2, <1>4, <3>1 DEF Rises, Turn
  <2> QED BY <1>5, <2>1 DEF Grows
<1>7. /\ after \in Seq(Frame) /\ after # <<>> /\ Last(after) = f
      /\ \A i \in 1 .. Len(s) : after[i] = s[i]
      /\ after[Len(s) + 1] = f /\ 1 .. Len(after) = (1 .. Len(s)) \cup {Len(s) + 1}
  BY <1>1, <1>4, Pushed
<1>8. Formed(after)
  BY <1>1, <1>4, <1>5, <1>6, FormedPush
<1>9. Asks(after) = Asks(s) /\ Debts(after) = Debts(s) \cup {x}
  BY <1>1, <1>4, <1>8, AsksPush, DebtsPush
<1>10. Limited(after, asked'[e])
  BY <1>3, <1>4, <1>5, <1>7 DEF Limited
<1>11. /\ Pairing(Asks(after), {}, Owed(e))
       /\ open[Peer(e)] => Pairing(Asks(stack[Peer(e)]), {}, Debts(after))
  BY <1>2, <1>9 DEF Turn, Pairing
<1> HIDE DEF after
<1> QED BY <1>2, <1>3, <1>4, <1>7, <1>8, <1>10, <1>11, Resumed

LEMMA ServeDudOrder ==
  ASSUME Typed, Typed', Regular, NEW e \in End, ServeDud(e), ~ spoiled'
  PROVE  Regular'
<1>1. ~ open[Peer(e)] /\ Raise(e, stack[e], "shutdown") /\ asked' = asked
  BY DEF ServeDud
<1>2. ~ open'[e] /\ open'[Peer(e)] = open[Peer(e)] /\ stack'[Peer(e)] = stack[Peer(e)]
  BY <1>1, ShutDown
<1> QED BY <1>1, <1>2, Closed

LEMMA ServeExposedOrder ==
  ASSUME Typed, Typed', Marked, PipeInv, Regular, NEW e \in End, ServeExposed(e), ~ spoiled'
  PROVE  Regular'
<1> DEFINE m == [exposed[e] EXCEPT !.of = First(e).of]
<1>1. /\ Turn(e, Rest(e), stack[e], Carries(First(e), Answers), Carries(First(e), Requests))
      /\ First(e).kind = "GET_EXPOSED" /\ First(e) \in Message
      /\ stack[e] \in Seq(Frame) /\ stack[e] # <<>> /\ Last(stack[e]).at \notin Serving
      /\ Rest(e) \in [End -> Seq(Message)]
  BY Arriving DEF ServeExposed
<1>2. /\ m \in Message /\ m.of = First(e).of
      /\ m.kind \in {"GET_EXPOSED_RESULT", "GET_EXPOSED_ERROR"}
  BY <1>1 DEF Marked, PipeInv, Exposures, Message
<1>3. Turn(e, Rest(e), stack[e], {}, Carries(m, Answers)) /\ m.kind \in Answers
  BY <1>1, <1>2 DEF Carries, Answers, Requests
<1> HIDE DEF m
<1>4. SendKnowing(e, Rest(e), m, stack[e], verified[e], remote[e])
  BY DEF ServeExposed, Send, m
<1>5. m.kind \notin {"CALL", "GET_EXPOSED", "CLOSE"}
  BY <1>2
<1> QED BY <1>1, <1>2, <1>3, <1>4, <1>5, SendTurn

LEMMA ServeProxyDefOrder ==
  ASSUME Typed, Typed', Regular, NEW e \in End, ServeProxyDef(e), ~ spoiled'
  PROVE  Regular'
<1> DEFINE m == Msg("GET_PROXY_DEF_RESULT", ProxyDef, First(e).of)
<1>1. /\ Turn(e, Rest(e), stack[e], Carries(First(e), Answers), Carries(First(e), Requests))
      /\ First(e).kind = "GET_PROXY_DEF" /\ First(e) \in Message
      /\ stack[e] \in Seq(Frame) /\ stack[e] # <<>> /\ Last(stack[e]).at \notin Serving
      /\ Rest(e) \in [End -> Seq(Message)]
  BY Arriving DEF ServeProxyDef
<1>2. m \in Message /\ m.of = First(e).of /\ m.kind = "GET_PROXY_DEF_RESULT"
  <2>1. "GET_PROXY_DEF_RESULT" \in Kind /\ ProxyDef \in Load /\ First(e).of \in Nat
    BY <1>1, PlainSendable DEF Kind, Message
  <2> QED BY <2>1 DEF Msg, Message
<1>3. Turn(e, Rest(e), stack[e], {}, Carries(m, Answers)) /\ m.kind \in Answers
  BY <1>1, <1>2 DEF Carries, Answers, Requests
<1> HIDE DEF m
<1>4. SendKnowing(e, Rest(e), m, stack[e], verified[e], remote[e])
  BY DEF ServeProxyDef, Send, m
<1>5. m.kind \notin {"CALL", "GET_EXPOSED", "CLOSE"}
  BY <1>2
<1> QED BY <1>1, <1>2, <1>3, <1>4, <1>5, SendTurn

LEMMA ServeVerifyTypesOrder ==
  ASSUME Typed, Typed', PipeInv, Regular, NEW e \in End, ServeVerifyTypes(e)
  PROVE  Regular'
<1>1. /\ Turn(e, Rest(e), stack[e], Carries(First(e), Answers), Carries(First(e), Requests))
      /\ First(e).kind = "VERIFY_TYPES"
      /\ stack[e] \in Seq(Frame) /\ stack[e] # <<>> /\ Last(stack[e]).at \notin Serving
      /\ Rest(e) \in [End -> Seq(Message)]
  BY Arriving DEF ServeVerifyTypes
<1>2. PICK m \in To(Peer(e)) :
        /\ m.kind = "VERIFY_TYPES_RESULT" /\ m.of = First(e).of
        /\ Write(e, Rest(e), m, stack[e], stack[e])
  BY VerdictGood
<1>3. /\ Carries(First(e), Answers) = {} /\ Carries(First(e), Requests) = {m.of}
      /\ Carries(m, Answers) = {m.of} /\ Carries(m, Requests) = {} /\ m \in Message
  BY <1>1, <1>2 DEF Carries, Answers, Requests, To
<1>4. Turn(e, Rest(e), stack[e], {}, {m.of}) /\ asked' = asked
  BY <1>1, <1>3 DEF ServeVerifyTypes
<1>5. /\ Formed(stack[e]) /\ Limited(stack[e], asked'[e]) /\ ~ Final(Last(stack[e]))
      /\ Pairing(Asks(stack[e]), {}, Owed(e))
      /\ open[Peer(e)] => Pairing(Asks(stack[Peer(e)]), {m.of}, Debts(stack[e]))
  BY <1>1, <1>4 DEF Turn
<1> QED BY <1>1, <1>2, <1>3, <1>4, <1>5, WriteTurn

\* Messages are taken by the waits they answer, and the order is kept.
LEMMA TakeValueOrder ==
  ASSUME Typed, Typed', PipeInv, Marked, Regular, NEW e \in End, NEW kinds, Arrives(e, kinds),
         kinds \subseteq Answers \cup {"PICKLE_VERSION"},
         NEW v, NEW r, TakeValue(e, v, r), ~ spoiled'
  PROVE  Regular'
<1> DEFINE m == First(e)
           s == stack[e]
           f == Top(e)
           b == Below(s)
<1>1. /\ Turn(e, Rest(e), s, Carries(m, Answers), Carries(m, Requests))
      /\ m \in Message /\ m.kind \in kinds
      /\ m.kind = "PICKLE_VERSION" => Len(s) = 1 /\ Last(s).at = "receive" /\ Last(s).n = 0
      /\ Rest(e) \in [End -> Seq(Message)] /\ f = Last(s)
      /\ s \in Seq(Frame) /\ s # <<>>
      /\ Waiting(e) /\ net[e] # <<>> /\ f.at # "closing"
  BY Arriving
<1>2. CASE m.kind = "PICKLE_VERSION"
  <2>1. Len(s) = 1 /\ f.at = "receive" /\ f.n = 0
    BY <1>1, <1>2
  <2>4. /\ net' = Rest(e) /\ stack' = [stack EXCEPT ![e] = b] /\ UNCHANGED <<open, asked>>
    BY <2>1 DEF TakeValue
  <2>5. b = <<>> /\ Asks(s) = {} /\ Debts(s) = {}
    <3>1. Len(b) = 0 /\ b \in Seq(Frame)
      BY <1>1, <2>1, BelowType
    <3> QED BY <1>1, <2>1, <3>1, EmptySeq, Alone
  <2>6. Turn(e, Rest(e), s, {}, {})
    BY <1>1, <1>2, Kinds DEF Carries
  <2>7. /\ b \in Seq(Frame) /\ Formed(b) /\ Limited(b, asked'[e])
        /\ Pairing(Asks(b), {}, Owed(e))
        /\ open[Peer(e)] => Pairing(Asks(stack[Peer(e)]), {}, Debts(b))
    <3>1. Asks(<<>>) = {} /\ Debts(<<>>) = {} /\ Formed(<<>>) /\ Limited(<<>>, asked'[e])
          /\ <<>> \in Seq(Frame)
      BY EmptyStack
    <3> HIDE DEF b, s
    <3> QED BY <2>5, <2>6, <3>1 DEF Turn
  <2>8. asked'[Peer(e)] = asked[Peer(e)]
    BY <2>4
  <2> HIDE DEF b, s
  <2> QED BY <2>4, <2>5, <2>6, <2>7, <2>8, Resumed
<1>3. CASE m.kind \in Answers
  <2>1. /\ Turn(e, Rest(e), b, Kept(f), Owing(f))
        /\ f.at \in Asking /\ f.n = m.of
        /\ Opens(b, f) /\ b \in Seq(Frame) /\ f \in Frame /\ ~ Final(f)
        /\ b # <<>> /\ Last(b).at \in Serving => Kept(f) = {} /\ Owing(f) = {}
    BY <1>1, <1>3, AnswerTurn
  <2>3. CASE /\ f.at \in {"answer", "receive"}
             /\ net' = Rest(e) /\ stack' = [stack EXCEPT ![e] = b]
             /\ UNCHANGED <<open, asked>>
    <3>1. Kept(f) = {} /\ Owing(f) = {}
      BY <2>1, <2>3 DEF Kept, Owing, Settles, Owes, Serving
    <3>2. /\ Formed(b) /\ Limited(b, asked'[e]) /\ (b # <<>> => ~ Final(Last(b)))
          /\ Pairing(Asks(b), {}, Owed(e))
          /\ open[Peer(e)] => Pairing(Asks(stack[Peer(e)]), {}, Debts(b))
      BY <2>1, <2>3, <3>1 DEF Turn
    <3>3. asked'[Peer(e)] = asked[Peer(e)]
      BY <2>3
    <3> HIDE DEF b, f, s
    <3> QED BY <2>1, <2>3, <3>2, <3>3, Resumed
  <2>4. CASE f.at = "verify" /\ SendKnowing(e, Rest(e), f.msg, b, v, r)
    <3>1. Kept(f) = {} /\ Owing(f) = Carries(f.msg, Answers)
      BY <2>4 DEF Kept, Owing, Settles, Owes, Debt, Serving, Carries
    <3>2. /\ f.msg.kind \in Answers \cup {"CALL", "GET_EXPOSED", "CLOSE"}
          /\ f.msg.kind \in Answers => b # <<>> /\ Last(b).at \notin Serving
          /\ f.msg.kind \in {"CALL", "GET_EXPOSED"} => b = <<>> \/ Last(b).at \in Serving
          /\ f.msg.kind = "CLOSE" => Len(b) = 1 /\ Last(b).at = "closing"
      BY <2>1, <2>4 DEF Opens, OnWait, Begins, Answers
    <3>3. f.msg \in Message
      BY <2>1 DEF Frame
    <3>4. Turn(e, Rest(e), b, {}, Carries(f.msg, Answers))
      BY <2>1, <3>1
    <3> HIDE DEF b, f, s
    <3> QED BY <1>1, <2>1, <2>4, <3>2, <3>3, <3>4, SendTurn
  <2>5. CASE /\ f.at = "proxy" /\ net' = [net EXCEPT ![e] = <<f.msg>> \o Tail(@)]
             /\ stack' = [stack EXCEPT ![e] = b] /\ UNCHANGED <<open, asked>>
    <3>1. /\ Kept(f) = Carries(f.msg, Answers) /\ Owing(f) = Carries(f.msg, Requests)
          /\ f.msg.kind # "CLOSE" /\ b # <<>> /\ Last(b).at \notin Serving
      BY <2>1, <2>5 DEF Kept, Owing, Settles, Owes, Debt, Serving, Carries, Final, OnWait, Opens
    <3>2. f.msg \in Message
      BY <2>1 DEF Frame
    <3>3. f.msg.kind # "PICKLE_VERSION"
      <4>1. f \in On(e)
        BY <1>1, Taking
      <4>2. f \in Marks(e)
        <5>1. s \in Seq(Marks(e)) /\ Len(s) \in 1 .. Len(s)
          BY <1>1, EmptySeq, LenProperties DEF Marked
        <5>2. s[Len(s)] \in Marks(e)
          BY <5>1, ElementOfSeq
        <5> QED BY <1>1, <5>2 DEF Last
      <4> QED BY <2>5, <4>1, <4>2, RemotePipeAssumption DEF On, GoodFrame, CarriesObject, Marks, Bids
    <3>4. net' = [Rest(e) EXCEPT ![e] = <<f.msg>>]
      <4>1. Rest(e)[e] = <<>> /\ Tail(net[e]) = <<>>
        BY <1>1 DEF Turn, Rest, Typed
      <4>2. <<f.msg>> \o <<>> = <<f.msg>>
        OBVIOUS
      <4> QED BY <2>5, <4>1, <4>2 DEF Rest, Typed
    <3>5. Turn(e, Rest(e), b, Carries(f.msg, Answers), Carries(f.msg, Requests))
      BY <2>1, <3>1
    <3> HIDE DEF b, f, s
    <3> QED BY <1>1, <2>1, <2>5, <3>1, <3>2, <3>3, <3>4, <3>5, PutBack
  <2>6. CASE net' = Rest(e) /\ Raise(e, b, "error") /\ UNCHANGED asked
    <3> HIDE DEF b, f, s
    <3> QED BY <2>1, <2>6, TurnRaise
  <2>7. \/ /\ f.at \in {"answer", "receive"}
           /\ net' = Rest(e) /\ stack' = [stack EXCEPT ![e] = b]
           /\ UNCHANGED <<open, asked>>
        \/ f.at = "verify" /\ SendKnowing(e, Rest(e), f.msg, b, v, r)
        \/ /\ f.at = "proxy" /\ net' = [net EXCEPT ![e] = <<f.msg>> \o Tail(@)]
           /\ stack' = [stack EXCEPT ![e] = b] /\ UNCHANGED <<open, asked>>
        \/ net' = Rest(e) /\ Raise(e, b, "error") /\ UNCHANGED asked
    BY DEF TakeValue
  <2> QED BY <2>3, <2>4, <2>5, <2>6, <2>7
<1> QED BY <1>1, <1>2, <1>3

LEMMA TakeAnswerOrder ==
  ASSUME Typed, Typed', PipeInv, Marked, Regular, NEW e \in End, ~ spoiled',
         TakeAnswer(e) \/ TakeVerifyTypesResult(e)
  PROVE  Regular'
<1>1. CASE TakeAnswer(e)
  <2>1. {"RETURN", "GET_EXPOSED_RESULT", "GET_PROXY_DEF_RESULT", "PICKLE_VERSION"}
          \subseteq Answers \cup {"PICKLE_VERSION"}
    BY DEF Answers
  <2> QED BY <1>1, <2>1, TakeValueOrder DEF TakeAnswer
<1>2. CASE TakeVerifyTypesResult(e)
  <2>1. Arrives(e, {"VERIFY_TYPES_RESULT"})
        /\ {"VERIFY_TYPES_RESULT"} \subseteq Answers \cup {"PICKLE_VERSION"}
    BY <1>2 DEF Answers, TakeVerifyTypesResult
  <2>2. CASE \E v, r : TakeValue(e, v, r)
    BY <2>1, <2>2, TakeValueOrder
  <2>3. CASE net' = Rest(e) /\ Raise(e, Below(stack[e]), "error") /\ UNCHANGED asked
    <3>1. /\ Waiting(e) /\ net[e] # <<>> /\ Top(e).at # "closing" /\ First(e).kind \in Answers
      BY <2>1, Arriving DEF Answers
    <3>2. First(e).of = Top(e).n
      BY <3>1, AnswerTurn
    <3>3. Raise(e, Answered(e, First(e)), "error")
      BY <2>3, <3>1, <3>2 DEF Answered
    <3> QED BY <2>3, <3>1, <3>3, RaisedOrder
  <2>4. \/ \E v, r : TakeValue(e, v, r)
        \/ net' = Rest(e) /\ Raise(e, Below(stack[e]), "error") /\ UNCHANGED asked
    BY <1>2 DEF TakeVerifyTypesResult
  <2> QED BY <2>2, <2>3, <2>4
<1> QED BY <1>1, <1>2

LEMMA TakeErrorOrder ==
  ASSUME Typed, Typed', PipeInv, Regular, NEW e \in End, ~ spoiled', TakeError(e)
  PROVE  Regular'
<1>1. /\ Waiting(e) /\ net[e] # <<>> /\ Top(e).at # "closing"
      /\ First(e).kind \in {"EXCEPTION", "REMOTE_ERROR", "GET_EXPOSED_ERROR", "CLOSE_CLOSED"}
  BY Arriving DEF TakeError
<1> QED BY <1>1, RaisedOrder DEF TakeError

LEMMA TakeCloseOrder ==
  ASSUME Typed, Typed', Regular, NEW e \in End, TakeClose(e)
  PROVE  Regular'
<1> DEFINE s == stack[e]
           f == Wait("drain", 0)
           after == Append(s, f)
           m == Msg("CLOSE_CLOSED", Plain, 0)
<1>1. /\ Turn(e, Rest(e), s, Carries(First(e), Answers), Carries(First(e), Requests))
      /\ First(e).kind = "CLOSE" /\ Mute(Peer(e)) /\ Rest(e) \in [End -> Seq(Message)]
      /\ s \in Seq(Frame) /\ s # <<>> /\ Last(s).at \notin Serving
  BY Arriving DEF TakeClose
<1>2. Turn(e, Rest(e), s, {}, {})
  BY <1>1, Kinds DEF Carries
<1>3. asked' = asked /\ Peer(e) \in End
  BY TwoEnds DEF TakeClose
<1>4. CASE ~ open[Peer(e)]
  <2>1. net' = Rest(e) /\ Raise(e, s, "shutdown")
    BY <1>4 DEF TakeClose
  <2> HIDE DEF s
  <2> QED BY <1>2, <1>3, <2>1, TurnShut
<1>5. CASE open[Peer(e)]
  <2>1. /\ net' = [Rest(e) EXCEPT ![Peer(e)] = Append(@, m)]
        /\ stack' = [stack EXCEPT ![e] = after] /\ open' = open
    BY <1>5 DEF TakeClose
  <2>2. /\ f \in Frame /\ f.at = "drain" /\ ~ OnWait(f) /\ ~ Settles(f) /\ f.at \notin Asking
        /\ ~ Owes(f) /\ f.at \notin Serving
    BY WaitType DEF Wait, On, OnWait, Serving, Settles, Asking, Owes
  <2>3. m \in Message /\ m.kind = "CLOSE_CLOSED" /\ m.load = Plain
    <3>1. "CLOSE_CLOSED" \in Kind /\ Plain \in Load /\ 0 \in Nat
      BY DEF Kind, Load
    <3> QED BY <3>1 DEF Msg, Message
  <2> HIDE DEF f, s, m
  <2>4. Grows(s, f)
    <3>1. \A i \in 1 .. Len(s) : Rises(s[i], f)
      BY <2>2 DEF Rises
    <3> QED BY <1>1, <1>2, <2>2, <3>1 DEF Grows, Opens, Begins, Turn
  <2>5. /\ after \in Seq(Frame) /\ after # <<>> /\ Last(after) = f
        /\ \A i \in 1 .. Len(s) : after[i] = s[i]
        /\ after[Len(s) + 1] = f /\ 1 .. Len(after) = (1 .. Len(s)) \cup {Len(s) + 1}
    BY <1>1, <2>2, Pushed
  <2>6. Formed(after)
    BY <1>1, <1>2, <2>2, <2>4, FormedPush DEF Turn
  <2>7. Asks(after) = Asks(s) /\ Debts(after) = Debts(s)
    BY <1>1, <2>2, <2>6, AsksPush, DebtsPush
  <2>8. Limited(after, asked'[e])
    BY <1>2, <1>3, <2>2, <2>5 DEF Limited, Turn
  <2>9. Carries(m, Requests) = {} /\ Carries(m, Answers) = {} /\ ~ CarriesObject(m)
        /\ m.kind # "CLOSE" /\ m.kind # "PICKLE_VERSION"
    BY <2>3, Kinds, RemotePipeAssumption DEF Carries, CarriesObject
  <2>10. /\ Pairing(Asks(after), {}, Owed(e))
         /\ Pairing(Asks(stack[Peer(e)]), {}, Debts(after))
    BY <1>2, <1>5, <2>7 DEF Turn
  <2>11. asked'[Peer(e)] = asked[Peer(e)]
    BY <1>3
  <2> HIDE DEF after
  <2> QED
    BY <1>1, <1>2, <1>5, <2>1, <2>2, <2>3, <2>5, <2>6, <2>8, <2>9, <2>10, <2>11, Posted
<1> QED BY <1>4, <1>5

LEMMA PipeStepOrder ==
  ASSUME PipeInv, PipeInv', Marked, Regular, NEW e \in End, PipeStep(e), ~ spoiled'
  PROVE  Regular'
<1>1. Typed /\ Typed'
  BY Types DEF PipeInv, Moving, Nets, Stacks, Typed
<1>2. CASE TakeAnswer(e) \/ TakeVerifyTypesResult(e)
  BY <1>1, <1>2, TakeAnswerOrder
<1>3. CASE TakeError(e)
  BY <1>1, <1>3, TakeErrorOrder
<1>4. CASE \/ EndOfFile(e) \/ GetProxyDef(e) \/ LoadFails(e) \/ LastReceived(e) \/ ServeCall(e)
           \/ ServeExposed(e) \/ ServeProxyDef(e) \/ ServeVerifyTypes(e) \/ TakeClose(e)
  BY <1>1, <1>4, EndOfFileOrder, GetProxyDefOrder, LoadFailsOrder, LastReceivedOrder,
     ServeCallOrder, ServeExposedOrder, ServeProxyDefOrder, ServeVerifyTypesOrder, TakeCloseOrder
<1> QED BY <1>2, <1>3, <1>4 DEF PipeStep

----------------------------------------------------------------------------
(* Steps of the programs, and faults *)

\* What a closed end does with its pipe reaches nobody.
LEMMA ClosedSend ==
  ASSUME Typed, Typed', Regular, NEW e \in End, ~ open[e], NEW m, NEW s, NEW v, NEW r,
         SendKnowing(e, net, m, s, v, r)
  PROVE  Regular'
<1>1. net' = net /\ Raise(e, s, "error") /\ asked' = asked
  BY DEF SendKnowing
<1>2. ~ open'[e] /\ open'[Peer(e)] = open[Peer(e)] /\ stack'[Peer(e)] = stack[Peer(e)]
  BY <1>1, TwoEnds DEF Raise, Unwind, Typed
<1> QED BY <1>1, <1>2, Deserted

LEMMA ProgramMessage ==
  ASSUME NEW kind \in Kind, NEW load \in Load, NEW n \in Nat
  PROVE  LET m == Msg(kind, load, n)
         IN  m \in Message /\ m.kind = kind /\ m.of = n /\ m.load = load
  BY DEF Msg, Message

\* A call, and a function that returns or raises.
LEMMA AppStepOrder ==
  ASSUME Inv, Inv', Regular, NEW e \in End, AppStep(e), ~ spoiled'
  PROVE  Regular'
<1>1. Typed /\ Typed' /\ PipeInv
  BY Types DEF PipeInv, Moving, Nets, Stacks, Typed, Inv
<1>3. CASE CallOther(e)
  <2>1. PICK load \in Values[e] : Send(e, net, Msg("CALL", load, 0), stack[e])
    BY <1>3 DEF CallOther, Call
  <2> DEFINE m == Msg("CALL", load, 0)
  <2>2. m \in Message /\ m.kind = "CALL"
    <3>1. "CALL" \in Kind /\ load \in Load /\ 0 \in Nat
      BY <1>1, Sent DEF Kind
    <3> QED BY <3>1, ProgramMessage
  <2> HIDE DEF m
  <2>3. SendKnowing(e, net, m, stack[e], verified[e], remote[e])
    BY <2>1 DEF Send, m
  <2>4. CASE open[e]
    <3>1. Runs(e)
      BY <1>3, <2>4 DEF CallOther, Running, InCall, At, InProgram, Runs, Serving, Top, Last
    <3>2. Turn(e, net, stack[e], {}, {}) /\ Carries(m, Answers) = {} /\ m.kind \notin Answers
      BY <1>1, <2>2, <3>1, RunsTurn DEF Carries, Answers
    <3>3. net \in [End -> Seq(Message)] /\ stack[e] \in Seq(Frame)
      BY <1>1 DEF Typed
    <3>4. /\ m.kind \in Answers \cup {"CALL", "GET_EXPOSED", "CLOSE"}
          /\ m.kind \in Answers => stack[e] # <<>> /\ Last(stack[e]).at \notin Serving
          /\ m.kind = "CLOSE" => Len(stack[e]) = 1 /\ Last(stack[e]).at = "closing"
      BY <2>2, <3>2
    <3>5. Turn(e, net, stack[e], {}, Carries(m, Answers))
      BY <3>2
    <3>6. m.kind \in {"CALL", "GET_EXPOSED"} =>
            stack[e] = <<>> \/ Last(stack[e]).at \in Serving
      BY <3>1 DEF Runs
    <3> QED BY <1>1, <2>2, <2>3, <3>3, <3>4, <3>5, <3>6, SendTurn
  <2> QED BY <1>1, <2>3, <2>4, ClosedSend
<1>4. CASE Return(e) \/ RaiseException(e)
  <2>1. PICK kind \in {"RETURN", "EXCEPTION"}, load \in Values[e] \cup Exceptions[e] :
          Send(e, net, Msg(kind, load, Top(e).n), Below(stack[e]))
    BY <1>4 DEF Return, RaiseException, Answer
  <2>2. stack[e] # <<>> /\ Top(e).at \in Serving /\ Top(e) = Last(stack[e])
        /\ stack[e] \in Seq(Frame)
    BY <1>1, <1>4 DEF Return, RaiseException, InCall, CallOfNone, Serving, Top, Last, Typed
  <2> DEFINE m == Msg(kind, load, Top(e).n)
  <2>3. m \in Message /\ m.kind = kind /\ m.of = Last(stack[e]).n
    <3>1. kind \in Kind /\ load \in Load
      BY <1>1, Sent DEF Kind
    <3>2. Top(e).n \in Nat
      BY <2>2, Split DEF Frame
    <3> QED BY <2>2, <3>1, <3>2, ProgramMessage
  <2> HIDE DEF m
  <2>4. SendKnowing(e, net, m, Below(stack[e]), verified[e], remote[e])
    BY <2>1 DEF Send, m
  <2>5. CASE open[e]
    <3>1. Runs(e)
      BY <2>2, <2>5 DEF Runs
    <3>2. Turn(e, net, stack[e], {}, {})
      BY <1>1, <3>1, RunsTurn
    <3>3. /\ Turn(e, net, Below(stack[e]), {}, {m.of})
          /\ Below(stack[e]) \in Seq(Frame) /\ Below(stack[e]) # <<>>
          /\ Last(Below(stack[e])).at \notin Serving
      BY <2>2, <2>3, <3>2, <1>1, ReturnTurn
    <3>4. m.kind \in Answers /\ m.kind \notin {"CALL", "GET_EXPOSED", "CLOSE"} /\ Carries(m, Answers) = {m.of}
          /\ net \in [End -> Seq(Message)]
      BY <1>1, <2>3 DEF Answers, Carries, Typed
    <3>5. /\ Turn(e, net, Below(stack[e]), {}, Carries(m, Answers))
          /\ m.kind \in Answers \cup {"CALL", "GET_EXPOSED", "CLOSE"}
      BY <3>3, <3>4
    <3> QED BY <1>1, <2>3, <2>4, <3>3, <3>4, <3>5, SendTurn
  <2> QED BY <1>1, <2>4, <2>5, ClosedSend
<1> QED BY <1>3, <1>4 DEF AppStep

\* close(), on an open connection.
LEMMA CloseOrder ==
  ASSUME Typed, Typed', Regular, NEW e \in End, InProgram(e), open[e], NEW exc \in Load,
         Close(e, exc), ~ spoiled'
  PROVE  Regular'
<1> DEFINE m == Msg("CLOSE", exc, 0)
           s == <<Wait("closing", 0)>>
<1>1. m \in Message /\ m.kind = "CLOSE"
  <2>1. "CLOSE" \in Kind /\ 0 \in Nat
    BY DEF Kind
  <2> QED BY <2>1, ProgramMessage
<1>2. s \in Seq(Frame) /\ Len(s) = 1 /\ Last(s).at = "closing"
  <2>1. Wait("closing", 0) \in Frame /\ Wait("closing", 0).at = "closing"
    BY WaitType DEF On, Wait
  <2> QED BY <2>1 DEF Last
<1>3. SendKnowing(e, net, m, s, verified[e], remote[e])
  BY DEF Close, Send
<1> HIDE DEF m, s
<1>4. Turn(e, net, stack[e], {}, {}) /\ stack[e] = <<>>
  BY RunsTurn DEF InProgram, Runs
<1>5. Asks(s) = {} /\ Debts(s) = {} /\ Formed(s) /\ Limited(s, asked[e])
  BY <1>2, Alone
<1>6. ~ Final(Last(s))
  BY <1>2 DEF Final
<1>7. Turn(e, net, s, {}, {})
  BY <1>4, <1>5, <1>6, EmptyStack DEF Turn
<1>8. Carries(m, Answers) = {} /\ m.kind \notin Answers \cup {"CALL", "GET_EXPOSED"}
  BY <1>1, Kinds DEF Carries
<1>9. Turn(e, net, s, {}, Carries(m, Answers)) /\ net \in [End -> Seq(Message)]
      /\ m.kind \in Answers \cup {"CALL", "GET_EXPOSED", "CLOSE"}
  BY <1>1, <1>7, <1>8 DEF Typed
<1> QED BY <1>1, <1>2, <1>3, <1>8, <1>9, SendTurn

LEMMA GetExposedOrder ==
  ASSUME Typed, Typed', Regular, GetExposed, ~ spoiled'
  PROVE  Regular'
<1> DEFINE m == Msg("GET_EXPOSED", Plain, 0)
           e == "parent"
<1>1. m \in Message /\ m.kind = "GET_EXPOSED"
  <2>1. "GET_EXPOSED" \in Kind /\ 0 \in Nat /\ Plain \in Load
    BY DEF Kind, Load
  <2> QED BY <2>1, ProgramMessage
<1>2. SendKnowing(e, net, m, <<>>, verified[e], remote[e]) /\ stack[e] = <<>> /\ e \in End
  BY DEF GetExposed, At, InProgram, End
<1> HIDE DEF m, e
<1>3. CASE open[e]
  <2>1. Turn(e, net, <<>>, {}, {})
    BY <1>2, <1>3, RunsTurn DEF Runs
  <2>2. Carries(m, Answers) = {} /\ m.kind \notin Answers /\ m.kind # "CLOSE"
    BY <1>1 DEF Carries, Answers
  <2>3. Turn(e, net, <<>>, {}, Carries(m, Answers)) /\ net \in [End -> Seq(Message)]
        /\ m.kind \in Answers \cup {"CALL", "GET_EXPOSED", "CLOSE"} /\ <<>> \in Seq(Frame)
    BY <1>1, <2>1, <2>2, EmptyStack DEF Typed
  <2> QED BY <1>1, <1>2, <2>2, <2>3, SendTurn
<1> QED BY <1>2, <1>3, ClosedSend

LEMMA ListenOrder ==
  ASSUME Typed, Typed', Regular, NEW e \in End, InProgram(e), Receive(e)
  PROVE  Regular'
<1> DEFINE s == <<Wait("receive", 0)>>
<1>1. s \in Seq(Frame) /\ Len(s) = 1 /\ Last(s).at = "receive"
  <2>1. Wait("receive", 0) \in Frame /\ Wait("receive", 0).at = "receive"
    BY WaitType DEF On, Wait
  <2> QED BY <2>1 DEF Last
<1>2. /\ net' = net /\ stack' = [stack EXCEPT ![e] = s] /\ open' = open /\ asked' = asked
      /\ Peer(e) \in End /\ Peer(e) # e
  BY TwoEnds DEF Receive
<1> HIDE DEF s
<1>3. CASE open[e]
  <2>1. Turn(e, net, stack[e], {}, {}) /\ stack[e] = <<>>
    BY <1>3, RunsTurn DEF InProgram, Runs
  <2>2. Asks(s) = {} /\ Debts(s) = {} /\ Formed(s) /\ Limited(s, asked'[e]) /\ ~ Final(Last(s))
    BY <1>1, Alone DEF Final
  <2>3. /\ Pairing(Asks(s), {}, Owed(e))
        /\ open[Peer(e)] => Pairing(Asks(stack[Peer(e)]), {}, Debts(s))
        /\ asked'[Peer(e)] = asked[Peer(e)]
    BY <1>2, <2>1, <2>2, EmptyStack DEF Turn
  <2> QED BY <1>1, <1>2, <2>1, <2>2, <2>3, Resumed
<1>4. CASE ~ open[e]
  BY <1>2, <1>4, Deserted DEF Typed
<1> QED BY <1>3, <1>4

LEMMA ExitCallOrder ==
  ASSUME Typed, Typed', Regular, ExitCall, ~ spoiled'
  PROVE  Regular'
<1> DEFINE e == "child"
           b == Below(stack[e])
<1>1. e \in End /\ stack[e] # <<>> /\ Top(e).at = "call" /\ Top(e) = Last(stack[e])
      /\ stack[e] \in Seq(Frame) /\ net' = net /\ asked' = asked
  BY DEF ExitCall, InCall, Exit, End, Top, Last, Typed
<1>2. PICK k \in {0} \cup {i \in 1 .. Len(stack[e]) - 1 : stack[e][i].at = "call"} :
        Unwind(e, b, k, "exit")
  BY DEF ExitCall, Exit
<1> HIDE DEF e
<1>3. CASE open[e]
  <2>1. Turn(e, net, stack[e], {}, {}) /\ Last(stack[e]).at \in Serving
    BY <1>1, <1>3, RunsTurn DEF Runs, Serving
  <2>2. /\ Turn(e, net, b, {}, {Last(stack[e]).n})
        /\ b \in Seq(Frame) /\ b # <<>> /\ Last(b).at \notin Serving
    BY <1>1, <2>1, ReturnTurn
  <2>3. stack[e] = Append(b, Last(stack[e])) /\ Last(stack[e]) \in Frame
        /\ Len(b) = Len(stack[e]) - 1
    BY <1>1, Split
  <2>4. \A i \in 1 .. Len(b) : stack[e][i] = b[i]
    BY <2>2, <2>3, Pushed
  <2>5. k \in 0 .. Len(b) /\ (k # 0 => b[k].at \in Serving)
    <3>1. Len(b) \in Nat
      BY <2>2, LenProperties
    <3> HIDE DEF b
    <3> QED BY <1>2, <2>3, <2>4, <3>1 DEF Serving
  <2> HIDE DEF b
  <2> QED BY <1>1, <1>2, <2>2, <2>5, TurnUnwind
<1>4. CASE ~ open[e]
  <2>1. ~ open'[e] /\ open'[Peer(e)] = open[Peer(e)] /\ stack'[Peer(e)] = stack[Peer(e)]
    BY <1>1, <1>2, <1>4, TwoEnds DEF Unwind, Typed
  <2> QED BY <1>1, <1>4, <2>1, Deserted
<1> QED BY <1>3, <1>4 DEF Typed

LEMMA DieOrder ==
  ASSUME Typed, Typed', Regular, NEW e \in End, Die(e)
  PROVE  Regular'
<1>1. ~ open'[e] /\ open'[Peer(e)] = open[Peer(e)] /\ stack'[Peer(e)] = stack[Peer(e)]
      /\ net' = net /\ asked' = asked
  BY TwoEnds DEF Die, Gone, Typed
<1> QED BY <1>1, Deserted

\* The child listens, or does no more.
Starting == started < Tools \/ pc["child"] \in {"spawned", "start"}

LEMMA LaterNotStarting ==
  ASSUME Inv, ~ Starting, [Next]_vars
  PROVE  ~ Starting'
<1>1. started = Tools /\ pc["child"] \notin {"spawned", "start"}
  BY RemoteToolAssumption DEF Starting, Inv, ProgramInv
<1>2. pc \in [End -> ParentPlace \cup ChildPlace] /\ "child" \in End /\ "parent" \in End
  BY DEF Inv, ProgramInv, End
<1>3. CASE UNCHANGED <<started, pc>>
  BY <1>1, <1>3, RemoteToolAssumption DEF Starting
<1>4. CASE \E e \in End, place \in {"version", "fetch", "run", "close", "join", "end", "serve",
                                    "stop", "exited"} :
             Goto(e, place) /\ UNCHANGED started
  BY <1>1, <1>2, <1>4, RemoteToolAssumption DEF Starting, Goto
<1>5. CASE ParentStep
  <2>1. CASE StartFailed \/ GetExposed \/ Exposed \/ RunEnds \/ ParentClosed \/ Join
    BY <1>2, <1>3, <1>4, <2>1 DEF StartFailed, GetExposed, Exposed, RunEnds, ParentClosed, Join, ToClose
  <2>2. CASE ParentClose \/ AppStep("parent") \/ (PipeStep("parent") /\ UNCHANGED <<program, calls, faults>>)
    BY <1>3, <2>2 DEF ParentClose, AppStep, CallOther, Return, RaiseException, program
  <2> QED BY <1>5, <2>1, <2>2 DEF ParentStep
<1>6. CASE ChildStep
  <2>1. CASE SendVersion \/ StartTool \/ StartRaises
    BY <1>1, <2>1, RemoteToolAssumption DEF SendVersion, StartTool, StartRaises, At
  <2>2. CASE Listen \/ ServeEnds \/ StopTool \/ Stopped \/ ChildExits
    BY <1>2, <1>3, <1>4, <2>2 DEF Listen, ServeEnds, StopTool, Stopped, ChildExits, ToClose
  <2>3. CASE ChildClose \/ AppStep("child") \/ (PipeStep("child") /\ UNCHANGED <<program, calls, faults>>)
    BY <1>3, <2>3 DEF ChildClose, AppStep, CallOther, Return, RaiseException, program
  <2> QED BY <1>6, <2>1, <2>2, <2>3 DEF ChildStep
<1>7. CASE Fault
  <2>1. CASE StartExits
    BY <1>1, <2>1 DEF StartExits, At
  <2>2. CASE ExitCall \/ \E e \in End : NotCallable(e)
    BY <1>3, <2>2 DEF ExitCall, NotCallable, program
  <2>3. CASE \E e \in End : Die(e)
    BY <1>4, <2>3 DEF Die
  <2> QED BY <1>7, <2>1, <2>2, <2>3 DEF Fault
<1>8. CASE Finished \/ UNCHANGED vars
  BY <1>3, <1>8 DEF Finished, vars, program
<1> QED BY <1>5, <1>6, <1>7, <1>8 DEF Next

\* While the child listens, and after, each step keeps the order.
LEMMA RegularStep ==
  ASSUME Inv, Inv', Marked, Regular, ~ Starting, [Next]_vars, ~ spoiled'
  PROVE  Regular'
<1>1. Typed /\ Typed' /\ PipeInv /\ PipeInv'
  BY DEF PipeInv, Moving, Nets, Stacks, Typed, Inv
<1>2. /\ "parent" \in End /\ "child" \in End /\ None \in Load
      /\ pc["child"] \notin {"spawned", "start"}
  BY DEF End, Load, Starting
<1>3. CASE UNCHANGED <<open, net, stack, asked>>
  BY <1>3, Unmoved
<1>4. CASE ParentStep
  <2>1. CASE StartFailed \/ Exposed \/ RunEnds \/ ParentClosed \/ Join
    BY <1>3, <2>1 DEF StartFailed, Exposed, RunEnds, ParentClosed, Join, ToClose, pipe
  <2>2. CASE GetExposed
    BY <1>1, <2>2, GetExposedOrder DEF GetExposed
  <2>3. CASE ParentClose
    BY <1>1, <1>2, <2>3, CloseOrder DEF ParentClose, At, Close
  <2>4. CASE AppStep("parent")
    BY <1>2, <2>4, AppStepOrder
  <2>5. CASE PipeStep("parent")
    BY <1>1, <1>2, <2>5, PipeStepOrder
  <2> QED BY <1>4, <2>1, <2>2, <2>3, <2>4, <2>5 DEF ParentStep
<1>5. CASE ChildStep
  <2>1. CASE SendVersion \/ StartTool \/ StartRaises
    BY <1>2, <2>1 DEF SendVersion, StartTool, StartRaises, At
  <2>2. CASE ServeEnds \/ StopTool \/ Stopped \/ ChildExits
    BY <1>3, <2>2 DEF ServeEnds, StopTool, Stopped, ChildExits, ToClose, pipe
  <2>3. CASE Listen
    BY <1>1, <1>2, <2>3, ListenOrder DEF Listen, At, Receive
  <2>4. CASE ChildClose
    <3>1. PICK exc \in Exceptions["child"] \cup {None} : Close("child", exc)
      BY <2>4 DEF ChildClose
    <3>2. exc \in Load
      BY <1>2, Sent
    <3>3. InProgram("child") /\ open["child"]
      BY <2>4, <3>1 DEF ChildClose, At, Close
    <3> QED BY <1>1, <1>2, <3>1, <3>2, <3>3, CloseOrder
  <2>5. CASE AppStep("child")
    BY <1>2, <2>5, AppStepOrder
  <2>6. CASE PipeStep("child")
    BY <1>1, <1>2, <2>6, PipeStepOrder
  <2> QED BY <1>5, <2>1, <2>2, <2>3, <2>4, <2>5, <2>6 DEF ChildStep
<1>6. CASE Fault
  <2>1. CASE StartExits
    BY <1>2, <2>1 DEF StartExits, At
  <2>2. CASE ExitCall
    BY <1>1, <2>2, ExitCallOrder DEF ExitCall, Exit
  <2>3. ASSUME NEW e \in End, NotCallable(e) PROVE Regular'
    BY <1>1, <2>3, ServeDudOrder DEF NotCallable, ServeDud
  <2>4. ASSUME NEW e \in End, Die(e) PROVE Regular'
    BY <1>1, <2>4, DieOrder DEF Die
  <2> QED BY <1>6, <2>1, <2>2, <2>3, <2>4 DEF Fault
<1>7. CASE Finished \/ UNCHANGED vars
  BY <1>3, <1>7 DEF Finished, vars, pipe
<1> QED BY <1>4, <1>5, <1>6, <1>7 DEF Next

----------------------------------------------------------------------------
(* Answers and the requests that take them *)

\* What e takes as the answer to its innermost request is the answer to it.
Own(e) ==
  /\ Received(e) /\ Top(e).at \notin {"closing", "drain"}
  /\ First(e).kind \in Answers \cup {"PICKLE_VERSION"}
  => First(e).of = Top(e).n

LEMMA RegularOwn ==
  ASSUME Typed, Marked, Regular, NEW e \in End
  PROVE  Own(e)
<1> SUFFICES ASSUME Received(e), Top(e).at \notin {"closing", "drain"},
                    First(e).kind \in Answers \cup {"PICKLE_VERSION"}
             PROVE  First(e).of = Top(e).n
  BY DEF Own
<1>1. Waiting(e) /\ net[e] # <<>> /\ Top(e).at # "closing"
  BY DEF Received
<1>2. CASE First(e).kind \in Answers
  BY <1>1, <1>2, AnswerTurn
<1>3. CASE First(e).kind = "PICKLE_VERSION"
  <2>1. Last(stack[e]).n = 0 /\ Top(e) = Last(stack[e])
    BY <1>1, <1>3, HeadTurn
  <2>2. First(e) \in Bids(e)
    BY <1>1, HeadTailProperties DEF Marked, First
  <2> QED BY <1>3, <2>1, <2>2 DEF Bids
<1> QED BY <1>2, <1>3

LEMMA OwnRead ==
  ASSUME misread \in BOOLEAN, NEW e \in End, spoiled \/ Own(e), NEW kinds, Arrives(e, kinds),
         kinds \subseteq Answers \cup {"PICKLE_VERSION", "CLOSE_CLOSED"},
         First(e).kind # "CLOSE_CLOSED", Misreads(e)
  PROVE  misread' = misread
<1>1. First(e).kind \in Answers \cup {"PICKLE_VERSION"}
  BY DEF Arrives
<1>2. spoiled \/ First(e).of = Top(e).n
  BY <1>1 DEF Own, Arrives
<1> QED BY <1>2 DEF Misreads

LEMMA PipeStepReads ==
  ASSUME misread \in BOOLEAN, NEW e \in End, spoiled \/ Own(e), PipeStep(e)
  PROVE  misread' = misread
<1> USE DEF Answers
<1>1. CASE EndOfFile(e) \/ GetProxyDef(e) \/ LoadFails(e) \/ LastReceived(e) \/ ServeCall(e)
  BY <1>1 DEF EndOfFile, GetProxyDef, LoadFails, LastReceived, ServeCall
<1>2. CASE ServeExposed(e) \/ ServeProxyDef(e) \/ ServeVerifyTypes(e) \/ TakeClose(e)
  BY <1>2 DEF ServeExposed, ServeProxyDef, ServeVerifyTypes, TakeClose
<1>3. CASE TakeAnswer(e)
  <2> DEFINE kinds == {"RETURN", "GET_EXPOSED_RESULT", "GET_PROXY_DEF_RESULT", "PICKLE_VERSION"}
  <2>1. Arrives(e, kinds) /\ Misreads(e) /\ First(e).kind # "CLOSE_CLOSED"
    BY <1>3 DEF TakeAnswer, TakeValue, Arrives
  <2> QED BY <2>1, OwnRead
<1>4. CASE TakeVerifyTypesResult(e)
  <2>1. Arrives(e, {"VERIFY_TYPES_RESULT"}) /\ Misreads(e) /\ First(e).kind # "CLOSE_CLOSED"
    BY <1>4 DEF TakeVerifyTypesResult, TakeValue, Arrives
  <2> QED BY <2>1, OwnRead
<1>5. CASE TakeError(e)
  <2> DEFINE kinds == {"EXCEPTION", "REMOTE_ERROR", "GET_EXPOSED_ERROR", "CLOSE_CLOSED"}
  <2>1. CASE First(e).kind = "CLOSE_CLOSED"
    BY <1>5, <2>1 DEF TakeError
  <2>2. CASE First(e).kind # "CLOSE_CLOSED"
    <3>1. Arrives(e, kinds) /\ Misreads(e)
      BY <1>5, <2>2 DEF TakeError
    <3> QED BY <2>2, <3>1, OwnRead
  <2> QED BY <2>1, <2>2
<1> QED BY <1>1, <1>2, <1>3, <1>4, <1>5 DEF PipeStep

LEMMA StepReads ==
  ASSUME Inv, \A e \in End : spoiled \/ Own(e), [Next]_vars
  PROVE  misread' = misread
<1>1. misread \in BOOLEAN /\ "parent" \in End /\ "child" \in End
  BY DEF Inv, PipeInv, End
<1>2. ASSUME NEW e \in End, PipeStep(e) PROVE misread' = misread
  BY <1>1, <1>2, PipeStepReads
<1>3. ASSUME NEW e \in End, AppStep(e) PROVE misread' = misread
  BY <1>3 DEF AppStep, CallOther, Call, Return, RaiseException, Answer
<1>4. CASE ParentStep
  <2>1. CASE StartFailed \/ GetExposed \/ Exposed \/ RunEnds \/ ParentClose \/ ParentClosed \/ Join
    BY <2>1 DEF StartFailed, GetExposed, Exposed, RunEnds, ParentClose, ParentClosed, Join,
                ToClose, Close, pipe
  <2> QED BY <1>1, <1>2, <1>3, <1>4, <2>1 DEF ParentStep
<1>5. CASE ChildStep
  <2>1. CASE SendVersion \/ StartTool \/ StartRaises \/ Listen \/ ServeEnds \/ StopTool \/ Stopped
    BY <2>1 DEF SendVersion, StartTool, StartRaises, Listen, Receive, ServeEnds, StopTool,
                Stopped, ToClose, pipe
  <2>2. CASE ChildClose \/ ChildExits
    BY <2>2 DEF ChildClose, Close, ChildExits, pipe
  <2> QED BY <1>1, <1>2, <1>3, <1>5, <2>1, <2>2 DEF ChildStep
<1>6. CASE Fault
  BY <1>6 DEF Fault, StartExits, ToClose, ExitCall, Exit, NotCallable, ServeDud, Die
<1>7. CASE Finished \/ UNCHANGED vars
  BY <1>7 DEF Finished, vars, pipe
<1> QED BY <1>4, <1>5, <1>6, <1>7 DEF Next

LEMMA RaiseSpoils ==
  ASSUME NEW e, NEW s, NEW k, NEW how, Unwind(e, s, k, how), spoiled
  PROVE  spoiled'
  BY DEF Unwind

LEMMA WriteSpoils ==
  ASSUME NEW e, NEW on, NEW m, NEW s, NEW after, Write(e, on, m, s, after), spoiled
  PROVE  spoiled'
  BY RaiseSpoils DEF Write, Raise

LEMMA SendSpoils ==
  ASSUME NEW e, NEW on, NEW m, NEW s, NEW v, NEW r, SendKnowing(e, on, m, s, v, r), spoiled
  PROVE  spoiled'
<1>1. CASE Raise(e, s, "error")
  BY <1>1, RaiseSpoils DEF Raise
<1>2. ASSUME NEW q, NEW at, NEW held_, Ask(e, on, q, s, at, held_) PROVE spoiled'
  BY <1>2, WriteSpoils DEF Ask
<1>3. ASSUME NEW q, Write(e, on, q, s, s) PROVE spoiled'
  BY <1>3, WriteSpoils
<1> QED BY <1>1, <1>2, <1>3 DEF SendKnowing

LEMMA PipeStepSpoils ==
  ASSUME NEW e \in End, PipeStep(e), spoiled
  PROVE  spoiled'
<1>1. CASE EndOfFile(e) \/ LoadFails(e) \/ LastReceived(e) \/ TakeError(e) \/ TakeClose(e)
  BY <1>1, RaiseSpoils DEF EndOfFile, LoadFails, LastReceived, TakeError, TakeClose, Raise
<1>2. CASE GetProxyDef(e) \/ ServeCall(e) \/ ServeVerifyTypes(e)
  BY <1>2, WriteSpoils DEF GetProxyDef, Ask, ServeCall, ServeVerifyTypes
<1>3. CASE ServeExposed(e) \/ ServeProxyDef(e)
  BY <1>3, SendSpoils DEF ServeExposed, ServeProxyDef, Send
<1>4. ASSUME NEW v, NEW r, TakeValue(e, v, r) PROVE spoiled'
  BY <1>4, SendSpoils, RaiseSpoils DEF TakeValue, Raise
<1>5. CASE TakeAnswer(e) \/ TakeVerifyTypesResult(e)
  BY <1>4, <1>5, RaiseSpoils DEF TakeAnswer, TakeVerifyTypesResult, Raise
<1> QED BY <1>1, <1>2, <1>3, <1>5 DEF PipeStep

\* A request that is given up stays so.
LEMMA StaysSpoiled ==
  ASSUME [Next]_vars, spoiled
  PROVE  spoiled'
<1>0. "parent" \in End /\ "child" \in End
  BY DEF End
<1>1. ASSUME NEW e \in End, AppStep(e) PROVE spoiled'
  BY <1>1, SendSpoils DEF AppStep, CallOther, Call, Return, RaiseException, Answer, Send
<1>2. CASE ParentStep
  <2>1. CASE StartFailed \/ Exposed \/ RunEnds \/ ParentClosed \/ Join
    BY <2>1 DEF StartFailed, Exposed, RunEnds, ParentClosed, Join, ToClose, pipe
  <2>2. CASE GetExposed \/ ParentClose
    BY <2>2, SendSpoils DEF GetExposed, ParentClose, Close, Send
  <2> QED BY <1>0, <1>1, <1>2, <2>1, <2>2, PipeStepSpoils DEF ParentStep
<1>3. CASE ChildStep
  <2>1. CASE SendVersion
    BY <2>1, WriteSpoils DEF SendVersion
  <2>2. CASE StartTool \/ StartRaises \/ Listen \/ ServeEnds \/ StopTool \/ Stopped \/ ChildExits
    BY <2>2 DEF StartTool, StartRaises, Listen, Receive, ServeEnds, StopTool, Stopped,
                ChildExits, ToClose, pipe
  <2>3. CASE ChildClose
    BY <2>3, SendSpoils DEF ChildClose, Close, Send
  <2> QED BY <1>0, <1>1, <1>3, <2>1, <2>2, <2>3, PipeStepSpoils DEF ChildStep
<1>4. CASE Fault
  BY <1>4, RaiseSpoils DEF Fault, StartExits, ToClose, ExitCall, Exit, NotCallable, ServeDud, Raise, Die
<1>5. CASE Finished \/ UNCHANGED vars
  BY <1>5 DEF Finished, vars, pipe
<1> QED BY <1>2, <1>3, <1>4, <1>5 DEF Next

----------------------------------------------------------------------------
(* Before the child listens *)

\* The child does not read what comes as long as it starts its tools, and the
\* parent asks for what is exposed as soon as it has the version. A tool that
\* cannot be started lets the child close the connection before it listens: it
\* asks one question at most, and so does the parent before it closes too.

Receiving == <<Wait("receive", 0)>>
Fetching == <<Wait("answer", 1)>>
Closing == <<Wait("closing", 0)>>
ClosingAsks(m) == <<Wait("closing", 0), [at |-> "verify", n |-> 1, msg |-> m]>>

\* The parent waits for the version, has it, or waits for what is exposed.
VersionWaits == stack["parent"] = Receiving /\ pc["parent"] = "version" /\ asked["parent"] = 0
VersionKnown ==
  /\ stack["parent"] = <<>> /\ pc["parent"] = "version" /\ asked["parent"] = 0
  /\ back["parent"] = "returned"
ExposedWaits == stack["parent"] = Fetching /\ pc["parent"] = "fetch" /\ asked["parent"] = 1

IsVersion(m) == m.kind = "PICKLE_VERSION"
IsQuery(m) == m.kind = "GET_EXPOSED" /\ m.of = 1 /\ m.load = Plain

\* Nothing is exposed until the last tool is started.
Blank ==
  started < Tools =>
    exposed["child"].kind = "GET_EXPOSED_RESULT" /\ exposed["child"].load = None

\* The child starts its tools.
Early ==
  /\ open["child"] /\ stack["child"] = <<>> /\ asked["child"] = 0 /\ Blank
  /\ pc["child"] = "spawned" => started < Tools
  /\ net["child"] = <<>> \/ (Len(net["child"]) = 1 /\ IsQuery(net["child"][1]))
  /\ open["parent"] =>
       \/ /\ VersionWaits /\ net["child"] = <<>>
          /\ IF pc["child"] = "spawned" THEN net["parent"] = <<>>
             ELSE Len(net["parent"]) = 1 /\ IsVersion(net["parent"][1])
       \/ /\ VersionKnown /\ pc["child"] = "start"
          /\ net["child"] = <<>> /\ net["parent"] = <<>>
       \/ /\ ExposedWaits /\ pc["child"] = "start"
          /\ net["child"] # <<>> /\ net["parent"] = <<>>

\* The child only waits for the end of the connection, or has left.
Silent == open["child"] => stack["child"] = Closing

\* A verification of the class that close() waits for.
Pending(m) ==
  /\ m.of = 1
  /\ open["child"] => /\ stack["child"] # <<>>
                      /\ Len(stack["child"]) > 1 => m.load = stack["child"][2].msg.load

\* What the parent sends to the child, and the child to the parent.
Told ==
  {m \in Message :
     /\ ~ CarriesObject(m)
     /\ \/ m.kind = "GET_EXPOSED" /\ m.of = 1
        \/ m.kind = "VERIFY_TYPES_RESULT" /\ Pending(m)
        \/ m.kind = "GET_PROXY_DEF" /\ Silent
        \/ m.kind \in {"CLOSE", "CLOSE_CLOSED"}}

Heard ==
  {m \in Message :
     \/ m.kind = "VERIFY_TYPES" /\ Pending(m)
     \/ m.kind = "GET_EXPOSED_RESULT" /\ m.of = 1 /\ m.load = None
     \/ m.kind = "CLOSE" /\ Silent
     \/ m.kind = "CLOSE_CLOSED" /\ ~ CarriesObject(m)}

CloseComesLast ==
  \A i \in 1 .. Len(net["parent"]) : net["parent"][i].kind = "CLOSE" => i = Len(net["parent"])

ChildAborts ==
  /\ pc["child"] = "close"
  /\ \/ stack["child"] = <<>> /\ asked["child"] = 0
     \/ stack["child"] = Closing
     \/ \E m \in Message :
          /\ m.kind = "CLOSE"
          /\ stack["child"] \in {ClosingAsks(m), Append(ClosingAsks(m), Wait("drain", 0))}

\* The parent runs, its program or in a wait.
ParentWaits ==
  \/ /\ stack["parent"] = <<>> /\ pc["parent"] # "run"
     /\ pc["parent"] = "version" => asked["parent"] = 0
     /\ pc["parent"] = "fetch" => back["parent"] # "returned"
  \/ stack["parent"] = Fetching /\ pc["parent"] = "fetch"
  \/ stack["parent"] = Closing
  \/ /\ Len(stack["parent"]) = 2 /\ Final(Last(stack["parent"]))
     /\ net["parent"] = <<>> /\ Silent

ParentAborts ==
  /\ CloseComesLast
  /\ \/ /\ VersionWaits
        /\ IF net["parent"] = <<>> THEN ~ open["child"]
           ELSE IsVersion(Head(net["parent"])) /\ Tail(net["parent"]) \in Seq(Heard)
     \/ net["parent"] \in Seq(Heard) /\ ParentWaits

\* The child closes, or has closed, without having listened.
Aborting ==
  /\ started < Tools /\ Blank /\ pc["child"] \in {"close", "exited"}
  /\ open["child"] => ChildAborts /\ net["child"] \in Seq(Told)
  /\ open["parent"] => ParentAborts

Ordered ==
  IF ~ Starting THEN spoiled \/ Regular
  ELSE IF pc["child"] \in {"spawned", "start"} THEN Early ELSE Aborting

\* An exception that meets no function served leaves nothing of the frames.
LEMMA RaisedThrough ==
  ASSUME Inv, NEW e \in End, NEW s \in Seq(Frame), NEW how,
         \A i \in 1 .. Len(s) : s[i].at \notin Serving, Raise(e, s, how)
  PROVE  /\ stack'[e] = <<>>
         /\ open'[e] => /\ open[e] /\ how # "shutdown" /\ back'[e] = how
                        /\ \A i \in 1 .. Len(s) : s[i].at \notin {"closing", "drain"}
         /\ open'[Peer(e)] = open[Peer(e)] /\ stack'[Peer(e)] = stack[Peer(e)]
         /\ back'[Peer(e)] = back[Peer(e)]
<1> DEFINE left == SubSeq(s, 0 + 1, Len(s))
           turned == IF Has(left, "drain") THEN "shutdown" ELSE how
           closes == turned = "shutdown" \/ Has(left, "closing")
<1>1. LastCall(s) = 0
  <2>1. LastCall(s) \in 0 .. Len(s) /\ (LastCall(s) # 0 => s[LastCall(s)].at \in Serving)
    BY LastCallRange
  <2>2. LastCall(s) # 0 => LastCall(s) \in 1 .. Len(s)
    BY <2>1, LenProperties
  <2> QED BY <2>1, <2>2
<1>2. \A at : Has(left, at) <=> \E i \in 1 .. Len(s) : 0 < i /\ s[i].at = at
  <2>1. 0 \in 0 .. Len(s)
    BY LenProperties
  <2> QED BY <2>1, LeftOf
<1>3. /\ stack' = [stack EXCEPT ![e] = SubSeq(s, 1, 0)]
      /\ open' = [open EXCEPT ![e] = @ /\ ~ closes]
      /\ back' = [back EXCEPT ![e] = IF turned = "shutdown" /\ Has(left, "closing")
                                     THEN "returned" ELSE turned]
  BY <1>1 DEF Raise, Unwind
<1> HIDE DEF left
<1>4. Peer(e) \in End /\ Peer(e) # e /\ SubSeq(s, 1, 0) = <<>>
  BY TwoEnds, SubSeqEmpty
<1>5. stack \in [End -> Seq(Frame)] /\ open \in [End -> BOOLEAN] /\ back \in [End -> Back]
  BY DEF Inv, PipeInv, Moving, Stacks
<1>6. /\ stack'[e] = <<>> /\ open'[Peer(e)] = open[Peer(e)]
      /\ stack'[Peer(e)] = stack[Peer(e)] /\ back'[Peer(e)] = back[Peer(e)]
  BY <1>3, <1>4, <1>5
<1>7. ASSUME open'[e]
      PROVE  /\ open[e] /\ how # "shutdown" /\ back'[e] = how
             /\ \A i \in 1 .. Len(s) : s[i].at \notin {"closing", "drain"}
  <2>1. open[e] /\ ~ closes
    BY <1>3, <1>5, <1>7
  <2>2. ~ Has(left, "drain") /\ ~ Has(left, "closing") /\ how # "shutdown"
    BY <2>1
  <2>3. back'[e] = how
    BY <1>3, <1>5, <2>2
  <2>4. \A i \in 1 .. Len(s) : 0 < i
    BY LenProperties
  <2> QED BY <1>2, <2>1, <2>2, <2>3, <2>4
<1> QED BY <1>6, <1>7

LEMMA TailAppend ==
  ASSUME NEW S, NEW q \in Seq(S), q # <<>>, NEW x \in S
  PROVE  Tail(Append(q, x)) = Append(Tail(q), x) /\ Head(Append(q, x)) = Head(q)
  OBVIOUS

\* The frames of the two ends are waits, the innermost of them last.
LEMMA Frames ==
  /\ \A s \in {Receiving, Fetching, Closing} :
       /\ s \in Seq(Frame) /\ Len(s) = 1 /\ s # <<>> /\ Last(s) = s[1] /\ Below(s) = <<>>
       /\ \A i \in 1 .. Len(s) : s[i].at \notin Serving
  /\ Receiving[1].at = "receive" /\ Receiving[1].n = 0
  /\ Fetching[1].at = "answer" /\ Fetching[1].n = 1
  /\ Closing[1].at = "closing"
  /\ \A m \in Message :
       LET s == ClosingAsks(m)
       IN  /\ s \in Seq(Frame) /\ Len(s) = 2 /\ Below(s) = Closing
           /\ s[1].at = "closing" /\ s[2].at = "verify" /\ s[2].n = 1 /\ s[2].msg = m
<1>1. \A at \in {"receive", "answer", "closing"}, n \in {0, 1} :
        Wait(at, n) \in Frame /\ Wait(at, n).at = at /\ Wait(at, n).n = n
  BY WaitType DEF On, End, Wait
<1>2. ASSUME NEW f \in Frame
      PROVE  /\ <<f>> \in Seq(Frame) /\ Len(<<f>>) = 1 /\ <<f>> # <<>> /\ Last(<<f>>) = f
             /\ <<f>>[1] = f /\ Below(<<f>>) = <<>>
  <2>1. SubSeq(<<f>>, 1, 0) = <<>>
    BY SubSeqEmpty
  <2> QED BY <2>1 DEF Last, Below
<1>3. ASSUME NEW m \in Message
      PROVE  LET s == ClosingAsks(m)
             IN  /\ s \in Seq(Frame) /\ Len(s) = 2 /\ Below(s) = Closing
                 /\ s[1].at = "closing" /\ s[2].at = "verify" /\ s[2].n = 1 /\ s[2].msg = m
  <2> DEFINE a == Wait("closing", 0)
             b == [at |-> "verify", n |-> 1, msg |-> m]
  <2>1. a \in Frame /\ a.at = "closing"
    BY <1>1
  <2>2. b \in Frame /\ b.at = "verify" /\ b.n = 1 /\ b.msg = m
    BY DEF Frame
  <2> HIDE DEF a, b
  <2>3. /\ <<a, b>> \in Seq(Frame) /\ Len(<<a, b>>) = 2 /\ <<a, b>>[1] = a /\ <<a, b>>[2] = b
        /\ <<a>> \in Seq(Frame) /\ <<a, b>> = Append(<<a>>, b)
    BY <2>1, <2>2
  <2>4. SubSeq(<<a, b>>, 1, 1) = <<a>>
    <3>1. SubSeq(Append(<<a>>, b), 1, Len(<<a>>)) = <<a>>
      BY <2>2, <2>3, Prefixes
    <3>2. Len(<<a>>) = 1
      OBVIOUS
    <3> QED BY <2>3, <3>1, <3>2
  <2>5. Below(<<a, b>>) = <<a>>
    BY <2>3, <2>4 DEF Below
  <2>6. ClosingAsks(m) = <<a, b>> /\ Closing = <<a>>
    BY DEF ClosingAsks, Closing, a, b
  <2> QED BY <2>1, <2>2, <2>3, <2>5, <2>6
<1>4. \A at \in {"receive", "answer", "closing"} : at \notin Serving
  BY DEF Serving
<1> HIDE DEF Wait
<1>5. ASSUME NEW s \in {Receiving, Fetching, Closing}
      PROVE  /\ s \in Seq(Frame) /\ Len(s) = 1 /\ s # <<>> /\ Last(s) = s[1] /\ Below(s) = <<>>
             /\ \A i \in 1 .. Len(s) : s[i].at \notin Serving
  <2>1. PICK at \in {"receive", "answer", "closing"}, n \in {0, 1} : s = <<Wait(at, n)>>
    BY DEF Receiving, Fetching, Closing
  <2> DEFINE f == Wait(at, n)
  <2>2. f \in Frame /\ f.at \notin Serving
    BY <1>1, <1>4
  <2> HIDE DEF f
  <2>3. \A i \in 1 .. Len(<<f>>) : i = 1
    OBVIOUS
  <2> QED BY <1>2, <2>1, <2>2, <2>3 DEF f
<1> QED BY <1>1, <1>2, <1>3, <1>5 DEF Receiving, Fetching, Closing

LEMMA CloseAsks ==
  ASSUME NEW m \in Message
  PROVE  Append(Closing, [at |-> "verify", n |-> 1, msg |-> m]) = ClosingAsks(m)
<1> DEFINE a == Wait("closing", 0)
           b == [at |-> "verify", n |-> 1, msg |-> m]
<1>1. a \in Frame /\ b \in Frame
  BY WaitType DEF On, Frame, End
<1> HIDE DEF a, b
<1>2. /\ <<a, b>> \in Seq(Frame) /\ Len(<<a, b>>) = 2 /\ <<a, b>>[1] = a /\ <<a, b>>[2] = b
      /\ <<a>> \in Seq(Frame) /\ <<a, b>> = Append(<<a>>, b)
  BY <1>1
<1> QED BY <1>2 DEF Closing, ClosingAsks, a, b

LEMMA HeardKinds ==
  ASSUME NEW m \in Heard
  PROVE  /\ m \in Message
         /\ m.kind \in {"VERIFY_TYPES", "GET_EXPOSED_RESULT", "CLOSE", "CLOSE_CLOSED"}
         /\ CarriesObject(m) => m.kind = "CLOSE"
         /\ m.kind = "CLOSE" => Silent
         /\ m.kind = "VERIFY_TYPES" => Pending(m)
         /\ m.kind = "GET_EXPOSED_RESULT" => m.of = 1 /\ m.load = None
  BY RemotePipeAssumption DEF Heard, CarriesObject

LEMMA ToldKinds ==
  ASSUME NEW m \in Told
  PROVE  /\ m \in Message /\ ~ CarriesObject(m)
         /\ m.kind \in {"GET_EXPOSED", "VERIFY_TYPES_RESULT", "GET_PROXY_DEF", "CLOSE", "CLOSE_CLOSED"}
         /\ m.kind = "GET_EXPOSED" => m.of = 1
         /\ m.kind = "GET_PROXY_DEF" => Silent
         /\ m.kind = "VERIFY_TYPES_RESULT" => Pending(m)
  BY DEF Told

LEMMA VersionKind ==
  ASSUME Marked, net["parent"] # <<>>, IsVersion(Head(net["parent"]))
  PROVE  LET m == Head(net["parent"])
         IN  m \in Message /\ m.kind = "PICKLE_VERSION" /\ ~ CarriesObject(m) /\ m.of = 0
<1>1. Head(net["parent"]) \in Bids("parent")
  BY HeadTailProperties DEF Marked, End
<1> QED BY <1>1, RemotePipeAssumption DEF Bids, IsVersion, CarriesObject

\* Reading keeps CLOSE last.
LEMMA CloseStaysLast ==
  ASSUME NEW q \in Seq(Message), q # <<>>,
         \A i \in 1 .. Len(q) : q[i].kind = "CLOSE" => i = Len(q)
  PROVE  /\ \A i \in 1 .. Len(Tail(q)) : Tail(q)[i].kind = "CLOSE" => i = Len(Tail(q))
         /\ Head(q).kind = "CLOSE" => Tail(q) = <<>>
<1> DEFINE t == Tail(q)
           h == Head(q)
<1>1. /\ Len(q) \in Nat \ {0} /\ Len(t) = Len(q) - 1 /\ t \in Seq(Message)
      /\ \A i \in 1 .. Len(t) : t[i] = q[i + 1]
      /\ h = q[1]
  BY HeadTailProperties, EmptySeq, LenProperties
<1> HIDE DEF t, h
<1>2. ASSUME h.kind = "CLOSE" PROVE t = <<>>
  <2>1. Len(q) = 1
    BY <1>1, <1>2
  <2> QED BY <1>1, <2>1, EmptySeq
<1>3. ASSUME NEW i \in 1 .. Len(t), t[i].kind = "CLOSE" PROVE i = Len(t)
  <2>1. i + 1 \in 1 .. Len(q) /\ q[i + 1].kind = "CLOSE"
    BY <1>1, <1>3
  <2> QED BY <1>1, <2>1
<1> QED BY <1>2, <1>3 DEF t, h

\* What the parent reads, and where it reads it.
LEMMA ParentReads ==
  ASSUME Inv, Marked, Aborting, Waiting("parent"), net["parent"] # <<>>
  PROVE  LET m == First("parent")
             q == Rest("parent")["parent"]
         IN  /\ m \in Message /\ (CarriesObject(m) => m.kind = "CLOSE")
             /\ \/ VersionWaits /\ m.kind = "PICKLE_VERSION"
                \/ m \in Heard /\ stack["parent"] = Fetching /\ pc["parent"] = "fetch"
                \/ m \in Heard /\ stack["parent"] = Closing
             /\ q \in Seq(Heard) /\ q = Tail(net["parent"])
             /\ \A i \in 1 .. Len(q) : q[i].kind = "CLOSE" => i = Len(q)
             /\ m.kind = "CLOSE" => q = <<>>
             /\ Rest("parent")["child"] = net["child"] /\ Rest("parent") \in [End -> Seq(Message)]
             /\ stack["parent"] \in Seq(Frame)
             /\ \A i \in 1 .. Len(stack["parent"]) : stack["parent"][i].at \notin Serving
<1> DEFINE m == First("parent")
           q == Rest("parent")["parent"]
<1>1. /\ Typed /\ "parent" \in End /\ "child" \in End /\ open["parent"] /\ stack["parent"] # <<>>
      /\ net["parent"] \in Seq(Message)
  BY Types DEF Inv, End, Waiting, Typed
<1>2. /\ q = Tail(net["parent"]) /\ Rest("parent")["child"] = net["child"]
      /\ Tail(net["parent"]) \in Seq(Message) /\ Rest("parent") \in [End -> Seq(Message)]
  BY <1>1, HeadTailProperties DEF Rest, Typed
<1>3. ParentAborts
  BY <1>1 DEF Aborting
<1>4. /\ \A i \in 1 .. Len(q) : q[i].kind = "CLOSE" => i = Len(q)
      /\ m.kind = "CLOSE" => q = <<>>
  BY <1>1, <1>2, <1>3, CloseStaysLast DEF ParentAborts, CloseComesLast, First
<1>5. CASE VersionWaits
  <2>1. IsVersion(Head(net["parent"])) /\ Tail(net["parent"]) \in Seq(Heard)
    <3>1. ~ ParentWaits
      BY <1>5, Frames DEF VersionWaits, ParentWaits, Receiving, Fetching, Closing, Wait
    <3> QED BY <1>3, <3>1 DEF ParentAborts
  <2>2. m \in Message /\ m.kind = "PICKLE_VERSION" /\ ~ CarriesObject(m)
    BY <2>1, VersionKind DEF First
  <2> HIDE DEF m, q
  <2>3. stack["parent"] = Receiving
    BY <1>5 DEF VersionWaits
  <2>4. /\ stack["parent"] \in Seq(Frame)
        /\ \A i \in 1 .. Len(stack["parent"]) : stack["parent"][i].at \notin Serving
    BY <2>3, Frames
  <2> QED BY <1>1, <1>2, <1>4, <1>5, <2>1, <2>2, <2>4 DEF m, q
<1>6. CASE ~ VersionWaits
  <2>1. net["parent"] \in Seq(Heard) /\ ParentWaits
    BY <1>3, <1>6 DEF ParentAborts
  <2>2. m \in Heard /\ Tail(net["parent"]) \in Seq(Heard)
    BY <2>1, HeadTailProperties DEF First
  <2>3. m \in Message /\ (CarriesObject(m) => m.kind = "CLOSE")
    BY <2>2, HeardKinds
  <2>4. \/ stack["parent"] = Fetching /\ pc["parent"] = "fetch"
        \/ stack["parent"] = Closing
    BY <1>1, <2>1 DEF ParentWaits
  <2>5. /\ stack["parent"] \in Seq(Frame)
        /\ \A i \in 1 .. Len(stack["parent"]) : stack["parent"][i].at \notin Serving
    BY <2>4, Frames
  <2> HIDE DEF m, q
  <2> QED BY <1>1, <1>2, <1>4, <2>2, <2>3, <2>4, <2>5 DEF m, q
<1> QED BY <1>5, <1>6

\* A step of the parent.
LEMMA ParentActs ==
  ASSUME Inv, Aborting, UNCHANGED <<started, exposed>>, pc'["child"] = pc["child"],
         open'["child"] = open["child"], stack'["child"] = stack["child"],
         asked'["child"] = asked["child"],
         open["child"] => \/ net'["child"] = net["child"]
                          \/ \E m \in Told : net'["child"] = Append(net["child"], m),
         open'["parent"] => \/ ParentAborts'
                            \/ net'["parent"] \in Seq(Heard) /\ CloseComesLast' /\ ParentWaits'
  PROVE  Aborting'
<1>1. Told' = Told /\ Heard' = Heard
  BY DEF Told, Heard, Pending, Silent
<1>2. ChildAborts' <=> ChildAborts
  BY DEF ChildAborts
<1>3. open["child"] => net'["child"] \in Seq(Told)
  <2>1. \A m \in Told : net["child"] \in Seq(Told) => Append(net["child"], m) \in Seq(Told)
    OBVIOUS
  <2> QED BY <2>1 DEF Aborting
<1>4. open'["parent"] => ParentAborts'
  BY <1>1 DEF ParentAborts
<1> QED BY <1>1, <1>2, <1>3, <1>4 DEF Aborting, Blank

\* Something is written, or the end closes.
LEMMA Written ==
  ASSUME Inv, NEW e \in End, NEW on \in [End -> Seq(Message)], NEW m \in Message,
         NEW s \in Seq(Frame), \A i \in 1 .. Len(s) : s[i].at \notin Serving, NEW after,
         Write(e, on, m, s, after)
  PROVE  /\ open'[Peer(e)] = open[Peer(e)] /\ stack'[Peer(e)] = stack[Peer(e)]
         /\ back'[Peer(e)] = back[Peer(e)]
         /\ open'[e] => /\ open[e] /\ stack'[e] = after /\ net'[e] = on[e] /\ back'[e] = back[e]
                        /\ open[Peer(e)] /\ net'[Peer(e)] = Append(on[Peer(e)], m)
         /\ net'[Peer(e)] = on[Peer(e)] \/ net'[Peer(e)] = Append(on[Peer(e)], m)
<1>1. Peer(e) \in End /\ Peer(e) # e /\ Typed
  BY TwoEnds, Types DEF Inv
<1>2. CASE open[Peer(e)]
  BY <1>1, <1>2 DEF Write, Typed
<1>3. CASE ~ open[Peer(e)]
  <2>1. net' = on /\ Raise(e, s, "shutdown")
    BY <1>3 DEF Write
  <2>2. ~ open'[e] /\ open'[Peer(e)] = open[Peer(e)] /\ stack'[Peer(e)] = stack[Peer(e)]
        /\ back'[Peer(e)] = back[Peer(e)]
    BY <2>1, RaisedThrough
  <2> QED BY <2>1, <2>2
<1> QED BY <1>2, <1>3

LEMMA ParentWrites ==
  ASSUME Inv, NEW on \in [End -> Seq(Message)], NEW m \in Message,
         NEW s \in Seq(Frame), \A i \in 1 .. Len(s) : s[i].at \notin Serving, NEW after,
         Write("parent", on, m, s, after)
  PROVE  /\ open'["child"] = open["child"] /\ stack'["child"] = stack["child"]
         /\ back'["child"] = back["child"]
         /\ open'["parent"] => /\ open["parent"] /\ stack'["parent"] = after
                               /\ net'["parent"] = on["parent"]
                               /\ back'["parent"] = back["parent"]
                               /\ open["child"] /\ net'["child"] = Append(on["child"], m)
         /\ net'["child"] = on["child"] \/ net'["child"] = Append(on["child"], m)
<1>1. "parent" \in End /\ Peer("parent") = "child"
  BY DEF End, Peer
<1> QED BY <1>1, Written, SMTT(30)

LEMMA ChildWrites ==
  ASSUME Inv, NEW on \in [End -> Seq(Message)], NEW m \in Message,
         NEW s \in Seq(Frame), \A i \in 1 .. Len(s) : s[i].at \notin Serving, NEW after,
         Write("child", on, m, s, after)
  PROVE  /\ open'["parent"] = open["parent"] /\ stack'["parent"] = stack["parent"]
         /\ back'["parent"] = back["parent"]
         /\ open'["child"] => /\ open["child"] /\ stack'["child"] = after
                              /\ net'["child"] = on["child"]
                              /\ back'["child"] = back["child"]
                              /\ open["parent"] /\ net'["parent"] = Append(on["parent"], m)
         /\ net'["parent"] = on["parent"] \/ net'["parent"] = Append(on["parent"], m)
<1>1. "child" \in End /\ Peer("child") = "parent"
  BY DEF End, Peer
<1> QED BY <1>1, Written, SMTT(30)

\* What GetProxyDef, and an answer to the child, write.
LEMMA ToldByPipe ==
  /\ Silent => Msg("GET_PROXY_DEF", Plain, 0) \in Told
               /\ \A n \in Nat : [Msg("GET_PROXY_DEF", Plain, 0) EXCEPT !.of = n] \in Told
  /\ Msg("CLOSE_CLOSED", Plain, 0) \in Told
  /\ Msg("CLOSE", None, 0) \in Told
  /\ [Msg("GET_EXPOSED", Plain, 0) EXCEPT !.of = 1] \in Told
  BY RemotePipeAssumption DEF Msg, Told, Message, Kind, Load, CarriesObject

\* The parent reads a message, and serves it, takes it or gives up.
LEMMA ParentPipe ==
  ASSUME Inv, Marked, Aborting, PipeStep("parent"), UNCHANGED <<program, calls, faults>>
  PROVE  Aborting'
<1> DEFINE e == "parent"
           c == "child"
           m == First(e)
<1>1. /\ e \in End /\ c \in End /\ Peer(e) = c /\ e # c /\ Typed
      /\ UNCHANGED <<started, exposed>> /\ pc' = pc
  <2>1. UNCHANGED exposed
    BY DEF PipeStep, EndOfFile, GetProxyDef, LoadFails, LastReceived, ServeCall, ServeExposed,
           ServeProxyDef, ServeVerifyTypes, TakeAnswer, TakeVerifyTypesResult, TakeValue,
           TakeError, TakeClose
  <2> QED BY <2>1, Types DEF End, Peer, program, Inv
<1>2. ASSUME Waiting(e), net[e] # <<>>
      PROVE  LET q == Rest(e)[e]
             IN  /\ m \in Message /\ (CarriesObject(m) => m.kind = "CLOSE")
                 /\ \/ VersionWaits /\ m.kind = "PICKLE_VERSION"
                    \/ m \in Heard /\ stack[e] = Fetching /\ pc[e] = "fetch"
                    \/ m \in Heard /\ stack[e] = Closing
                 /\ q \in Seq(Heard)
                 /\ \A i \in 1 .. Len(q) : q[i].kind = "CLOSE" => i = Len(q)
                 /\ m.kind = "CLOSE" => q = <<>>
                 /\ Rest(e)[c] = net[c] /\ Rest(e) \in [End -> Seq(Message)]
                 /\ stack[e] \in Seq(Frame)
                 /\ \A i \in 1 .. Len(stack[e]) : stack[e][i].at \notin Serving
  BY <1>2, ParentReads
<1> HIDE DEF e, c, m
<1>3. ASSUME NEW how, Raise(e, stack[e], how), Waiting(e), net[e] # <<>>, net' = Rest(e),
             asked' = asked, how \in {"error", "shutdown"}, ~ VersionWaits
      PROVE  Aborting'
  <2>1. /\ stack'[e] = <<>> /\ (open'[e] => back'[e] = how /\ how # "shutdown")
        /\ open'[e] => \A i \in 1 .. Len(stack[e]) : stack[e][i].at \notin {"closing", "drain"}
        /\ open'[c] = open[c] /\ stack'[c] = stack[c]
    BY <1>1, <1>2, <1>3, RaisedThrough, ZenonT(30)
  <2>2. open'[e] => pc[e] = "fetch"
    <3>1. stack[e] = Closing => Len(stack[e]) = 1 /\ stack[e][1].at = "closing"
      BY Frames
    <3> QED BY <1>2, <1>3, <2>1, <3>1
  <2>3. open'[e] => net'[e] \in Seq(Heard) /\ CloseComesLast' /\ ParentWaits'
    BY <1>1, <1>2, <1>3, <2>1, <2>2 DEF CloseComesLast, ParentWaits, e
  <2> QED BY <1>1, <1>2, <1>3, <2>1, <2>3, ParentActs DEF e, c
<1>4. ASSUME NEW w \in Told, NEW after, Waiting(e), net[e] # <<>>, asked'[c] = asked[c],
             open'[c] = open[c], stack'[c] = stack[c],
             open'[e] => stack'[e] = after /\ net'[e] = Rest(e)[e] /\ back'[e] = back[e],
             net'[c] = net[c] \/ net'[c] = Append(net[c], w),
             \/ after = stack[e] /\ ~ VersionWaits
             \/ Len(after) = 2 /\ Final(Last(after)) /\ Rest(e)[e] = <<>> /\ Silent
      PROVE  Aborting'
  <2>1. open'[e] => net'[e] \in Seq(Heard) /\ CloseComesLast'
    BY <1>2, <1>4 DEF CloseComesLast, e
  <2>2. open'[e] => ParentWaits'
    <3>1. Silent' = Silent
      BY <1>4 DEF Silent, c
    <3>2. CASE after = stack[e] /\ ~ VersionWaits
      BY <1>1, <1>2, <1>4, <3>2 DEF ParentWaits, e
    <3>3. CASE Len(after) = 2 /\ Final(Last(after)) /\ Rest(e)[e] = <<>> /\ Silent
      BY <1>4, <3>1, <3>3 DEF ParentWaits, e
    <3> QED BY <1>4, <3>2, <3>3
  <2> QED BY <1>1, <1>4, <2>1, <2>2, ParentActs DEF e, c
<1>40. ASSUME NEW w \in Told, NEW after, Write(e, Rest(e), w, stack[e], after), Waiting(e),
              net[e] # <<>>
       PROVE  /\ open'[c] = open[c] /\ stack'[c] = stack[c]
              /\ open'[e] => stack'[e] = after /\ net'[e] = Rest(e)[e] /\ back'[e] = back[e]
              /\ net'[c] = net[c] \/ net'[c] = Append(net[c], w)
  <2>1. w \in Message
    BY ToldKinds
  <2> DEFINE on == Rest(e)
             s == stack[e]
  <2>2. /\ on[c] = net[c] /\ on \in [End -> Seq(Message)] /\ s \in Seq(Frame)
        /\ \A i \in 1 .. Len(s) : s[i].at \notin Serving
    BY <1>2, <1>40
  <2>3. Write(e, on, w, s, after)
    BY <1>40
  <2> HIDE DEF on, s
  <2>4. /\ open'[c] = open[c] /\ stack'[c] = stack[c]
        /\ open'[e] => stack'[e] = after /\ net'[e] = on[e] /\ back'[e] = back[e]
        /\ net'[c] = on[c] \/ net'[c] = Append(on[c], w)
    BY <2>1, <2>2, <2>3, ParentWrites DEF e, c
  <2> QED BY <1>1, <2>2, <2>4 DEF on
<1>5. CASE EndOfFile(e)
  <2>1. ~ open'[e] /\ open'[c] = open[c] /\ stack'[c] = stack[c] /\ net' = net /\ asked' = asked
    BY <1>1, <1>5, ShutDown DEF EndOfFile
  <2> QED BY <1>1, <2>1, ParentActs DEF e, c
<1>6. CASE GetProxyDef(e)
  <2>1. Waiting(e) /\ net[e] # <<>> /\ CarriesObject(m)
    BY <1>6 DEF GetProxyDef, UnknownProxy, m
  <2>2. /\ m \in Heard /\ m.kind = "CLOSE" /\ m \in Message /\ Rest(e)[e] = <<>>
        /\ stack[e] \in {Fetching, Closing}
    BY <1>2, <2>1
  <2>3. Silent
    BY <2>2, HeardKinds
  <2> DEFINE w == [Msg("GET_PROXY_DEF", Plain, 0) EXCEPT !.of = asked[e] + 1]
             f == [at |-> "proxy", n |-> asked[e] + 1, msg |-> m]
  <2>4. /\ asked' = [asked EXCEPT ![e] = @ + 1]
        /\ Write(e, Rest(e), w, stack[e], Append(stack[e], f))
    BY <1>6 DEF GetProxyDef, Ask, m
  <2>5. w \in Told
    <3>1. asked[e] + 1 \in Nat
      BY <1>1 DEF Typed
    <3> QED BY <2>3, <3>1, ToldByPipe
  <2>6. Len(Append(stack[e], f)) = 2 /\ Last(Append(stack[e], f)) = f
    <3>1. f \in Frame
      BY <1>1, <2>2 DEF Frame, Typed
    <3>2. stack[e] \in Seq(Frame) /\ Len(stack[e]) = 1
      BY <2>2, Frames
    <3> HIDE DEF f
    <3>3. Len(Append(stack[e], f)) = Len(stack[e]) + 1 /\ Last(Append(stack[e], f)) = f
      BY <3>1, <3>2, Pushed
    <3> QED BY <3>2, <3>3
  <2>7. Final(f)
    BY <2>2 DEF Final
  <2>8. asked'[c] = asked[c]
    BY <1>1, <2>4 DEF Typed
  <2> HIDE DEF f, w
  <2> DEFINE after == Append(stack[e], f)
  <2>9. /\ open'[c] = open[c] /\ stack'[c] = stack[c]
        /\ open'[e] => stack'[e] = after /\ net'[e] = Rest(e)[e] /\ back'[e] = back[e]
        /\ net'[c] = net[c] \/ net'[c] = Append(net[c], w)
    BY <1>40, <2>1, <2>4, <2>5
  <2> HIDE DEF after
  <2> QED BY <1>4, <2>1, <2>2, <2>3, <2>5, <2>6, <2>7, <2>8, <2>9 DEF after
<1>7. CASE LoadFails(e)
  <2>1. /\ Waiting(e) /\ net[e] # <<>> /\ CarriesObject(m) /\ net' = Rest(e) /\ asked' = asked
        /\ Raise(e, Answered(e, m), "error")
    BY <1>7 DEF LoadFails, Unloadable, m
  <2>2. m.kind = "CLOSE" /\ ~ VersionWaits
    <3>1. m.kind = "CLOSE" /\ stack[e] \in {Fetching, Closing}
      BY <1>2, <2>1
    <3>2. Receiving \notin {Fetching, Closing}
      BY Frames
    <3> QED BY <3>1, <3>2 DEF VersionWaits, e
  <2>3. Answered(e, m) = stack[e]
    BY <2>2 DEF Answered, Answers
  <2> QED BY <1>3, <2>1, <2>2, <2>3
<1>8. CASE LastReceived(e)
  <2>1. Waiting(e) /\ net[e] # <<>> /\ net' = Rest(e) /\ asked' = asked
        /\ Raise(e, stack[e], "shutdown")
    BY <1>8 DEF LastReceived, Received
  <2>2. ~ open'[e] /\ open'[c] = open[c] /\ stack'[c] = stack[c]
    BY <1>1, <2>1, ShutDown
  <2> QED BY <1>1, <1>2, <2>1, <2>2, ParentActs DEF e, c
<1>9. ASSUME NEW kinds, Arrives(e, kinds)
      PROVE  /\ Waiting(e) /\ net[e] # <<>> /\ m.kind \in kinds
             /\ \/ VersionWaits /\ m.kind = "PICKLE_VERSION"
                \/ m \in Heard /\ stack[e] = Fetching /\ pc[e] = "fetch" /\ ~ VersionWaits
  <2>1. Waiting(e) /\ net[e] # <<>> /\ m.kind \in kinds /\ Top(e).at # "closing"
    BY <1>9 DEF Arrives, Received, m
  <2>2. stack[e] # Closing
    BY <2>1, Frames DEF Top
  <2>3. pc[e] = "fetch" => ~ VersionWaits
    BY DEF VersionWaits, e
  <2> QED BY <1>2, <2>1, <2>2, <2>3
<1>10. CASE ServeCall(e) \/ ServeExposed(e) \/ ServeProxyDef(e) \/ TakeVerifyTypesResult(e)
  <2>1. Arrives(e, {"CALL", "GET_EXPOSED", "GET_PROXY_DEF", "VERIFY_TYPES_RESULT"})
    BY <1>10 DEF ServeCall, ServeExposed, ServeProxyDef, TakeVerifyTypesResult, Arrives
  <2> QED BY <1>9, <2>1, HeardKinds
<1>11. CASE ServeVerifyTypes(e)
  <2>1. Arrives(e, {"VERIFY_TYPES"}) /\ asked' = asked
    BY <1>11 DEF ServeVerifyTypes
  <2>2. m \in Heard /\ ~ VersionWaits /\ m.kind = "VERIFY_TYPES" /\ Waiting(e) /\ net[e] # <<>>
    BY <1>9, <2>1
  <2>3. PICK w \in To(Peer(e)) :
          /\ w.kind = "VERIFY_TYPES_RESULT" /\ w.load = m.load /\ w.of = m.of
          /\ Write(e, Rest(e), w, stack[e], stack[e])
    BY <1>1, <1>11, VerdictGood DEF Inv, m
  <2>4. w \in Told
    <3>1. m \in Message /\ Pending(m)
      BY <2>2, HeardKinds
    <3> QED BY <2>3, <3>1 DEF To, Told, Pending, CarriesObject
  <2>5. /\ open'[c] = open[c] /\ stack'[c] = stack[c]
        /\ open'[e] => stack'[e] = stack[e] /\ net'[e] = Rest(e)[e] /\ back'[e] = back[e]
        /\ net'[c] = net[c] \/ net'[c] = Append(net[c], w)
    BY <1>40, <2>2, <2>3, <2>4
  <2> QED BY <1>4, <2>1, <2>2, <2>4, <2>5
<1>12. CASE TakeAnswer(e)
  <2>1. /\ Arrives(e, {"RETURN", "GET_EXPOSED_RESULT", "GET_PROXY_DEF_RESULT", "PICKLE_VERSION"})
        /\ TakeValue(e, verified[e], remote[e])
    BY <1>12 DEF TakeAnswer
  <2>2. /\ Waiting(e) /\ net[e] # <<>>
        /\ \/ VersionWaits
           \/ m \in Heard /\ m.kind = "GET_EXPOSED_RESULT" /\ stack[e] = Fetching /\ pc[e] = "fetch"
    BY <1>9, <2>1, HeardKinds
  <2>3. stack[e] \in {Receiving, Fetching}
    BY <2>2 DEF VersionWaits, e
  <2>4. Top(e).at \in {"answer", "receive"} /\ Len(stack[e]) = 1 /\ Below(stack[e]) = <<>>
    BY <2>3, Frames DEF Top
  <2>5. /\ net' = Rest(e) /\ open' = open /\ asked' = asked
        /\ stack' = [stack EXCEPT ![e] = <<>>]
        /\ back' = [back EXCEPT ![e] = IF m.load = None THEN "none" ELSE "returned"]
    BY <2>1, <2>4 DEF TakeValue, m
  <2>6. /\ stack'[e] = <<>> /\ stack'[c] = stack[c]
        /\ m.load = None => back'[e] = "none"
    BY <1>1, <2>5 DEF Typed, Inv, PipeInv, Moving
  <2>7. ParentWaits'
    <3>1. CASE VersionWaits
      BY <1>1, <2>5, <2>6, <3>1 DEF VersionWaits, ParentWaits, e
    <3>2. CASE m \in Heard /\ m.kind = "GET_EXPOSED_RESULT" /\ pc[e] = "fetch"
      BY <1>1, <2>6, <3>2, HeardKinds DEF ParentWaits, e
    <3> QED BY <2>2, <3>1, <3>2
  <2>8. net'[e] \in Seq(Heard) /\ CloseComesLast' /\ net'[c] = net[c]
    BY <1>2, <2>2, <2>5 DEF CloseComesLast, e
  <2> QED BY <1>1, <2>5, <2>6, <2>7, <2>8, ParentActs DEF e, c
<1>13. CASE TakeError(e)
  <2>1. /\ Arrives(e, {"EXCEPTION", "REMOTE_ERROR", "GET_EXPOSED_ERROR", "CLOSE_CLOSED"})
        /\ net' = Rest(e) /\ asked' = asked /\ Raise(e, Answered(e, m), "error")
    BY <1>13 DEF TakeError, m
  <2>2. Waiting(e) /\ net[e] # <<>> /\ m.kind = "CLOSE_CLOSED" /\ ~ VersionWaits
    BY <1>9, <2>1, HeardKinds
  <2>3. Answered(e, m) = stack[e]
    BY <2>2 DEF Answered, Answers
  <2> QED BY <1>3, <2>1, <2>2, <2>3
<1>14. CASE TakeClose(e)
  <2>1. Arrives(e, {"CLOSE"}) /\ asked' = asked
    BY <1>14 DEF TakeClose
  <2>2. /\ Waiting(e) /\ net[e] # <<>> /\ m \in Heard /\ m.kind = "CLOSE" /\ ~ VersionWaits
        /\ stack[e] = Fetching
    BY <1>9, <2>1
  <2>3. Silent /\ Rest(e)[e] = <<>>
    BY <1>2, <2>2, HeardKinds
  <2> DEFINE w == Msg("CLOSE_CLOSED", Plain, 0)
             f == Wait("drain", 0)
  <2>4. CASE open[Peer(e)]
    <3>1. /\ net' = [Rest(e) EXCEPT ![c] = Append(@, w)] /\ UNCHANGED <<open, back>>
          /\ stack' = [stack EXCEPT ![e] = Append(@, f)]
      BY <1>1, <1>14, <2>4 DEF TakeClose
    <3>2. w \in Told /\ f \in Frame /\ Final(f)
      BY <1>1, ToldByPipe, WaitType DEF On, Final, Wait
    <3> HIDE DEF w, f
    <3> DEFINE after == Append(stack[e], f)
    <3>3. Len(after) = 2 /\ Last(after) = f
      <4>1. stack[e] \in Seq(Frame) /\ Len(stack[e]) = 1
        BY <2>2, Frames
      <4>2. Len(after) = Len(stack[e]) + 1 /\ Last(after) = f
        BY <3>2, <4>1, Pushed
      <4> HIDE DEF after
      <4> QED BY <4>1, <4>2
    <3>4. /\ stack'[e] = after /\ stack'[c] = stack[c] /\ net'[c] = Append(net[c], w)
          /\ net'[e] = Rest(e)[e]
      BY <1>1, <1>2, <2>2, <3>1 DEF Typed
    <3> HIDE DEF after
    <3> QED BY <1>4, <2>1, <2>2, <2>3, <3>1, <3>2, <3>3, <3>4
  <2>5. CASE ~ open[Peer(e)]
    <3>1. net' = Rest(e) /\ Raise(e, stack[e], "shutdown")
      BY <1>14, <2>5 DEF TakeClose
    <3> QED BY <1>3, <2>1, <2>2, <3>1
  <2> QED BY <2>4, <2>5
<1> QED BY <1>5, <1>6, <1>7, <1>8, <1>10, <1>11, <1>12, <1>13, <1>14 DEF PipeStep, e

LEMMA WiderSeq ==
  ASSUME NEW S, NEW T, S \subseteq T, NEW q \in Seq(S)
  PROVE  q \in Seq(T)
<1>1. \A i \in 1 .. Len(q) : q[i] \in T
  BY ElementOfSeq
<1> QED BY <1>1, LenProperties, IsASeq

\* What may be under way only grows as the child goes on.
LEMMA Widening ==
  ASSUME Silent => Silent',
         open'["child"] =>
           /\ open["child"]
           /\ \/ Silent'
              \/ stack'["child"] = stack["child"]
              \/ stack["child"] = <<>>
              \/ /\ Len(stack["child"]) > 1 /\ Len(stack'["child"]) > 1
                 /\ stack'["child"][2] = stack["child"][2]
  PROVE  Told \subseteq Told' /\ Heard \subseteq Heard'
<1>1. ASSUME NEW m \in Message, Pending(m) PROVE Pending(m)'
  <2> SUFFICES ASSUME open'["child"]
               PROVE  /\ stack'["child"] # <<>>
                      /\ Len(stack'["child"]) > 1 => m.load = stack'["child"][2].msg.load
    BY <1>1 DEF Pending
  <2>1. /\ open["child"] /\ stack["child"] # <<>>
        /\ Len(stack["child"]) > 1 => m.load = stack["child"][2].msg.load
    BY <1>1 DEF Pending
  <2>2. CASE Silent'
    <3>1. stack'["child"] = Closing
      BY <2>2 DEF Silent
    <3>2. Closing # <<>> /\ ~ (Len(Closing) > 1)
      BY Frames
    <3> QED BY <3>1, <3>2
  <2>3. CASE stack'["child"] = stack["child"]
    BY <2>1, <2>3
  <2>4. CASE /\ Len(stack["child"]) > 1 /\ Len(stack'["child"]) > 1
             /\ stack'["child"][2] = stack["child"][2]
    <3>1. ~ (Len(<<>>) > 1)
      OBVIOUS
    <3>2. stack'["child"] # <<>>
      BY <2>4, <3>1
    <3> QED BY <2>1, <2>4, <3>2
  <2> QED BY <2>1, <2>2, <2>3, <2>4
<1> QED BY <1>1 DEF Told, Heard

\* A step of the child.
LEMMA ChildActs ==
  ASSUME Inv, Marked, Aborting, UNCHANGED <<started, exposed>>,
         pc'["child"] \in {"close", "exited"},
         pc'["parent"] = pc["parent"], open'["parent"] = open["parent"],
         stack'["parent"] = stack["parent"], asked'["parent"] = asked["parent"],
         back'["parent"] = back["parent"],
         Told \subseteq Told', Heard \subseteq Heard', Silent => Silent',
         open'["child"] => open["child"] /\ ChildAborts' /\ net'["child"] \in Seq(Told),
         open["parent"] =>
           \/ net'["parent"] = net["parent"]
           \/ /\ open["child"] /\ ~ Silent
              /\ \E m \in Heard' : net'["parent"] = Append(net["parent"], m)
  PROVE  Aborting'
<1> DEFINE q == net["parent"]
<1>1. open'["child"] => net'["child"] \in Seq(Told')
  BY WiderSeq
<1>2. ASSUME open["parent"], q' = q PROVE ParentAborts'
  <2>1. CloseComesLast'
    BY <1>2 DEF Aborting, ParentAborts, CloseComesLast
  <2>2. CASE VersionWaits /\ IF q = <<>> THEN ~ open["child"]
                             ELSE IsVersion(Head(q)) /\ Tail(q) \in Seq(Heard)
    <3>1. VersionWaits'
      BY <2>2 DEF VersionWaits
    <3>2. CASE q = <<>>
      BY <1>2, <2>1, <2>2, <3>1, <3>2 DEF ParentAborts
    <3>3. CASE q # <<>>
      <4>1. Tail(q) \in Seq(Heard')
        BY <2>2, <3>3, WiderSeq
      <4> QED BY <1>2, <2>1, <2>2, <3>1, <3>3, <4>1 DEF ParentAborts
    <3> QED BY <3>2, <3>3
  <2>3. CASE q \in Seq(Heard) /\ ParentWaits
    <3>1. q \in Seq(Heard')
      BY <2>3, WiderSeq
    <3>2. ParentWaits'
      BY <1>2, <2>3 DEF ParentWaits
    <3> QED BY <1>2, <2>1, <3>1, <3>2 DEF ParentAborts
  <2> QED BY <1>2, <2>2, <2>3 DEF Aborting, ParentAborts
<1>3. ASSUME open["parent"], open["child"], ~ Silent, NEW m \in Heard', q' = Append(q, m)
      PROVE  ParentAborts'
  <2>1. q \in Seq(Message) /\ m \in Message /\ Heard \subseteq Message
    BY Types DEF Inv, Typed, End, Heard
  <2>2. /\ q' \in Seq(Message) /\ Len(q') = Len(q) + 1 /\ Len(q) \in Nat
        /\ \A i \in 1 .. Len(q) : q'[i] = q[i]
    BY <1>3, <2>1, AppendProperties, LenProperties
  <2>3. \A i \in 1 .. Len(q) : q[i].kind # "CLOSE"
    <3>1. \A x \in Heard : x.kind # "CLOSE"
      BY <1>3, HeardKinds
    <3>2. CASE q \in Seq(Heard)
      BY <3>1, <3>2, ElementOfSeq
    <3>3. CASE q # <<>> /\ IsVersion(Head(q)) /\ Tail(q) \in Seq(Heard)
      <4> DEFINE t == Tail(q)
      <4>1. /\ Len(q) \in Nat \ {0} /\ Len(t) = Len(q) - 1 /\ Head(q) = q[1]
            /\ \A i \in 1 .. Len(t) : t[i] = q[i + 1]
        BY <2>1, <3>3, HeadTailProperties, EmptySeq, LenProperties
      <4>2. t \in Seq(Heard)
        BY <3>3
      <4> HIDE DEF t
      <4>3. \A i \in 1 .. Len(t) : t[i] \in Heard
        BY <4>2, ElementOfSeq
      <4>4. ASSUME NEW i \in 1 .. Len(q), i # 1 PROVE q[i] \in Heard
        <5>1. i - 1 \in 1 .. Len(t) /\ (i - 1) + 1 = i
          BY <4>1, <4>4
        <5> QED BY <4>1, <4>3, <5>1
      <4> QED BY <3>1, <3>3, <4>1, <4>4 DEF IsVersion
    <3> QED BY <1>3, <3>2, <3>3 DEF Aborting, ParentAborts
  <2>4. CloseComesLast'
    <3>1. \A i \in 1 .. Len(q') : i \in 1 .. Len(q) \/ i = Len(q')
      BY <2>2
    <3> QED BY <2>2, <2>3, <3>1 DEF CloseComesLast
  <2>5. CASE VersionWaits /\ q # <<>> /\ IsVersion(Head(q)) /\ Tail(q) \in Seq(Heard)
    <3>1. Tail(q') = Append(Tail(q), m) /\ Head(q') = Head(q)
      BY <1>3, <2>1, <2>5, TailAppend
    <3>2. Tail(q) \in Seq(Heard')
      BY <2>5, WiderSeq
    <3>3. Tail(q') \in Seq(Heard') /\ q' # <<>> /\ VersionWaits'
      <4>1. Append(Tail(q), m) \in Seq(Heard')
        BY <1>3, <3>2, AppendProperties
      <4>2. q' # <<>>
        BY <2>2, EmptySeq
      <4> QED BY <2>5, <3>1, <4>1, <4>2 DEF VersionWaits
    <3> QED BY <2>4, <2>5, <3>1, <3>3 DEF ParentAborts
  <2>6. CASE q \in Seq(Heard) /\ ParentWaits
    <3>1. q' \in Seq(Heard')
      <4>1. q \in Seq(Heard')
        BY <2>6, WiderSeq
      <4> QED BY <1>3, <4>1, AppendProperties
    <3>2. ParentWaits'
      BY <1>3, <2>6 DEF ParentWaits
    <3> QED BY <2>4, <3>1, <3>2 DEF ParentAborts
  <2> QED BY <1>3, <2>5, <2>6 DEF Aborting, ParentAborts
<1> QED BY <1>1, <1>2, <1>3 DEF Aborting, Blank

\* The child closes the connection.
LEMMA ChildGone ==
  ASSUME Inv, Marked, Aborting, UNCHANGED <<started, exposed>>,
         pc'["child"] \in {"close", "exited"}, ~ open'["child"],
         pc'["parent"] = pc["parent"], open'["parent"] = open["parent"],
         stack'["parent"] = stack["parent"], asked'["parent"] = asked["parent"],
         back'["parent"] = back["parent"], net'["parent"] = net["parent"]
  PROVE  Aborting'
<1>1. Silent'
  BY DEF Silent
<1>2. Told \subseteq Told' /\ Heard \subseteq Heard'
  BY <1>1, Widening
<1> QED BY <1>1, <1>2, ChildActs

\* The child, whose close() waits for a class to be verified, or goes on.
LEMMA ChildSays ==
  ASSUME Inv, Marked, Aborting, UNCHANGED <<started, exposed>>, pc' = pc,
         pc["child"] = "close", open["child"], ~ Silent,
         NEW on \in [End -> Seq(Message)], on["parent"] = net["parent"],
         on["child"] \in Seq(Told), NEW k \in Message, k.kind = "CLOSE",
         stack["child"] \in {<<>>, ClosingAsks(k)},
         NEW s \in {Closing, ClosingAsks(k)}, NEW after \in {Closing, ClosingAsks(k)},
         NEW w \in Message, Write("child", on, w, s, after),
         \/ w \in Heard /\ after = stack["child"]
         \/ w.kind = "VERIFY_TYPES" /\ w.of = 1 /\ w.load = k.load /\ after = ClosingAsks(k)
         \/ w.kind = "CLOSE" /\ after = Closing,
         asked'["parent"] = asked["parent"]
  PROVE  Aborting'
<1>1. /\ s \in Seq(Frame) /\ \A i \in 1 .. Len(s) : s[i].at \notin Serving
  <2>1. CASE s = Closing
    BY <2>1, Frames
  <2>2. CASE s = ClosingAsks(k)
    <3>1. s \in Seq(Frame) /\ Len(s) = 2 /\ s[1].at = "closing" /\ s[2].at = "verify"
      BY <2>2, Frames
    <3> QED BY <3>1 DEF Serving
  <2> QED BY <2>1, <2>2
<1>2. /\ open'["parent"] = open["parent"] /\ stack'["parent"] = stack["parent"]
      /\ back'["parent"] = back["parent"]
      /\ open'["child"] => /\ stack'["child"] = after /\ net'["child"] = on["child"]
                           /\ net'["parent"] = Append(net["parent"], w)
      /\ net'["parent"] = net["parent"] \/ net'["parent"] = Append(net["parent"], w)
  BY <1>1, ChildWrites
<1>3. CASE open'["child"]
  <2>1. Len(ClosingAsks(k)) > 1 /\ ClosingAsks(k)[2].msg = k
    BY Frames
  <2>2. ClosingAsks(k) # <<>>
    BY <2>1
  <2>3. /\ after = Closing => Silent'
        /\ after # Closing => stack'["child"] = stack["child"] \/ stack["child"] = <<>>
    BY <1>2, <1>3 DEF Silent
  <2>4. Told \subseteq Told' /\ Heard \subseteq Heard'
    <3> HIDE DEF Silent
    <3> QED BY <1>3, <2>3, Widening
  <2>5. w \in Heard'
    <3>1. CASE w \in Heard
      BY <2>4, <3>1
    <3>2. CASE w.kind = "VERIFY_TYPES" /\ w.of = 1 /\ w.load = k.load /\ after = ClosingAsks(k)
      BY <1>2, <1>3, <2>1, <2>2, <3>2 DEF Heard, Pending
    <3>3. CASE w.kind = "CLOSE" /\ after = Closing
      BY <2>3, <3>3 DEF Heard
    <3> QED BY <3>1, <3>2, <3>3
  <2>6. ChildAborts'
    BY <1>2, <1>3 DEF ChildAborts
  <2> QED BY <1>2, <1>3, <2>4, <2>5, <2>6, ChildActs
<1>4. CASE ~ open'["child"] /\ net'["parent"] = net["parent"]
  BY <1>2, <1>4, ChildGone
<1>5. CASE ~ open'["child"] /\ net'["parent"] # net["parent"]
  <2>1. CASE open["parent"]
    BY <1>5, <2>1 DEF Write
  <2>2. CASE ~ open["parent"]
    <3>1. net' = on
      BY <2>2 DEF Write, Peer
    <3> QED BY <1>5, <3>1
  <2> QED BY <2>1, <2>2
<1> QED BY <1>3, <1>4, <1>5

\* An exception on the stack of a child that closes.
LEMMA ChildRaises ==
  ASSUME Inv, Marked, Aborting, UNCHANGED <<started, exposed>>, pc' = pc,
         NEW s \in Seq(Frame), \A i \in 1 .. Len(s) : s[i].at \notin Serving,
         s # <<>> /\ s[1].at = "closing",
         NEW how, Raise("child", s, how), net'["parent"] = net["parent"],
         asked'["parent"] = asked["parent"]
  PROVE  Aborting'
<1>1. "child" \in End /\ Peer("child") = "parent"
  BY DEF End, Peer
<1>2. 1 \in 1 .. Len(s)
  BY EmptySeq, LenProperties
<1>3. /\ ~ open'["child"] /\ open'["parent"] = open["parent"]
      /\ stack'["parent"] = stack["parent"] /\ back'["parent"] = back["parent"]
  BY <1>1, <1>2, RaisedThrough
<1> QED BY <1>3, ChildGone DEF Aborting

\* close() sends CLOSE, or asks for the class of what comes with it.
LEMMA ChildSendsClose ==
  ASSUME Inv, Marked, Aborting, UNCHANGED <<started, exposed>>, pc' = pc,
         pc["child"] = "close", open["child"], ~ Silent,
         NEW on \in [End -> Seq(Message)], on["parent"] = net["parent"],
         on["child"] \in Seq(Told), NEW k \in Message, k.kind = "CLOSE",
         NEW v, NEW r, SendKnowing("child", on, k, Closing, v, r),
         \/ stack["child"] = <<>> /\ asked["child"] = 0
         \/ stack["child"] = ClosingAsks(k) /\ k.load \in v \cup r
  PROVE  Aborting'
<1>1. Closing \in Seq(Frame) /\ Closing # <<>> /\ Closing[1].at = "closing"
      /\ \A i \in 1 .. Len(Closing) : Closing[i].at \notin Serving
  BY Frames
<1>2. stack["child"] \in {<<>>, ClosingAsks(k)}
  OBVIOUS
<1>3. asked \in [End -> Nat] /\ "child" \in End /\ "parent" \in End
  BY DEF Inv, PipeInv, End
<1>4. CASE net' = on /\ Raise("child", Closing, "error") /\ UNCHANGED asked
  BY <1>1, <1>4, ChildRaises
<1>5. CASE /\ k.load \in Type \ (Unpicklable \cup v \cup r)
           /\ Ask("child", on, Msg("VERIFY_TYPES", k.load, 0), Closing, "verify", k)
  <2> DEFINE w == [Msg("VERIFY_TYPES", k.load, 0) EXCEPT !.of = 0 + 1]
  <2>1. asked["child"] = 0 /\ stack["child"] = <<>>
    BY <1>5
  <2>2. /\ asked' = [asked EXCEPT !["child"] = @ + 1]
        /\ Write("child", on, w, Closing,
                 Append(Closing, [at |-> "verify", n |-> 0 + 1, msg |-> k]))
    BY <1>5, <2>1 DEF Ask
  <2>3. Append(Closing, [at |-> "verify", n |-> 0 + 1, msg |-> k]) = ClosingAsks(k)
    <3>1. 0 + 1 = 1
      OBVIOUS
    <3> QED BY <3>1, CloseAsks
  <2>4. w \in Message /\ w.kind = "VERIFY_TYPES" /\ w.of = 1 /\ w.load = k.load
    <3> DEFINE u == Msg("VERIFY_TYPES", k.load, 0)
    <3>1. k.load \in Load /\ "VERIFY_TYPES" \in Kind /\ 0 \in Nat /\ 0 + 1 = 1
      BY DEF Message, Kind
    <3>2. u \in Message /\ u.kind = "VERIFY_TYPES" /\ u.load = k.load
      BY <3>1 DEF Msg, Message
    <3>3. w = [u EXCEPT !.of = 0 + 1]
      OBVIOUS
    <3> HIDE DEF u, w
    <3> QED BY <3>1, <3>2, <3>3 DEF Message
  <2>5. asked'["parent"] = asked["parent"]
    BY <1>3, <2>2
  <2> HIDE DEF w, Silent
  <2> QED BY <1>2, <2>2, <2>3, <2>4, <2>5, ChildSays
<1>6. CASE /\ Write("child", on, [k EXCEPT !.ref = k.load \in r], Closing, Closing)
           /\ UNCHANGED asked
  <2> DEFINE w == [k EXCEPT !.ref = k.load \in r]
  <2>1. w \in Message /\ w.kind = "CLOSE"
    BY SentByRef
  <2> HIDE DEF w, Silent
  <2> QED BY <1>2, <1>6, <2>1, ChildSays DEF w
<1> QED BY <1>4, <1>5, <1>6 DEF SendKnowing

\* What the child reads, and where it reads it.
LEMMA ChildReads ==
  ASSUME Inv, Aborting, Waiting("child")
  PROVE  /\ pc["child"] = "close" /\ open["child"] /\ stack["child"] \in Seq(Frame)
         /\ stack["child"] # <<>> /\ stack["child"][1].at = "closing"
         /\ \A i \in 1 .. Len(stack["child"]) : stack["child"][i].at \notin Serving
         /\ \/ Top("child").at \in {"closing", "drain"}
            \/ /\ Top("child").at = "verify" /\ ~ Silent
               /\ \E k \in Message :
                    k.kind = "CLOSE" /\ stack["child"] = ClosingAsks(k) /\ Top("child").msg = k
         /\ net["child"] # <<>> =>
              /\ First("child") \in Told /\ Rest("child")["child"] \in Seq(Told)
              /\ Rest("child")["parent"] = net["parent"]
              /\ Rest("child") \in [End -> Seq(Message)]
<1> DEFINE s == stack["child"]
<1>1. /\ Typed /\ "parent" \in End /\ "child" \in End /\ open["child"] /\ s # <<>>
  BY Types DEF Inv, End, Waiting
<1>2. ChildAborts /\ net["child"] \in Seq(Told)
  BY <1>1 DEF Aborting
<1>3. ASSUME net["child"] # <<>>
      PROVE  /\ First("child") \in Told /\ Rest("child")["child"] \in Seq(Told)
             /\ Rest("child")["parent"] = net["parent"]
             /\ Rest("child") \in [End -> Seq(Message)]
  BY <1>1, <1>2, <1>3, HeadTailProperties DEF Rest, First, Typed
<1>4. CASE s = Closing
  <2>1. Top("child").at = "closing"
    BY <1>4, Frames DEF Top
  <2>2. s \in Seq(Frame) /\ s[1].at = "closing"
        /\ \A i \in 1 .. Len(s) : s[i].at \notin Serving
    BY <1>4, Frames
  <2> QED BY <1>1, <1>2, <1>3, <2>1, <2>2 DEF ChildAborts
<1>5. ASSUME NEW k \in Message, k.kind = "CLOSE", s = ClosingAsks(k)
      PROVE  /\ s \in Seq(Frame) /\ s[1].at = "closing"
             /\ \A i \in 1 .. Len(s) : s[i].at \notin Serving
             /\ Top("child").at = "verify" /\ ~ Silent /\ Top("child").msg = k
  <2>1. /\ s \in Seq(Frame) /\ Len(s) = 2 /\ s[1].at = "closing"
        /\ s[2].at = "verify" /\ s[2].msg = k
    BY <1>5, Frames
  <2>2. s # Closing
    BY <2>1, Frames
  <2> QED BY <1>1, <2>1, <2>2 DEF Serving, Top, Silent
<1>6. ASSUME NEW k \in Message, s = Append(ClosingAsks(k), Wait("drain", 0))
      PROVE  /\ s \in Seq(Frame) /\ s[1].at = "closing"
             /\ \A i \in 1 .. Len(s) : s[i].at \notin Serving
             /\ Top("child").at = "drain"
  <2>1. /\ ClosingAsks(k) \in Seq(Frame) /\ Len(ClosingAsks(k)) = 2
        /\ ClosingAsks(k)[1].at = "closing" /\ ClosingAsks(k)[2].at = "verify"
    BY Frames
  <2>2. Wait("drain", 0) \in Frame /\ Wait("drain", 0).at = "drain"
    BY <1>1, WaitType DEF On, Wait
  <2>3. /\ s \in Seq(Frame) /\ Len(s) = 3 /\ s[1].at = "closing" /\ s[2].at = "verify"
        /\ s[3].at = "drain"
    <3> HIDE DEF s
    <3> QED BY <1>6, <2>1, <2>2, Pushed
  <2> QED BY <2>3 DEF Serving, Top
<1> QED BY <1>1, <1>2, <1>3, <1>4, <1>5, <1>6 DEF ChildAborts

\* The child reads a message, while it closes the connection.
LEMMA ChildPipe ==
  ASSUME Inv, Marked, Aborting, PipeStep("child"), UNCHANGED <<program, calls, faults>>
  PROVE  Aborting'
<1> DEFINE e == "child"
           p == "parent"
           m == First(e)
           s == stack[e]
<1>1. /\ e \in End /\ p \in End /\ Peer(e) = p /\ e # p /\ Typed
      /\ UNCHANGED <<started, exposed>> /\ pc' = pc
  <2>1. UNCHANGED exposed
    BY DEF PipeStep, EndOfFile, GetProxyDef, LoadFails, LastReceived, ServeCall, ServeExposed,
           ServeProxyDef, ServeVerifyTypes, TakeAnswer, TakeVerifyTypesResult, TakeValue,
           TakeError, TakeClose
  <2> QED BY <2>1, Types DEF End, Peer, program, Inv
<1>2. ASSUME Waiting(e)
      PROVE  /\ pc[e] = "close" /\ open[e] /\ s \in Seq(Frame) /\ s # <<>> /\ s[1].at = "closing"
             /\ \A i \in 1 .. Len(s) : s[i].at \notin Serving
             /\ \/ Top(e).at \in {"closing", "drain"}
                \/ /\ Top(e).at = "verify" /\ ~ Silent
                   /\ \E k \in Message :
                        k.kind = "CLOSE" /\ s = ClosingAsks(k) /\ Top(e).msg = k
             /\ net[e] # <<>> =>
                  /\ m \in Told /\ Rest(e)[e] \in Seq(Told) /\ Rest(e)[p] = net[p]
                  /\ Rest(e) \in [End -> Seq(Message)]
  BY <1>2, ChildReads
<1> HIDE DEF e, p, m
<1>3. ASSUME NEW how, Raise(e, s, how), Waiting(e), net'[p] = net[p], asked' = asked
      PROVE  Aborting'
  <2> HIDE DEF s
  <2> QED BY <1>1, <1>2, <1>3, ChildRaises DEF e, p
<1>4. CASE EndOfFile(e)
  BY <1>3, <1>4 DEF EndOfFile
<1>5. CASE GetProxyDef(e) \/ LoadFails(e)
  <2>1. Waiting(e) /\ net[e] # <<>> /\ CarriesObject(m)
    BY <1>5 DEF GetProxyDef, UnknownProxy, LoadFails, Unloadable, m
  <2> QED BY <1>2, <2>1, ToldKinds
<1>6. CASE LastReceived(e)
  <2>1. Waiting(e) /\ net[e] # <<>> /\ net' = Rest(e) /\ asked' = asked /\ Raise(e, s, "shutdown")
    BY <1>6 DEF LastReceived, Received
  <2> QED BY <1>2, <1>3, <2>1
<1>7. ASSUME NEW kinds, Arrives(e, kinds)
      PROVE  /\ Waiting(e) /\ net[e] # <<>> /\ m.kind \in kinds /\ m \in Told /\ m \in Message
             /\ Top(e).at = "verify" /\ ~ Silent
             /\ m.kind \in {"GET_EXPOSED", "VERIFY_TYPES_RESULT", "CLOSE", "CLOSE_CLOSED"}
             /\ m.kind = "VERIFY_TYPES_RESULT" => m.load = Top(e).msg.load
             /\ m.kind = "GET_EXPOSED" => m.of = 1
             /\ \E k \in Message : k.kind = "CLOSE" /\ s = ClosingAsks(k) /\ Top(e).msg = k
  <2>1. /\ Waiting(e) /\ net[e] # <<>> /\ m.kind \in kinds /\ Top(e).at \notin {"closing", "drain"}
    BY <1>7 DEF Arrives, Received, m
  <2>2. m \in Told /\ Top(e).at = "verify" /\ ~ Silent
    BY <1>2, <2>1
  <2>3. PICK k \in Message : k.kind = "CLOSE" /\ s = ClosingAsks(k) /\ Top(e).msg = k
    BY <1>2, <2>1
  <2>4. m.kind = "VERIFY_TYPES_RESULT" => m.load = k.load
    <3>1. Len(s) > 1 /\ s[2].msg = k
      BY <2>3, Frames
    <3>2. m.kind = "VERIFY_TYPES_RESULT" => Pending(m)
      BY <2>2, ToldKinds
    <3> QED BY <1>2, <2>1, <3>1, <3>2 DEF Pending, e
  <2> QED BY <2>1, <2>2, <2>3, <2>4, ToldKinds
<1>8. CASE ServeCall(e) \/ ServeProxyDef(e) \/ ServeVerifyTypes(e) \/ TakeAnswer(e)
  <2>1. Arrives(e, {"CALL", "GET_PROXY_DEF", "VERIFY_TYPES", "RETURN", "GET_EXPOSED_RESULT",
                    "GET_PROXY_DEF_RESULT", "PICKLE_VERSION"})
    BY <1>8 DEF ServeCall, ServeProxyDef, ServeVerifyTypes, TakeAnswer, Arrives
  <2> QED BY <1>7, <2>1
<1>9. CASE ServeExposed(e)
  <2>1. /\ Arrives(e, {"GET_EXPOSED"})
        /\ SendKnowing(e, Rest(e), [exposed[e] EXCEPT !.of = m.of], s, verified[e], remote[e])
    BY <1>9 DEF ServeExposed, Send, m
  <2>2. m.kind = "GET_EXPOSED" /\ m.of = 1 /\ Waiting(e) /\ net[e] # <<>> /\ ~ Silent
    BY <1>7, <2>1
  <2>3. PICK k \in Message : k.kind = "CLOSE" /\ s = ClosingAsks(k)
    BY <1>7, <2>1
  <2> DEFINE x == [exposed[e] EXCEPT !.of = m.of]
             w == [x EXCEPT !.ref = x.load \in remote[e]]
  <2>4. x \in Message /\ x.kind = "GET_EXPOSED_RESULT" /\ x.load = None /\ x.of = 1
    <3>1. exposed[e] \in Message
      BY <1>1 DEF Inv, PipeInv, Exposures
    <3>2. exposed[e].kind = "GET_EXPOSED_RESULT" /\ exposed[e].load = None
      BY DEF Aborting, Blank, e
    <3> QED BY <2>2, <3>1, <3>2 DEF Message
  <2> HIDE DEF x
  <2>5. /\ w \in Message /\ w.kind = "GET_EXPOSED_RESULT" /\ w.load = None /\ w.of = 1
    BY <2>4, SentByRef
  <2>6. w \in Heard
    BY <2>5 DEF Heard
  <2>7. Write(e, Rest(e), w, s, s) /\ asked' = asked
    <3>1. None \notin Type /\ None \notin Unpicklable
      BY RemotePipeAssumption
    <3>2. SendKnowing(e, Rest(e), x, s, verified[e], remote[e])
      BY <2>1 DEF x
    <3>3. open[e]
      BY <1>2, <2>2
    <3> QED BY <2>4, <3>1, <3>2, <3>3 DEF SendKnowing
  <2> HIDE DEF w, s
  <2>8. s \in {Closing, ClosingAsks(k)} /\ s \in {<<>>, ClosingAsks(k)}
    BY <2>3
  <2> QED BY <1>1, <1>2, <2>2, <2>3, <2>5, <2>6, <2>7, <2>8, ChildSays DEF e, p, s
<1>10. CASE TakeVerifyTypesResult(e)
  <2>1. Arrives(e, {"VERIFY_TYPES_RESULT"})
    BY <1>10 DEF TakeVerifyTypesResult
  <2>2. /\ m.kind = "VERIFY_TYPES_RESULT" /\ Waiting(e) /\ net[e] # <<>> /\ ~ Silent
        /\ Top(e).at = "verify" /\ m.load = Top(e).msg.load
    BY <1>7, <2>1
  <2>3. PICK k \in Message : k.kind = "CLOSE" /\ s = ClosingAsks(k) /\ Top(e).msg = k
    BY <1>7, <2>1
  <2>4. Below(s) = Closing
    BY <2>3, Frames
  <2>5. ASSUME NEW v, NEW r, TakeValue(e, v, r), m.load \in v \cup r PROVE Aborting'
    <3>1. SendKnowing(e, Rest(e), k, Closing, v, r)
      BY <2>2, <2>3, <2>4, <2>5 DEF TakeValue
    <3>2. k.load \in v \cup r /\ s = ClosingAsks(k)
      BY <2>2, <2>3, <2>5
    <3> HIDE DEF s
    <3> QED BY <1>1, <1>2, <2>2, <2>3, <3>1, <3>2, ChildSendsClose DEF e, p, s
  <2>6. CASE net' = Rest(e) /\ Raise(e, Below(s), "error") /\ UNCHANGED asked
    <3>1. Closing \in Seq(Frame) /\ Closing # <<>> /\ Closing[1].at = "closing"
          /\ \A i \in 1 .. Len(Closing) : Closing[i].at \notin Serving
      BY Frames
    <3>2. net'[p] = net[p] /\ Raise(e, Closing, "error")
      BY <1>2, <2>2, <2>4, <2>6
    <3> QED BY <1>1, <2>6, <3>1, <3>2, ChildRaises DEF e, p
  <2>7. \/ TakeValue(e, verified[e] \cup {m.load}, remote[e])
        \/ TakeValue(e, verified[e], remote[e] \cup {m.load})
        \/ net' = Rest(e) /\ Raise(e, Below(s), "error") /\ UNCHANGED asked
    BY <1>10 DEF TakeVerifyTypesResult, m
  <2> HIDE DEF s
  <2> QED BY <2>5, <2>6, <2>7
<1>11. CASE TakeError(e)
  <2>1. /\ Arrives(e, {"EXCEPTION", "REMOTE_ERROR", "GET_EXPOSED_ERROR", "CLOSE_CLOSED"})
        /\ net' = Rest(e) /\ asked' = asked /\ Raise(e, Answered(e, m), "error")
    BY <1>11 DEF TakeError, m
  <2>2. Waiting(e) /\ net[e] # <<>> /\ m.kind = "CLOSE_CLOSED"
    BY <1>7, <2>1
  <2>3. Answered(e, m) = s
    BY <2>2 DEF Answered, Answers
  <2> QED BY <1>2, <1>3, <2>1, <2>2, <2>3
<1>12. CASE TakeClose(e)
  <2>1. Arrives(e, {"CLOSE"}) /\ asked' = asked
    BY <1>12 DEF TakeClose
  <2>2. Waiting(e) /\ net[e] # <<>> /\ ~ Silent
    BY <1>7, <2>1
  <2>3. PICK k \in Message : k.kind = "CLOSE" /\ s = ClosingAsks(k)
    BY <1>7, <2>1
  <2> DEFINE w == Msg("CLOSE_CLOSED", Plain, 0)
             f == Wait("drain", 0)
             after == Append(ClosingAsks(k), f)
  <2>4. CASE open[p]
    <3>1. /\ net' = [Rest(e) EXCEPT ![p] = Append(@, w)] /\ UNCHANGED <<open, back>>
          /\ stack' = [stack EXCEPT ![e] = Append(@, f)]
      BY <1>1, <1>12, <2>4 DEF TakeClose
    <3>2. w \in Heard'
      <4>1. w \in Message /\ w.kind = "CLOSE_CLOSED" /\ ~ CarriesObject(w)
        BY RemotePipeAssumption DEF Msg, Message, Kind, Load, CarriesObject
      <4> QED BY <4>1 DEF Heard
    <3> HIDE DEF w
    <3>3. /\ stack'[e] = after /\ stack'[p] = stack[p] /\ net'[p] = Append(net[p], w)
          /\ net'[e] = Rest(e)[e]
      BY <1>1, <1>2, <2>2, <2>3, <3>1 DEF Typed
    <3>4. Len(s) > 1 /\ Len(after) > 1 /\ after[2] = s[2]
      <4>1. ClosingAsks(k) \in Seq(Frame) /\ Len(ClosingAsks(k)) = 2 /\ f \in Frame
        BY <1>1, Frames, WaitType DEF On
      <4> HIDE DEF f
      <4>2. /\ Len(after) = Len(ClosingAsks(k)) + 1
            /\ \A i \in 1 .. Len(ClosingAsks(k)) : after[i] = ClosingAsks(k)[i]
        BY <4>1, Pushed
      <4> HIDE DEF after
      <4> QED BY <2>3, <4>1, <4>2
    <3>5. ChildAborts'
      BY <1>1, <1>2, <2>2, <2>3, <3>3 DEF ChildAborts, e
    <3>6. Told \subseteq Told' /\ Heard \subseteq Heard'
      <4>1. open[e] /\ stack'[e][2] = s[2] /\ Len(stack'[e]) > 1
        BY <1>2, <2>2, <3>3, <3>4
      <4>2. Silent => Silent'
        BY <2>2
      <4> HIDE DEF after
      <4> QED BY <3>1, <3>4, <4>1, <4>2, Widening DEF e
    <3> HIDE DEF after
    <3>7. Rest(e)[e] \in Seq(Told) /\ open[e] /\ pc[e] = "close" /\ (Silent => Silent')
      BY <1>2, <2>2
    <3> QED BY <1>1, <2>1, <2>2, <3>1, <3>2, <3>3, <3>5, <3>6, <3>7, ChildActs DEF e, p
  <2>5. CASE ~ open[p]
    <3>1. net' = Rest(e) /\ Raise(e, s, "shutdown")
      BY <1>1, <1>12, <2>5 DEF TakeClose
    <3> QED BY <1>2, <1>3, <2>1, <2>2, <3>1
  <2> QED BY <2>4, <2>5
<1> QED BY <1>4, <1>5, <1>6, <1>8, <1>9, <1>10, <1>11, <1>12 DEF PipeStep, e

\* With its connection closed, what an end sends raises an error.
LEMMA SentShut ==
  ASSUME Typed, NEW e \in End, ~ open[e], NEW m, NEW s, NEW v, NEW r,
         SendKnowing(e, net, m, s, v, r)
  PROVE  /\ net' = net /\ asked' = asked /\ ~ open'[e]
         /\ open'[Peer(e)] = open[Peer(e)] /\ stack'[Peer(e)] = stack[Peer(e)]
         /\ back'[Peer(e)] = back[Peer(e)] \/ back \notin [End -> Back]
<1>1. net' = net /\ Raise(e, s, "error") /\ asked' = asked
  BY DEF SendKnowing
<1> QED BY <1>1, TwoEnds DEF Raise, Unwind, Typed

\* Neither a function nor the runner runs in the process of the build.
LEMMA NothingRuns ==
  ASSUME Aborting, open["parent"]
  PROVE  ~ Running("parent") /\ ~ InCall("parent") /\ ~ CallOfNone("parent")
<1> DEFINE s == stack["parent"]
<1>1. s # <<>> => Top("parent").at \notin Serving
  <2>1. CASE s \in {Receiving, Fetching, Closing}
    <3>1. Receiving[1].at = "receive" /\ Fetching[1].at = "answer" /\ Closing[1].at = "closing"
      BY Frames
    <3>2. Len(s) = 1
      BY <2>1, Frames
    <3> QED BY <2>1, <3>1, <3>2 DEF Top, Serving
  <2>2. CASE Len(s) = 2 /\ Final(Last(s))
    BY <2>2 DEF Final, Last, Top, Serving
  <2> QED BY <2>1, <2>2 DEF Aborting, ParentAborts, ParentWaits, VersionWaits
<1>2. s # <<>> \/ pc["parent"] # "run"
  <2>1. Receiving # <<>>
    BY Frames
  <2>2. CASE VersionWaits
    BY <2>1, <2>2 DEF VersionWaits
  <2>3. CASE ParentWaits
    BY <2>3, Frames, SMTT(30) DEF ParentWaits
  <2> QED BY <2>2, <2>3 DEF Aborting, ParentAborts
<1> QED BY <1>1, <1>2 DEF Running, InCall, CallOfNone, At, InProgram, Serving

\* What the program of the parent does with its waits over: it does not run the
\* tests, and goes on to close the connection.
LEMMA ParentProgram ==
  ASSUME Inv, Marked, Aborting,
         StartFailed \/ GetExposed \/ Exposed \/ RunEnds \/ ParentClose \/ ParentClosed \/ Join
  PROVE  Aborting'
<1> DEFINE p == "parent"
           c == "child"
<1>1. /\ p \in End /\ c \in End /\ Peer(p) = c /\ p # c /\ Typed
      /\ pc \in [End -> ParentPlace \cup ChildPlace] /\ back \in [End -> Back]
      /\ remote \in [End -> SUBSET Type] /\ Plain \notin Type /\ None \notin Type
      /\ Plain \notin Unpicklable /\ None \notin Unpicklable
  BY Types, RemotePipeAssumption DEF End, Peer, Inv, ProgramInv, PipeInv, Moving
<1>2. UNCHANGED <<started, exposed>> /\ InProgram(p)
  BY DEF StartFailed, GetExposed, Exposed, RunEnds, ParentClose, ParentClosed, Join, ToClose,
         Close, program, pipe, At
<1>3. pc'[c] = pc[c]
  BY <1>1 DEF StartFailed, GetExposed, Exposed, RunEnds, ParentClose, ParentClosed, Join, ToClose,
         Goto, program
<1>4. ASSUME open[p]
      PROVE  /\ ParentWaits /\ net[p] \in Seq(Heard) /\ CloseComesLast /\ pc[p] # "run"
             /\ pc[p] = "version" => asked[p] = 0
             /\ pc[p] = "fetch" => back[p] # "returned"
  <2>1. ~ VersionWaits /\ stack[p] = <<>>
    BY <1>2, Frames DEF VersionWaits, InProgram
  <2>2. ParentWaits /\ net[p] \in Seq(Heard) /\ CloseComesLast
    BY <1>4, <2>1 DEF Aborting, ParentAborts
  <2>3. <<>> \notin {Fetching, Closing} /\ Len(stack[p]) # 2
    BY <2>1, Frames
  <2> QED BY <2>1, <2>2, <2>3 DEF ParentWaits
<1>5. ASSUME UNCHANGED <<open, net, stack, asked>>, pc'[p] \in {"close", "end", "join"} \/ ~ open[p]
      PROVE  Aborting'
  <2>1. ASSUME open'[p] PROVE net'[p] \in Seq(Heard) /\ CloseComesLast' /\ ParentWaits'
    <3>1. open[p] /\ net[p] \in Seq(Heard) /\ CloseComesLast
      BY <1>4, <1>5, <2>1
    <3>2. stack'[p] = <<>> /\ pc'[p] \in {"close", "end", "join"}
      BY <1>2, <1>5, <3>1 DEF InProgram
    <3> QED BY <1>5, <3>1, <3>2 DEF ParentWaits, CloseComesLast
  <2> QED BY <1>2, <1>3, <1>5, <2>1, ParentActs
<1>6. CASE StartFailed \/ ParentClosed \/ Join
  <2>1. UNCHANGED <<open, net, stack, asked>> /\ pc'[p] \in {"end", "join"}
    BY <1>1, <1>6 DEF StartFailed, ParentClosed, Join, Goto, pipe
  <2> QED BY <1>5, <2>1
<1>7. CASE Exposed \/ RunEnds
  <2>1. UNCHANGED <<open, net, stack, asked>>
    BY <1>7 DEF Exposed, RunEnds, ToClose, pipe
  <2>2. pc'[p] = "close" \/ ~ open[p]
    <3>1. CASE pc'[p] = "run"
      <4>1. pc[p] = "fetch" /\ back[p] = "returned"
        BY <1>1, <1>7, <3>1 DEF Exposed, RunEnds, ToClose, Goto, At
      <4> QED BY <1>4, <4>1
    <3> QED BY <1>1, <1>7, <3>1 DEF Exposed, RunEnds, ToClose, Goto
  <2> QED BY <1>5, <2>1, <2>2
<1>8. CASE ParentClose
  <2> DEFINE m == Msg("CLOSE", None, 0)
             w == [m EXCEPT !.ref = m.load \in remote[p]]
  <2>1. open[p] /\ pc' = pc /\ pc[p] = "close"
        /\ SendKnowing(p, net, m, Closing, verified[p], remote[p])
    BY <1>8 DEF ParentClose, Close, Send, At, program, Closing
  <2>2. m \in Message /\ m.kind = "CLOSE" /\ m.load = None
    BY <1>1, ProgramMessage DEF Kind, Load
  <2>3. w \in Message /\ w.kind = "CLOSE" /\ w.load = None
    <3> HIDE DEF m
    <3> QED BY <2>2, SentByRef
  <2>4. w \in Told
    BY <1>1, <2>3 DEF Told, CarriesObject
  <2>5. Write(p, net, w, Closing, Closing) /\ UNCHANGED asked
    <3> HIDE DEF m
    <3> QED BY <1>1, <2>1, <2>2 DEF SendKnowing
  <2> HIDE DEF w
  <2>6. /\ open'[c] = open[c] /\ stack'[c] = stack[c]
        /\ open'[p] => open[p] /\ stack'[p] = Closing /\ net'[p] = net[p]
        /\ net'[c] = net[c] \/ net'[c] = Append(net[c], w)
    <3>1. Closing \in Seq(Frame) /\ \A i \in 1 .. Len(Closing) : Closing[i].at \notin Serving
      BY Frames
    <3> QED BY <1>1, <2>3, <2>5, <3>1, ParentWrites DEF Typed
  <2>7. ASSUME open'[p] PROVE net'[p] \in Seq(Heard) /\ CloseComesLast' /\ ParentWaits'
    BY <1>4, <2>6, <2>7 DEF ParentWaits, CloseComesLast
  <2> QED BY <1>2, <1>3, <2>4, <2>5, <2>6, <2>7, ParentActs
<1>9. CASE GetExposed
  <2> DEFINE m == Msg("GET_EXPOSED", Plain, 0)
             w == [m EXCEPT !.ref = m.load \in remote[p]]
             x == [w EXCEPT !.of = asked[p] + 1]
             after == Append(<<>>, [at |-> "answer", n |-> asked[p] + 1, msg |-> Nothing])
  <2>1. /\ pc[p] = "version" /\ pc'[p] = "fetch"
        /\ SendKnowing(p, net, m, <<>>, verified[p], remote[p])
    BY <1>1, <1>9 DEF GetExposed, At, Goto
  <2>2. CASE open[p]
    <3>1. asked[p] = 0 /\ asked[p] + 1 = 1
      BY <1>4, <2>1, <2>2
    <3>2. m \in Message /\ m.kind = "GET_EXPOSED" /\ m.load = Plain
      BY <1>1, ProgramMessage DEF Kind, Load
    <3>3. w \in Message /\ w.kind = "GET_EXPOSED" /\ w.load = Plain
      <4> HIDE DEF m
      <4> QED BY <3>2, SentByRef
    <3>4. Ask(p, net, w, <<>>, "answer", Nothing)
      <4> HIDE DEF m
      <4> QED BY <1>1, <2>1, <2>2, <3>2 DEF SendKnowing
    <3> HIDE DEF w
    <3>5. asked' = [asked EXCEPT ![p] = @ + 1] /\ Write(p, net, x, <<>>, after)
      BY <3>4 DEF Ask
    <3>6. x \in Message /\ x.kind = "GET_EXPOSED" /\ x.load = Plain /\ x.of = 1
      BY <3>1, <3>3 DEF Message
    <3>7. x \in Told
      BY <1>1, <3>6 DEF Told, CarriesObject
    <3> HIDE DEF x
    <3>8. after = Fetching
      BY <3>1 DEF Fetching, Wait
    <3> HIDE DEF after
    <3>9. /\ open'[c] = open[c] /\ stack'[c] = stack[c]
          /\ open'[p] => open[p] /\ stack'[p] = after /\ net'[p] = net[p]
          /\ net'[c] = net[c] \/ net'[c] = Append(net[c], x)
      <4>1. <<>> \in Seq(Frame) /\ \A i \in 1 .. Len(<<>>) : <<>>[i].at \notin Serving
        OBVIOUS
      <4> QED BY <1>1, <3>5, <3>6, <4>1, ParentWrites, ZenonT(30) DEF Typed
    <3>10. ASSUME open'[p] PROVE net'[p] \in Seq(Heard) /\ CloseComesLast' /\ ParentWaits'
      BY <1>4, <2>1, <3>8, <3>9, <3>10 DEF ParentWaits, CloseComesLast
    <3>11. asked'[c] = asked[c]
      BY <1>1, <3>5 DEF Typed
    <3> QED BY <1>2, <1>3, <3>7, <3>9, <3>10, <3>11, ParentActs
  <2>3. CASE ~ open[p]
    <3>1. /\ net' = net /\ asked' = asked /\ ~ open'[p]
          /\ open'[c] = open[c] /\ stack'[c] = stack[c]
      BY <1>1, <2>1, <2>3, SentShut
    <3> QED BY <1>2, <1>3, <3>1, ParentActs
  <2> QED BY <2>2, <2>3
<1> QED BY <1>6, <1>7, <1>8, <1>9

\* No function runs in the tool process.
LEMMA ChildServesNothing ==
  ASSUME Aborting, open["child"], stack["child"] # <<>>
  PROVE  Top("child").at \notin Serving
<1> DEFINE s == stack["child"]
<1>1. ChildAborts
  BY DEF Aborting
<1>2. CASE s = Closing
  <2>1. Top("child").at = "closing"
    BY <1>2, Frames DEF Top
  <2> QED BY <2>1 DEF Serving
<1>3. ASSUME NEW k \in Message, s = ClosingAsks(k) PROVE Top("child").at \notin Serving
  <2>1. ClosingAsks(k)[2].at = "verify" /\ Len(ClosingAsks(k)) = 2
    BY Frames
  <2>2. Top("child").at = "verify"
    BY <1>3, <2>1 DEF Top
  <2> QED BY <2>2 DEF Serving
<1>4. ASSUME NEW k \in Message, s = Append(ClosingAsks(k), Wait("drain", 0))
      PROVE  Top("child").at \notin Serving
  <2> DEFINE f == Wait("drain", 0)
  <2>1. ClosingAsks(k) \in Seq(Frame) /\ f \in Frame /\ f.at = "drain"
    BY Frames, WaitType DEF On, Wait, End
  <2> HIDE DEF f
  <2>2. Last(Append(ClosingAsks(k), f)) = f
    BY <2>1, Pushed DEF Last
  <2>3. Top("child").at = "drain"
    BY <1>4, <2>1, <2>2 DEF Top, Last, f
  <2> QED BY <2>3 DEF Serving
<1> QED BY <1>1, <1>2, <1>3, <1>4 DEF ChildAborts

\* A call, a return or an exception of an end: there is none, but with its
\* connection closed.
LEMMA AbortingApp ==
  ASSUME Inv, Marked, Aborting, NEW e \in End, AppStep(e)
  PROVE  Aborting'
<1>1. Typed /\ back \in [End -> Back] /\ "parent" \in End /\ "child" \in End
  BY Types DEF Inv, PipeInv, Moving, End
<1>2. UNCHANGED <<started, exposed>> /\ pc' = pc
  BY DEF AppStep, CallOther, Return, RaiseException, Call, Answer, program
<1>3. \E m, s : SendKnowing(e, net, m, s, verified[e], remote[e])
  BY DEF AppStep, CallOther, Return, RaiseException, Call, Answer, Send
<1>4. ~ open[e]
  <2>1. CASE e = "parent"
    BY <2>1, NothingRuns DEF AppStep, CallOther, Return, RaiseException
  <2>2. CASE e = "child" /\ open["child"]
    <3>1. stack["child"] # <<>> /\ Top("child").at \in Serving
      BY <2>2 DEF AppStep, CallOther, Return, RaiseException, Running, InCall, CallOfNone, Serving
    <3> QED BY <2>2, <3>1, ChildServesNothing
  <2> QED BY <2>1, <2>2 DEF End
<1>5. /\ net' = net /\ asked' = asked /\ ~ open'[e]
      /\ open'[Peer(e)] = open[Peer(e)] /\ stack'[Peer(e)] = stack[Peer(e)]
      /\ back'[Peer(e)] = back[Peer(e)]
  BY <1>1, <1>3, <1>4, SentShut
<1>6. CASE e = "parent"
  BY <1>2, <1>5, <1>6, ParentActs DEF Peer
<1>7. CASE e = "child"
  <2>1. pc["child"] \in {"close", "exited"}
    BY DEF Aborting
  <2> QED BY <1>2, <1>5, <1>7, <2>1, ChildGone DEF Peer
<1> QED BY <1>6, <1>7 DEF End

LEMMA Asked ==
  ASSUME NEW m \in Message
  PROVE  ClosingAsks(m) # <<>> /\ Append(ClosingAsks(m), Wait("drain", 0)) # <<>>
<1> DEFINE f == Wait("drain", 0)
           s == ClosingAsks(m)
<1>1. f \in Frame /\ s \in Seq(Frame) /\ Len(s) = 2
  BY Frames, WaitType DEF On, End
<1> HIDE DEF f, s
<1>2. s # <<>> /\ Append(s, f) # <<>>
  BY <1>1, AppendProperties, SMTT(30)
<1> QED BY <1>2 DEF f, s

\* The tool process closes the connection, and ends.
LEMMA ChildProgram ==
  ASSUME Inv, Marked, Aborting, ChildClose \/ ChildExits
  PROVE  Aborting'
<1> DEFINE c == "child"
<1>1. /\ c \in End /\ "parent" \in End /\ Typed
      /\ pc \in [End -> ParentPlace \cup ChildPlace]
      /\ remote \in [End -> SUBSET Type]
  BY Types DEF End, Inv, ProgramInv, PipeInv
<1>2. CASE ChildExits
  <2>1. /\ UNCHANGED <<started, exposed, open, stack, net, asked, back>> /\ ~ open[c]
        /\ pc'[c] = "exited" /\ pc'["parent"] = pc["parent"]
    BY <1>1, <1>2 DEF ChildExits, Goto, pipe
  <2> QED BY <2>1, ChildGone
<1>3. CASE ChildClose
  <2>1. PICK exc \in IF held[c] = "exception" THEN Exceptions[c] ELSE {None} : Close(c, exc)
    BY <1>3 DEF ChildClose
  <2> DEFINE k == Msg("CLOSE", exc, 0)
  <2>2. UNCHANGED <<started, exposed>> /\ pc' = pc /\ pc[c] = "close" /\ open[c] /\ stack[c] = <<>>
    BY <1>3, <2>1 DEF ChildClose, At, InProgram, Close
  <2>3. k \in Message /\ k.kind = "CLOSE"
    <3>1. exc \in Load
      BY <1>1, Sent DEF Load
    <3>2. "CLOSE" \in Kind /\ 0 \in Nat
      BY DEF Kind
    <3> QED BY <3>1, <3>2, ProgramMessage
  <2>4. SendKnowing(c, net, k, Closing, verified[c], remote[c])
    BY <2>1 DEF Close, Send, Closing
  <2>5. asked[c] = 0 /\ ~ Silent /\ net[c] \in Seq(Told)
    <3>1. ChildAborts /\ net[c] \in Seq(Told)
      BY <2>2 DEF Aborting
    <3>2. stack[c] # Closing
      BY <2>2, Frames
    <3>3. ASSUME NEW m \in Message
          PROVE  stack[c] # ClosingAsks(m) /\ stack[c] # Append(ClosingAsks(m), Wait("drain", 0))
      BY <2>2, Asked
    <3> QED BY <2>2, <3>1, <3>2, <3>3 DEF ChildAborts, Silent
  <2> HIDE DEF k, Silent
  <2>6. net \in [End -> Seq(Message)]
    BY <1>1 DEF Typed
  <2> QED BY <2>2, <2>3, <2>4, <2>5, <2>6, ChildSendsClose
<1> QED BY <1>2, <1>3

LEMMA AbortingStep ==
  ASSUME Inv, Marked, Aborting, [Next]_vars
  PROVE  Aborting'
<1>1. /\ Typed /\ back \in [End -> Back] /\ "parent" \in End /\ "child" \in End
      /\ pc \in [End -> ParentPlace \cup ChildPlace]
      /\ pc["child"] \in {"close", "exited"}
  BY Types DEF Inv, PipeInv, Moving, ProgramInv, End, Aborting
<1>2. CASE UNCHANGED vars
  <2>1. UNCHANGED <<open, net, stack, back, asked, exposed, pc, started>>
    BY <1>2 DEF vars, pipe, program
  <2> QED BY <2>1 DEF Aborting, Blank, ChildAborts, ParentAborts, ParentWaits, CloseComesLast,
                      VersionWaits, Told, Heard, Pending, Silent
<1>3. CASE ParentStep
  <2>1. CASE PipeStep("parent") /\ UNCHANGED <<program, calls, faults>>
    BY <2>1, ParentPipe
  <2>2. CASE AppStep("parent")
    BY <1>1, <2>2, AbortingApp
  <2> QED BY <1>3, <2>1, <2>2, ParentProgram DEF ParentStep
<1>4. CASE ChildStep
  <2>1. CASE PipeStep("child") /\ UNCHANGED <<program, calls, faults>>
    BY <2>1, ChildPipe
  <2>2. CASE AppStep("child")
    BY <1>1, <2>2, AbortingApp
  <2>3. ~ (SendVersion \/ StartTool \/ StartRaises \/ Listen \/ ServeEnds \/ StopTool \/ Stopped)
    BY <1>1 DEF SendVersion, StartTool, StartRaises, Listen, ServeEnds, StopTool, Stopped, At
  <2> QED BY <1>4, <2>1, <2>2, <2>3, ChildProgram DEF ChildStep
<1>5. CASE ExitCall
  <2>1. /\ InCall("child") /\ UNCHANGED <<program, net, asked, exposed>>
        /\ \E k : Unwind("child", Below(stack["child"]), k, "exit")
    BY <1>5 DEF ExitCall, Exit
  <2>2. ~ open["child"]
    BY <2>1, ChildServesNothing DEF InCall, Serving
  <2>3. /\ ~ open'["child"] /\ open'["parent"] = open["parent"]
        /\ stack'["parent"] = stack["parent"] /\ back'["parent"] = back["parent"]
    BY <1>1, <2>1, <2>2 DEF Unwind, Typed
  <2> QED BY <1>1, <2>1, <2>3, ChildGone DEF program
<1>6. ASSUME NEW e \in End, NotCallable(e) PROVE FALSE
  <2>1. Waiting(e) /\ net[e] # <<>> /\ First(e).kind = "CALL"
    BY <1>6 DEF NotCallable, ServeDud, Arrives, Received
  <2>2. CASE e = "parent"
    <3>1. First("parent") \in Heard \/ First("parent").kind = "PICKLE_VERSION"
      BY <2>1, <2>2, ParentReads
    <3> QED BY <2>1, <2>2, <3>1, HeardKinds
  <2>3. CASE e = "child"
    <3>1. First("child") \in Told
      BY <2>1, <2>3, ChildReads
    <3> QED BY <2>1, <2>3, <3>1, ToldKinds
  <2> QED BY <2>2, <2>3 DEF End
<1>7. CASE Die("parent")
  <2>1. /\ ~ open'["parent"] /\ open'["child"] = open["child"] /\ stack'["child"] = stack["child"]
        /\ pc'["child"] = pc["child"] /\ UNCHANGED <<net, asked, started, exposed>>
    BY <1>1, <1>7 DEF Die, Gone, Typed, Goto
  <2> QED BY <2>1, ParentActs
<1>8. CASE Die("child")
  <2>1. /\ ~ open'["child"] /\ open'["parent"] = open["parent"]
        /\ stack'["parent"] = stack["parent"]
        /\ pc'["child"] = "exited" /\ pc'["parent"] = pc["parent"]
        /\ UNCHANGED <<net, asked, started, exposed, back>>
    BY <1>1, <1>8 DEF Die, Gone, Typed, Goto
  <2> QED BY <2>1, ChildGone
<1>9. ~ StartExits
  BY <1>1 DEF StartExits, At
<1> QED BY <1>2, <1>3, <1>4, <1>5, <1>6, <1>7, <1>8, <1>9 DEF Next, Fault, Finished, End

LEMMA FetchingFrames ==
  /\ Formed(Fetching) /\ Asks(Fetching) = {1} /\ Debts(Fetching) = {} /\ Limited(Fetching, 1)
  /\ Last(Fetching).at = "answer" /\ Fetching # <<>>
<1> DEFINE f == Wait("answer", 1)
<1>1. /\ f \in Frame /\ f.at = "answer" /\ f.n = 1 /\ f.msg.kind = "CLOSE_CLOSED"
  <2>1. f \in On("parent")
    BY WaitType DEF End
  <2> QED BY <2>1 DEF On, Wait, Nothing, Msg
<1>2. Fetching = Append(<<>>, f) /\ <<>> \in Seq(Frame)
  BY DEF Fetching
<1> HIDE DEF f
<1>3. ~ Settles(f) /\ ~ Owes(f) /\ f.at \in Asking
  BY <1>1 DEF Settles, Owes, Serving, Asking
<1>4. Grows(<<>>, f)
  <2>1. Opens(<<>>, f)
    BY <1>1, <1>3 DEF Opens, OnWait, Begins, Serving
  <2> QED BY <2>1 DEF Grows
<1>5. Formed(Fetching)
  BY <1>1, <1>2, <1>4, EmptyStack, FormedPush
<1>6. Asks(Fetching) = {1} /\ Debts(Fetching) = {}
  <2>1. Asks(Fetching) = Asks(<<>>) \cup {1}
    BY <1>1, <1>2, <1>3, <1>5, AsksPush
  <2>2. Debts(Fetching) = Debts(<<>>)
    BY <1>1, <1>2, <1>3, <1>5, DebtsPush
  <2> QED BY <2>1, <2>2, EmptyStack
<1>7. Limited(Fetching, 1) /\ Last(Fetching).at = "answer" /\ Fetching # <<>>
  <2>1. Len(Fetching) = 1 /\ Fetching[1].at = "answer" /\ Fetching[1].n = 1 /\ Fetching # <<>>
        /\ Last(Fetching) = Fetching[1]
    BY Frames
  <2> QED BY <2>1 DEF Limited
<1> QED BY <1>5, <1>6, <1>7

LEMMA ReceivingFrames ==
  /\ Formed(Receiving) /\ Asks(Receiving) = {} /\ Debts(Receiving) = {}
  /\ \A n : Limited(Receiving, n)
  /\ Len(Receiving) = 1 /\ Last(Receiving).at = "receive" /\ Last(Receiving).n = 0
  /\ Receiving # <<>>
<1>1. /\ Receiving \in Seq(Frame) /\ Len(Receiving) = 1 /\ Receiving # <<>>
      /\ Last(Receiving).at = "receive" /\ Last(Receiving).n = 0
  BY Frames
<1> QED BY <1>1, Alone

\* When the child listens, or has left with all its tools started, one message
\* at most is under way, to the one that waits for it.
LEMMA EarlyFits ==
  ASSUME Marked, Early, Typed, Typed', pc["child"] = "start", UNCHANGED <<net, asked>>,
         open'["parent"] = open["parent"], stack'["parent"] = stack["parent"],
         open'["child"] => stack'["child"] = Receiving
  PROVE  Regular'
<1> DEFINE p == "parent"
           c == "child"
<1>1. /\ p \in End /\ c \in End /\ Peer(p) = c /\ Peer(c) = p /\ p # c
      /\ net'[p] = net[p] /\ net'[c] = net[c] /\ asked'[p] = asked[p]
      /\ net[p] \in Seq(Message) /\ net[c] \in Seq(Message)
  BY DEF End, Peer, Typed
<1>2. /\ Len(net[c]) <= 1
      /\ Flight(net[c], Answers) = {}
      /\ Flight(net[c], Requests) = IF net[c] = <<>> THEN {} ELSE {1}
      /\ \A i \in 1 .. Len(net[c]) : net[c][i].kind \notin {"CLOSE", "PICKLE_VERSION"}
  <2>1. CASE net[c] = <<>>
    BY <2>1, NoFlight
  <2>2. CASE Len(net[c]) = 1 /\ IsQuery(net[c][1])
    <3>1. net[c] # <<>> /\ Len(net[c]) <= 1
      BY <2>2
    <3>2. \A kinds : Flight(net[c], kinds) = Carries(net[c][1], kinds)
      BY <1>1, <3>1, OneFlight
    <3>3. net[c][1].kind = "GET_EXPOSED" /\ net[c][1].of = 1
      BY <2>2 DEF IsQuery
    <3>4. Carries(net[c][1], Answers) = {} /\ Carries(net[c][1], Requests) = {1}
      BY <3>3 DEF Carries, Answers, Requests
    <3> QED BY <2>2, <3>1, <3>2, <3>3, <3>4
  <2> QED BY <2>1, <2>2 DEF Early
<1>3. ASSUME open[p]
      PROVE  /\ Len(net[p]) <= 1
             /\ Flight(net[p], Answers) = {} /\ Flight(net[p], Requests) = {}
             /\ \A i \in 1 .. Len(net[p]) : net[p][i].kind = "PICKLE_VERSION"
             /\ net[p] # <<>> => VersionWaits /\ net[c] = <<>>
  <2>1. CASE net[p] = <<>>
    BY <2>1, NoFlight
  <2>2. CASE Len(net[p]) = 1 /\ IsVersion(net[p][1]) /\ VersionWaits /\ net[c] = <<>>
    <3>1. net[p] # <<>> /\ Len(net[p]) <= 1
      BY <2>2
    <3>2. \A kinds : Flight(net[p], kinds) = Carries(net[p][1], kinds)
      BY <1>1, <3>1, OneFlight
    <3>3. net[p][1].kind = "PICKLE_VERSION"
      BY <2>2 DEF IsVersion
    <3>4. Carries(net[p][1], Answers) = {} /\ Carries(net[p][1], Requests) = {}
      BY <3>3 DEF Carries, Answers, Requests
    <3> QED BY <2>2, <3>1, <3>2, <3>3, <3>4
  <2> QED BY <1>3, <2>1, <2>2 DEF Early
<1>4. ASSUME open[p]
      PROVE  /\ \/ stack[p] = Receiving /\ net[c] = <<>>
                \/ stack[p] = <<>> /\ net[p] = <<>> /\ net[c] = <<>>
                \/ stack[p] = Fetching /\ net[p] = <<>> /\ net[c] # <<>> /\ asked[p] = 1
             /\ Debts(stack[p]) = {} /\ Formed(stack[p]) /\ Limited(stack[p], asked[p])
             /\ Asks(stack[p]) = (IF net[c] = <<>> THEN {} ELSE {1})
             /\ stack[p] # <<>> => Last(stack[p]).at \in {"receive", "answer"}
  <2>1. \/ stack[p] = Receiving /\ net[c] = <<>>
        \/ stack[p] = <<>> /\ net[p] = <<>> /\ net[c] = <<>>
        \/ stack[p] = Fetching /\ net[p] = <<>> /\ net[c] # <<>> /\ asked[p] = 1
    BY <1>4 DEF Early, VersionWaits, VersionKnown, ExposedWaits
  <2>2. CASE stack[p] = Receiving /\ net[c] = <<>>
    BY <2>1, <2>2, ReceivingFrames
  <2>3. CASE stack[p] = <<>> /\ net[p] = <<>> /\ net[c] = <<>>
    BY <2>1, <2>3, EmptyStack
  <2>4. CASE stack[p] = Fetching /\ net[p] = <<>> /\ net[c] # <<>> /\ asked[p] = 1
    BY <2>1, <2>4, FetchingFrames
  <2> QED BY <2>1, <2>2, <2>3, <2>4
<1> HIDE DEF p, c
<1>5. ~ Runs(c)' /\ (Runs(p)' => open[p] /\ stack[p] = <<>> /\ net[p] = <<>> /\ net[c] = <<>>)
  <2>1. ~ Runs(c)'
    BY ReceivingFrames DEF Runs, Serving, c
  <2>2. Runs(p)' => open[p] /\ stack[p] = <<>>
    BY <1>4 DEF Runs, Serving, p
  <2> QED BY <1>4, <2>1, <2>2, ReceivingFrames, FetchingFrames
<1>6. Single'
  <2>1. /\ open'[p] => Len(net'[p]) <= 1 /\ (Runs(p)' => net'[p] = <<>>)
        /\ open'[c] => Len(net'[c]) <= 1 /\ (Runs(c)' => net'[c] = <<>>)
    BY <1>1, <1>2, <1>3, <1>5 DEF p
  <2>2. ~ (Busy(p)' /\ Busy(c)')
    <3>1. Busy(c)' => net[c] # <<>>
      BY <1>1, <1>5 DEF Busy
    <3>2. Busy(p)' => open[p] /\ (net[p] # <<>> \/ (stack[p] = <<>> /\ net[c] = <<>>))
      BY <1>1, <1>5 DEF Busy, p
    <3> QED BY <1>3, <3>1, <3>2
  <2>3. \A e \in End : e = p \/ e = c
    BY DEF End, p, c
  <2> QED BY <1>1, <2>1, <2>2, <2>3 DEF Single
<1>7. ASSUME open'[c] PROVE Fit(c)'
  <2>1. stack'[c] = Receiving
    BY <1>7 DEF c
  <2>2. Formed(stack'[c]) /\ Limited(stack'[c], asked'[c]) /\ Debts(stack'[c]) = {}
        /\ Asks(stack'[c]) = {} /\ stack'[c] # <<>> /\ Last(stack'[c]).at = "receive"
    BY <2>1, ReceivingFrames
  <2>3. Hushed(c)'
    BY <1>1, <1>2, <2>2 DEF Hushed, Final
  <2>4. Fresh(c)'
    BY <1>1, <1>2, <2>2 DEF Fresh
  <2>5. Due(c)' = {} /\ Owed(c)' = {}
    BY <1>1, <1>2, <1>3, <1>4 DEF Due, Owed, p
  <2>6. Pairing(Asks(stack[c]), Due(c), Owed(c))'
    BY <2>2, <2>5 DEF Pairing
  <2> QED BY <2>2, <2>3, <2>4, <2>6 DEF Fit
<1>8. ASSUME open'[p] PROVE Fit(p)'
  <2>1. open[p] /\ stack'[p] = stack[p]
    BY <1>8 DEF p
  <2>2. /\ Formed(stack'[p]) /\ Limited(stack'[p], asked'[p]) /\ Debts(stack'[p]) = {}
        /\ Asks(stack'[p]) = (IF net[c] = <<>> THEN {} ELSE {1})
        /\ stack'[p] # <<>> => ~ Final(Last(stack'[p]))
    BY <1>1, <1>4, <2>1 DEF Final
  <2>3. Hushed(p)'
    BY <1>1, <1>3, <2>1, <2>2 DEF Hushed
  <2>4. Fresh(p)'
    <3>1. ASSUME net[p] # <<>>
          PROVE  Len(stack'[p]) = 1 /\ Last(stack'[p]).at = "receive" /\ Last(stack'[p]).n = 0
      BY <1>3, <2>1, <3>1, ReceivingFrames DEF VersionWaits, p
    <3>2. \A i \in 1 .. Len(net[p]) : net[p] # <<>>
      OBVIOUS
    <3> QED BY <1>1, <2>2, <3>1, <3>2 DEF Fresh
  <2>5. Owed(p)' = {} /\ (Due(p)' = {} \/ Due(p)' = Asks(stack'[p]))
    <3>1. Due(p)' = IF open'[c] THEN Flight(net[c], Requests) ELSE {}
      BY <1>1, <1>3, <2>1 DEF Due
    <3>2. open'[c] => Debts(stack'[c]) = {}
      BY ReceivingFrames DEF c
    <3> QED BY <1>1, <1>2, <2>2, <3>1, <3>2 DEF Owed
  <2>6. Pairing(Asks(stack[p]), Due(p), Owed(p))'
    <3>1. Asks(stack'[p]) \in {{}, {1}}
      BY <2>2
    <3> QED BY <2>5, <3>1 DEF Pairing
  <2> QED BY <2>2, <2>3, <2>4, <2>6 DEF Fit
<1>9. \A e \in End : e = p \/ e = c
  BY DEF End, p, c
<1> QED BY <1>6, <1>7, <1>8, <1>9 DEF Regular

\* The parent, while the child starts its tools: it takes the version, and asks
\* for what is exposed.
LEMMA EarlyParent ==
  ASSUME Inv, Marked, Early, pc["child"] \in {"spawned", "start"},
         ParentStep \/ Die("parent") \/ NotCallable("parent")
  PROVE  Early' /\ started' = started /\ pc'["child"] = pc["child"]
<1> DEFINE p == "parent"
           c == "child"
<1>1. /\ p \in End /\ c \in End /\ Peer(p) = c /\ p # c /\ Typed
      /\ pc \in [End -> ParentPlace \cup ChildPlace] /\ back \in [End -> Back]
      /\ net[p] \in Seq(Message) /\ net[c] \in Seq(Message)
  BY Types DEF End, Peer, Inv, ProgramInv, PipeInv, Moving, Typed
<1>2. /\ UNCHANGED <<started, exposed>> /\ pc'[c] = pc[c]
  <2>1. ASSUME PipeStep(p) PROVE UNCHANGED exposed
    BY <2>1 DEF PipeStep, EndOfFile, GetProxyDef, LoadFails, LastReceived, ServeCall, ServeExposed,
           ServeProxyDef, ServeVerifyTypes, TakeAnswer, TakeVerifyTypesResult, TakeValue,
           TakeError, TakeClose
  <2>2. ASSUME AppStep(p) PROVE UNCHANGED <<started, exposed, pc>>
    BY <2>2 DEF AppStep, CallOther, Return, RaiseException, Call, Answer, program
  <2>3. ASSUME StartFailed \/ GetExposed \/ Exposed \/ RunEnds \/ ParentClose \/ ParentClosed \/ Join
        PROVE  UNCHANGED <<started, exposed>> /\ pc'[c] = pc[c]
    BY <1>1, <2>3 DEF StartFailed, GetExposed, Exposed, RunEnds, ParentClose, ParentClosed, Join,
         ToClose, Close, program, pipe, Goto
  <2>4. ASSUME Die(p) \/ NotCallable(p)
        PROVE  UNCHANGED <<started, exposed>> /\ pc'[c] = pc[c]
    BY <1>1, <2>4 DEF Die, NotCallable, ServeDud, Goto, program
  <2> QED BY <2>1, <2>2, <2>3, <2>4 DEF ParentStep, program
<1>3. ASSUME open'[c] = open[c], stack'[c] = stack[c], asked'[c] = asked[c],
             net'[c] = net[c], ~ open'[p]
      PROVE  Early'
  BY <1>2, <1>3 DEF Early, Blank
<1>4. CASE ~ open[p]
  <2>1. /\ open'[c] = open[c] /\ stack'[c] = stack[c] /\ asked'[c] = asked[c]
        /\ net'[c] = net[c] /\ ~ open'[p]
    <3>1. ASSUME NEW m, NEW s, NEW v, NEW r, SendKnowing(p, net, m, s, v, r)
          PROVE  /\ open'[c] = open[c] /\ stack'[c] = stack[c] /\ asked'[c] = asked[c]
                 /\ net'[c] = net[c] /\ ~ open'[p]
      BY <1>1, <1>4, <3>1, SentShut
    <3>2. CASE GetExposed
      BY <3>1, <3>2 DEF GetExposed
    <3>3. CASE AppStep(p)
      <4>1. \E m, s : SendKnowing(p, net, m, s, verified[p], remote[p])
        BY <3>3 DEF AppStep, CallOther, Return, RaiseException, Call, Answer, Send
      <4> QED BY <3>1, <4>1
    <3>4. ~ PipeStep(p) /\ ~ NotCallable(p) /\ ~ ParentClose
      BY <1>4 DEF PipeStep, EndOfFile, GetProxyDef, LoadFails, LastReceived, ServeCall, ServeExposed,
           ServeProxyDef, ServeVerifyTypes, TakeAnswer, TakeVerifyTypesResult, TakeError, TakeClose,
           Arrives, Received, Waiting, NotCallable, ServeDud, ParentClose
    <3>5. CASE StartFailed \/ Exposed \/ RunEnds \/ ParentClosed \/ Join
      BY <1>4, <3>5 DEF StartFailed, Exposed, RunEnds, ParentClosed, Join, ToClose, pipe
    <3>6. CASE Die(p)
      BY <1>1, <3>6 DEF Die, Gone, Typed
    <3> QED BY <3>2, <3>3, <3>4, <3>5, <3>6 DEF ParentStep
  <2> QED BY <1>2, <1>3, <2>1
<1>5. CASE Die(p)
  <2>1. /\ open'[c] = open[c] /\ stack'[c] = stack[c] /\ asked'[c] = asked[c]
        /\ net'[c] = net[c] /\ ~ open'[p]
    BY <1>1, <1>5 DEF Die, Gone, Typed
  <2> QED BY <1>2, <1>3, <2>1
<1>6. CASE open[p] /\ stack[p] = <<>> /\ ~ Die(p)
  <2>1. VersionKnown /\ pc[c] = "start" /\ net[c] = <<>> /\ net[p] = <<>>
    <3>1. Receiving # <<>> /\ Fetching # <<>>
      BY Frames
    <3> QED BY <1>6, <3>1 DEF Early, VersionWaits, ExposedWaits
  <2>2. GetExposed
    <3>1. ~ PipeStep(p) /\ ~ NotCallable(p)
      BY <1>6 DEF PipeStep, EndOfFile, GetProxyDef, LoadFails, LastReceived, ServeCall, ServeExposed,
           ServeProxyDef, ServeVerifyTypes, TakeAnswer, TakeVerifyTypesResult, TakeError, TakeClose,
           Arrives, Received, Waiting, NotCallable, ServeDud
    <3>2. ~ AppStep(p)
      BY <1>6, <2>1 DEF VersionKnown, AppStep, CallOther, Return, RaiseException, Running, InCall,
                        CallOfNone, At
    <3>3. ~ (StartFailed \/ Exposed \/ RunEnds \/ ParentClose \/ ParentClosed \/ Join)
      BY <2>1 DEF VersionKnown, StartFailed, Exposed, RunEnds, ParentClose, ParentClosed, Join, At
    <3> QED BY <1>6, <3>1, <3>2, <3>3 DEF ParentStep
  <2> DEFINE m == Msg("GET_EXPOSED", Plain, 0)
             w == [m EXCEPT !.ref = m.load \in remote[p]]
             x == [w EXCEPT !.of = asked[p] + 1]
             after == Append(<<>>, [at |-> "answer", n |-> asked[p] + 1, msg |-> Nothing])
  <2>3. /\ pc[p] = "version" /\ pc'[p] = "fetch"
        /\ SendKnowing(p, net, m, <<>>, verified[p], remote[p])
    BY <1>1, <2>2 DEF GetExposed, At, Goto
  <2>4. asked[p] = 0 /\ asked[p] + 1 = 1 /\ remote[p] \subseteq Type
    BY <1>1, <2>1 DEF VersionKnown, Inv, PipeInv
  <2>5. m \in Message /\ m.kind = "GET_EXPOSED" /\ m.load = Plain
        /\ Plain \notin Type /\ Plain \notin Unpicklable
    BY <1>1, ProgramMessage, RemotePipeAssumption DEF Kind, Load
  <2>6. w \in Message /\ w.kind = "GET_EXPOSED" /\ w.load = Plain
    <3> HIDE DEF m
    <3> QED BY <2>5, SentByRef
  <2>7. Ask(p, net, w, <<>>, "answer", Nothing)
    <3> HIDE DEF m
    <3> QED BY <1>1, <1>6, <2>3, <2>4, <2>5 DEF SendKnowing
  <2> HIDE DEF w
  <2>8. asked' = [asked EXCEPT ![p] = @ + 1] /\ Write(p, net, x, <<>>, after)
    BY <2>7 DEF Ask
  <2>9. x.kind = "GET_EXPOSED" /\ x.load = Plain /\ x.of = 1 /\ x \in Message
    BY <2>4, <2>6 DEF Message
  <2> HIDE DEF x
  <2>10. after = Fetching
    BY <2>4 DEF Fetching, Wait
  <2> HIDE DEF after
  <2>11. open[c]
    BY DEF Early
  <2>12. /\ net' = [net EXCEPT ![c] = Append(@, x)] /\ stack' = [stack EXCEPT ![p] = after]
         /\ open' = open
    BY <1>1, <2>8, <2>11 DEF Write
  <2>13. /\ net'[c] = Append(<<>>, x) /\ net'[p] = <<>> /\ stack'[p] = Fetching
         /\ stack'[c] = stack[c] /\ asked'[p] = 1 /\ asked'[c] = asked[c]
    BY <1>1, <2>1, <2>4, <2>8, <2>10, <2>12 DEF Typed
  <2>14. Len(net'[c]) = 1 /\ net'[c][1] = x /\ net'[c] # <<>>
    BY <2>13
  <2>15. IsQuery(net'[c][1]) /\ ExposedWaits'
    BY <2>3, <2>9, <2>13, <2>14 DEF IsQuery, ExposedWaits
  <2> QED BY <1>2, <2>1, <2>12, <2>13, <2>14, <2>15 DEF Early, Blank
<1>7. CASE open[p] /\ stack[p] # <<>> /\ ~ Die(p)
  <2>1. \/ VersionWaits /\ net[c] = <<>>
           /\ (net[p] = <<>> \/ (IsVersion(net[p][1]) /\ Len(net[p]) = 1))
        \/ ExposedWaits /\ net[p] = <<>>
    BY <1>7 DEF Early, VersionKnown
  <2>2. stack[p] \in {Receiving, Fetching} /\ Top(p).at \in {"receive", "answer"}
    <3>1. stack[p] \in {Receiving, Fetching}
      BY <2>1 DEF VersionWaits, ExposedWaits
    <3>2. Len(stack[p]) = 1 /\ Receiving[1].at = "receive" /\ Fetching[1].at = "answer"
      BY <3>1, Frames
    <3> QED BY <3>1, <3>2 DEF Top
  <2>3. (PipeStep(p) \/ NotCallable(p)) /\ UNCHANGED program
    <3>1. ~ AppStep(p)
      BY <1>7, <2>2 DEF AppStep, CallOther, Return, RaiseException, Running, InCall,
                        CallOfNone, At, InProgram
    <3>2. ~ (StartFailed \/ GetExposed \/ Exposed \/ RunEnds \/ ParentClose \/ ParentClosed \/ Join)
      BY <1>7 DEF StartFailed, GetExposed, Exposed, RunEnds, ParentClose, ParentClosed, Join, At,
                  InProgram
    <3> QED BY <1>7, <3>1, <3>2 DEF ParentStep, NotCallable
  <2>4. Waiting(p) /\ ~ EndOfFile(p) /\ net[p] # <<>>
    <3>1. ~ EndOfFile(p)
      BY <1>1 DEF EndOfFile, Early
    <3> QED BY <2>3, <3>1 DEF PipeStep, GetProxyDef, LoadFails, LastReceived, ServeCall, ServeExposed,
           ServeProxyDef, ServeVerifyTypes, TakeAnswer, TakeVerifyTypesResult, TakeError, TakeClose,
           Arrives, Received, NotCallable, ServeDud
  <2>5. VersionWaits /\ net[c] = <<>> /\ Len(net[p]) = 1 /\ Head(net[p]) = net[p][1]
        /\ Tail(net[p]) = <<>> /\ IsVersion(Head(net[p]))
    <3>1. VersionWaits /\ net[c] = <<>> /\ Len(net[p]) = 1 /\ IsVersion(net[p][1])
      BY <2>1, <2>4
    <3>2. Len(net[p]) <= 1
      BY <3>1
    <3> QED BY <1>1, <2>4, <3>1, <3>2, OneFlight
  <2>6. /\ First(p).kind = "PICKLE_VERSION" /\ ~ CarriesObject(First(p))
        /\ First(p).load # None
    <3>1. First(p).kind = "PICKLE_VERSION" /\ ~ CarriesObject(First(p))
      BY <2>4, <2>5, VersionKind DEF First
    <3>2. First(p).load = Plain
      <4>1. Head(net[p]) \in Bids(p)
        BY <1>1, <2>4, HeadTailProperties DEF Marked
      <4> QED BY <3>1, <4>1 DEF Bids, First
    <3> QED BY <3>1, <3>2, RemotePipeAssumption
  <2>7. TakeAnswer(p)
    BY <2>2, <2>3, <2>4, <2>6 DEF PipeStep, GetProxyDef, LoadFails, LastReceived, ServeCall,
         ServeExposed, ServeProxyDef, ServeVerifyTypes, TakeVerifyTypesResult, TakeError, TakeClose,
         Arrives, NotCallable, ServeDud, UnknownProxy, Unloadable
  <2>8. stack[p] = Receiving /\ Len(stack[p]) = 1 /\ Below(stack[p]) = <<>>
    BY <2>5, Frames DEF VersionWaits
  <2>9. /\ net' = Rest(p) /\ stack' = [stack EXCEPT ![p] = Below(@)]
        /\ back' = [back EXCEPT ![p] = "returned"] /\ UNCHANGED <<open, asked>>
    <3>1. TakeValue(p, verified[p], remote[p])
      BY <2>7 DEF TakeAnswer
    <3>2. ~ (Len(stack[p]) > 1)
      BY <2>8
    <3> QED BY <2>2, <2>6, <3>1, <3>2 DEF TakeValue
  <2>10. /\ net'[p] = <<>> /\ net'[c] = <<>> /\ stack'[p] = <<>> /\ stack'[c] = stack[c]
         /\ back'[p] = "returned"
    BY <1>1, <2>5, <2>8, <2>9 DEF Rest, Typed
  <2>11. pc'[p] = pc[p]
    BY <2>3 DEF program
  <2>12. VersionKnown' /\ pc[c] = "start"
    <3>1. pc[c] = "start"
      BY <1>7, <2>4, <2>5 DEF Early, VersionKnown, ExposedWaits
    <3> QED BY <2>5, <2>9, <2>10, <2>11, <3>1 DEF VersionKnown, VersionWaits
  <2> QED BY <1>2, <2>9, <2>10, <2>12 DEF Early, Blank
<1> QED BY <1>2, <1>4, <1>5, <1>6, <1>7

\* A tool that is not started, or the end of the process before the last one is,
\* leaves the parent where it can be while the child closes.
LEMMA EarlyEnds ==
  ASSUME Marked, Early, Typed, started < Tools, UNCHANGED <<net, asked, exposed, started>>,
         open'["parent"] = open["parent"], stack'["parent"] = stack["parent"],
         pc'["parent"] = pc["parent"], back'["parent"] = back["parent"],
         \/ pc'["child"] = "exited" /\ ~ open'["child"]
         \/ pc["child"] = "start" /\ pc'["child"] = "close" /\ stack'["child"] = <<>>
  PROVE  Aborting'
<1> DEFINE p == "parent"
           c == "child"
<1>1. /\ p \in End /\ c \in End /\ net' = net /\ asked' = asked
      /\ net[p] \in Seq(Message) /\ net[c] \in Seq(Message)
  BY DEF End, Typed
<1>2. Blank' /\ started' < Tools /\ pc'[c] \in {"close", "exited"}
  BY DEF Early, Blank
<1>3. open'[c] => ChildAborts'
  BY DEF Early, ChildAborts
<1>4. net'[c] \in Seq(Told')
  <2>1. CASE net[c] = <<>>
    BY <1>1, <2>1
  <2>2. CASE Len(net[c]) = 1 /\ IsQuery(net[c][1])
    <3> DEFINE x == net[c][1]
    <3>1. x \in Message /\ x.kind = "GET_EXPOSED" /\ x.of = 1 /\ x.load = Plain
      BY <1>1, <2>2 DEF IsQuery
    <3>2. net[c] = <<x>>
      BY <1>1, <2>2
    <3> HIDE DEF x
    <3>3. x \in Told'
      BY <3>1, RemotePipeAssumption DEF Told, CarriesObject
    <3> QED BY <1>1, <3>2, <3>3
  <2> QED BY <2>1, <2>2 DEF Early
<1>5. ASSUME open'[p] PROVE ParentAborts'
  <2>1. CASE VersionWaits /\ net[p] = <<>> /\ pc[c] = "spawned"
    <3>1. VersionWaits' /\ ~ open'[c] /\ CloseComesLast'
      BY <1>1, <2>1 DEF VersionWaits, CloseComesLast
    <3> QED BY <1>1, <2>1, <3>1 DEF ParentAborts
  <2>2. CASE VersionWaits /\ Len(net[p]) = 1 /\ IsVersion(net[p][1])
    <3>1. net[p] # <<>> /\ Len(net[p]) <= 1
      BY <2>2
    <3>2. Head(net[p]) = net[p][1] /\ Tail(net[p]) = <<>>
      BY <1>1, <3>1, OneFlight
    <3>3. VersionWaits' /\ CloseComesLast'
      BY <1>1, <2>2 DEF VersionWaits, CloseComesLast, IsVersion
    <3>4. Tail(net'[p]) \in Seq(Heard')
      <4>1. Tail(net'[p]) = <<>>
        BY <1>1, <3>2
      <4>2. <<>> \in Seq(Heard')
        OBVIOUS
      <4> QED BY <4>1, <4>2
    <3> QED BY <1>1, <2>2, <3>1, <3>2, <3>3, <3>4 DEF ParentAborts
  <2>3. CASE (VersionKnown \/ ExposedWaits) /\ net[p] = <<>>
    <3>1. ParentWaits'
      BY <1>1, <2>3 DEF VersionKnown, ExposedWaits, ParentWaits
    <3>2. net'[p] \in Seq(Heard') /\ CloseComesLast'
      BY <1>1, <2>3 DEF CloseComesLast
    <3> QED BY <3>1, <3>2 DEF ParentAborts
  <2> QED BY <1>5, <2>1, <2>2, <2>3 DEF Early
<1> QED BY <1>2, <1>3, <1>4, <1>5 DEF Aborting

\* The tool process, until it listens or closes the connection.
LEMMA EarlyChild ==
  ASSUME Inv, Inv', Marked, Early, pc["child"] \in {"spawned", "start"},
         ChildStep \/ StartExits \/ ExitCall \/ Die("child") \/ NotCallable("child")
  PROVE  Ordered'
<1> DEFINE p == "parent"
           c == "child"
<1>1. /\ p \in End /\ c \in End /\ Peer(c) = p /\ p # c /\ Typed
      /\ pc \in [End -> ParentPlace \cup ChildPlace] /\ back \in [End -> Back]
      /\ started \in Nat /\ Tools \in Nat /\ started <= Tools /\ started' <= Tools
      /\ open[c] /\ stack[c] = <<>>
  BY Types, RemoteToolAssumption DEF End, Peer, Inv, ProgramInv, PipeInv, Moving, Early
<1>2. Typed'
  BY DEF Inv, PipeInv, Moving, Nets, Stacks, Typed
<1>3. ASSUME started < Tools, UNCHANGED <<net, asked, exposed, started>>,
             open'[p] = open[p], stack'[p] = stack[p], pc'[p] = pc[p], back'[p] = back[p],
             \/ pc'[c] = "exited" /\ ~ open'[c]
             \/ pc[c] = "start" /\ pc'[c] = "close" /\ stack'[c] = <<>>
      PROVE  Ordered'
  <2>1. Aborting'
    BY <1>1, <1>3, EarlyEnds
  <2> QED BY <1>3, <2>1 DEF Ordered, Starting
<1>4. ASSUME pc[c] = "start", started' = Tools, UNCHANGED <<net, asked>>,
             open'[p] = open[p], stack'[p] = stack[p], open'[c] => stack'[c] = Receiving,
             pc'[c] \notin {"spawned", "start"}
      PROVE  Ordered'
  <2>1. Regular'
    BY <1>1, <1>2, <1>4, EarlyFits
  <2>2. ~ Starting'
    BY <1>1, <1>4 DEF Starting
  <2> QED BY <2>1, <2>2 DEF Ordered
<1>5. CASE SendVersion
  <2> DEFINE m == Msg("PICKLE_VERSION", Plain, 0)
  <2>1. /\ pc[c] = "spawned" /\ Write(c, net, m, <<>>, <<>>)
        /\ UNCHANGED <<asked, exposed, started>>
        /\ pc' = [pc EXCEPT ![c] = IF open[p] THEN "start" ELSE "exited"]
    BY <1>5 DEF SendVersion, At, Goto
  <2>2. started < Tools
    BY <2>1 DEF Early
  <2>3. m.kind = "PICKLE_VERSION" /\ m \in Message
    BY ProgramMessage DEF Kind, Load
  <2> HIDE DEF m
  <2>4. CASE open[p]
    <3>1. /\ net' = [net EXCEPT ![p] = Append(@, m)] /\ stack' = [stack EXCEPT ![c] = <<>>]
          /\ UNCHANGED <<open, back>> /\ pc'[c] = "start" /\ pc'[p] = pc[p]
      BY <1>1, <2>1, <2>4 DEF Write
    <3>2. VersionWaits /\ net[c] = <<>> /\ net[p] = <<>>
      BY <2>1, <2>4 DEF Early
    <3>3. /\ net'[p] = Append(<<>>, m) /\ net'[c] = <<>> /\ stack'[c] = <<>> /\ stack'[p] = stack[p]
      BY <1>1, <3>1, <3>2 DEF Typed
    <3>4. Len(net'[p]) = 1 /\ net'[p][1] = m
      BY <3>3
    <3>5. VersionWaits' /\ IsVersion(net'[p][1])
      BY <2>1, <2>3, <3>1, <3>2, <3>3, <3>4 DEF VersionWaits, IsVersion
    <3>6. Early'
      BY <2>1, <3>1, <3>3, <3>4, <3>5 DEF Early, Blank
    <3> QED BY <3>1, <3>6 DEF Ordered, Starting
  <2>5. CASE ~ open[p]
    <3>1. net' = net /\ Raise(c, <<>>, "shutdown") /\ pc'[c] = "exited" /\ pc'[p] = pc[p]
      BY <1>1, <2>1, <2>5 DEF Write
    <3>2. ~ open'[c] /\ open'[p] = open[p] /\ stack'[p] = stack[p] /\ back'[p] = back[p]
      <4>1. <<>> \in Seq(Frame) /\ \A i \in 1 .. Len(<<>>) : <<>>[i].at \notin Serving
        OBVIOUS
      <4> QED BY <1>1, <3>1, <4>1, RaisedThrough
    <3> QED BY <1>3, <2>1, <2>2, <3>1, <3>2
  <2> QED BY <2>4, <2>5
<1>6. CASE StartTool
  <2>1. /\ pc[c] = "start" /\ pc' = pc /\ started < Tools /\ started' = started + 1
        /\ UNCHANGED <<open, net, stack, asked, back>>
        /\ started + 1 < Tools => UNCHANGED exposed
    BY <1>6 DEF StartTool, At
  <2>2. Blank'
    BY <1>1, <2>1 DEF Early, Blank
  <2>3. Early'
    BY <2>1, <2>2 DEF Early, VersionWaits, VersionKnown, ExposedWaits
  <2> QED BY <2>1, <2>3 DEF Ordered, Starting
<1>7. CASE StartRaises \/ StartExits
  <2>1. /\ pc[c] = "start" /\ started < Tools /\ UNCHANGED <<open, net, stack, asked, exposed, started>>
        /\ pc' = [pc EXCEPT ![c] = "close"] /\ back' = [back EXCEPT ![c] = "returned"]
    BY <1>1, <1>7 DEF StartRaises, StartExits, At, ToClose, Goto
  <2> QED BY <1>1, <1>3, <2>1
<1>8. CASE Listen
  <2>1. /\ pc[c] = "start" /\ started = Tools /\ UNCHANGED <<open, net, asked, started>>
        /\ pc'[c] = "serve" /\ stack' = [stack EXCEPT ![c] = Receiving]
    BY <1>1, <1>8 DEF Listen, At, Receive, Goto, Receiving
  <2> QED BY <1>1, <1>4, <2>1 DEF Typed
<1>9. CASE Die(c)
  <2>1. /\ ~ open'[c] /\ open'[p] = open[p] /\ stack'[p] = stack[p]
        /\ pc'[c] = "exited" /\ pc'[p] = pc[p]
        /\ UNCHANGED <<net, asked, started, exposed, back>>
    BY <1>1, <1>9 DEF Die, Gone, Typed, Goto
  <2>2. CASE started < Tools
    BY <1>3, <2>1, <2>2
  <2>3. CASE started = Tools
    <3>1. pc[c] = "start"
      BY <1>1, <2>3 DEF Early
    <3> QED BY <1>4, <2>1, <2>3, <3>1
  <2> QED BY <1>1, <2>2, <2>3
<1>10. ~ PipeStep(c) /\ ~ NotCallable(c) /\ ~ ExitCall /\ ~ AppStep(c)
  <2>1. ~ Waiting(c) /\ ~ InCall(c) /\ ~ CallOfNone(c)
    BY <1>1 DEF Waiting, InCall, CallOfNone
  <2> QED BY <2>1 DEF PipeStep, EndOfFile, GetProxyDef, LoadFails, LastReceived, ServeCall,
           ServeExposed, ServeProxyDef, ServeVerifyTypes, TakeAnswer, TakeVerifyTypesResult,
           TakeError, TakeClose, Arrives, Received, NotCallable, ServeDud, ExitCall, AppStep,
           CallOther, Return, RaiseException, Running
<1>11. ~ (ServeEnds \/ StopTool \/ Stopped \/ ChildClose \/ ChildExits)
  BY DEF ServeEnds, StopTool, Stopped, ChildClose, ChildExits, At
<1> QED BY <1>5, <1>6, <1>7, <1>8, <1>9, <1>10, <1>11 DEF ChildStep

LEMMA EarlyStep ==
  ASSUME Inv, Inv', Marked, Early, pc["child"] \in {"spawned", "start"}, [Next]_vars
  PROVE  Ordered'
<1>1. CASE UNCHANGED vars
  <2>1. UNCHANGED <<open, net, stack, back, asked, exposed, pc, started>>
    BY <1>1 DEF vars, pipe, program
  <2>2. Early'
    BY <2>1 DEF Early, Blank, VersionWaits, VersionKnown, ExposedWaits
  <2> QED BY <2>1, <2>2 DEF Ordered, Starting
<1>2. CASE ParentStep \/ Die("parent") \/ NotCallable("parent")
  <2>1. Early' /\ pc'["child"] = pc["child"]
    BY <1>2, EarlyParent
  <2> QED BY <2>1 DEF Ordered, Starting
<1>3. CASE ChildStep \/ StartExits \/ ExitCall \/ Die("child") \/ NotCallable("child")
  BY <1>3, EarlyChild
<1> QED BY <1>1, <1>2, <1>3 DEF Next, Fault, Finished, End

LEMMA InitialOrder ==
  Init => Ordered
<1> SUFFICES ASSUME Init PROVE Ordered
  OBVIOUS
<1> USE DEF Init, PipeInit
<1>1. /\ stack["parent"] = Receiving /\ stack["child"] = <<>> /\ net["parent"] = <<>>
      /\ net["child"] = <<>> /\ open["child"] /\ asked["child"] = 0 /\ asked["parent"] = 0
      /\ pc["child"] = "spawned" /\ pc["parent"] = "version" /\ started = 0
  BY DEF End, Receiving
<1>2. 0 < Tools
  BY RemoteToolAssumption
<1>3. Blank
  BY DEF Blank, Msg, End
<1>4. VersionWaits
  BY <1>1 DEF VersionWaits
<1>5. Early
  BY <1>1, <1>2, <1>3, <1>4 DEF Early
<1> QED BY <1>1, <1>5 DEF Ordered, Starting

LEMMA OrderedStep ==
  ASSUME Inv, Inv', Marked, Ordered, [Next]_vars
  PROVE  Ordered'
<1>1. CASE ~ Starting
  <2>1. ~ Starting'
    BY <1>1, LaterNotStarting
  <2>2. spoiled' \/ Regular'
    BY <1>1, StaysSpoiled, RegularStep DEF Ordered
  <2> QED BY <2>1, <2>2 DEF Ordered
<1>2. CASE Starting /\ pc["child"] \in {"spawned", "start"}
  BY <1>2, EarlyStep DEF Ordered
<1>3. CASE Starting /\ pc["child"] \notin {"spawned", "start"}
  <2>1. Aborting
    BY <1>3 DEF Ordered
  <2>2. Aborting'
    BY <2>1, AbortingStep
  <2> QED BY <2>2 DEF Ordered, Starting, Aborting
<1> QED BY <1>1, <1>2, <1>3

\* Whatever the phase, an answer that comes first is that of the innermost wait.
LEMMA OrderedOwn ==
  ASSUME Inv, Marked, Ordered, NEW e \in End
  PROVE  spoiled \/ Own(e)
<1>1. Typed
  BY Types DEF Inv
<1>2. CASE ~ Starting
  BY <1>1, <1>2, RegularOwn DEF Ordered
<1>3. SUFFICES ASSUME Starting, Received(e), Top(e).at \notin {"closing", "drain"},
                      First(e).kind \in Answers \cup {"PICKLE_VERSION"}
               PROVE  First(e).of = Top(e).n
  BY <1>2 DEF Own
<1>4. Waiting(e) /\ net[e] # <<>>
  BY <1>3 DEF Received
<1>5. CASE Early
  <2>1. e = "parent"
    BY <1>4, <1>5 DEF Early, Waiting, End
  <2>2. stack[e] = Receiving /\ Len(net[e]) = 1 /\ IsVersion(net[e][1])
    BY <1>4, <1>5, <2>1 DEF Early, Waiting, VersionWaits
  <2>3. Head(net[e]) = net[e][1]
    <3>1. Len(net[e]) <= 1 /\ net[e] \in Seq(Message)
      BY <1>1, <2>2 DEF Typed
    <3> QED BY <1>4, <3>1, OneFlight
  <2>4. First(e).of = 0
    BY <1>4, <2>1, <2>2, <2>3, VersionKind DEF First
  <2>5. Top(e).n = 0
    BY <2>2, Frames DEF Top
  <2> QED BY <2>4, <2>5
<1>6. CASE Aborting /\ e = "parent"
  <2> DEFINE m == First("parent")
  <2>1. \/ VersionWaits /\ m.kind = "PICKLE_VERSION"
        \/ m \in Heard /\ stack["parent"] = Fetching
        \/ stack["parent"] = Closing
    BY <1>4, <1>6, ParentReads
  <2>2. CASE VersionWaits /\ m.kind = "PICKLE_VERSION"
    <3>1. m.of = 0
      BY <1>4, <1>6, <2>2, VersionKind DEF First, IsVersion
    <3>2. Top(e).n = 0
      BY <1>6, <2>2, Frames DEF Top, VersionWaits
    <3> QED BY <1>6, <3>1, <3>2
  <2>3. CASE m \in Heard /\ stack["parent"] = Fetching
    <3>1. m.of = 1
      <4> HIDE DEF m
      <4>1. m.kind \in Answers \cup {"PICKLE_VERSION"}
        BY <1>3, <1>6 DEF m
      <4> QED BY <2>3, <4>1, HeardKinds DEF Answers
    <3>2. Top(e).n = 1
      BY <1>6, <2>3, Frames DEF Top
    <3> QED BY <1>6, <3>1, <3>2
  <2>4. CASE stack["parent"] = Closing
    <3>1. Top(e).at = "closing"
      BY <1>6, <2>4, Frames DEF Top
    <3> QED BY <1>3, <3>1
  <2> QED BY <2>1, <2>2, <2>3, <2>4
<1>7. CASE Aborting /\ e = "child"
  <2> DEFINE m == First("child")
  <2>1. PICK k \in Message : stack["child"] = ClosingAsks(k)
    BY <1>3, <1>4, <1>7, ChildReads
  <2>2. m \in Told
    BY <1>4, <1>7, ChildReads
  <2>3. m.of = 1
    <3> HIDE DEF m
    <3>1. m.kind \in Answers \cup {"PICKLE_VERSION"}
      BY <1>3, <1>7 DEF m
    <3>2. m.kind = "VERIFY_TYPES_RESULT" /\ Pending(m)
      BY <2>2, <3>1, ToldKinds DEF Answers
    <3> QED BY <3>2 DEF Pending
  <2>4. Top(e).n = 1
    <3>1. Len(ClosingAsks(k)) = 2 /\ ClosingAsks(k)[2].n = 1
      BY Frames
    <3> QED BY <1>7, <2>1, <3>1 DEF Top
  <2> QED BY <1>7, <2>3, <2>4
<1> QED BY <1>3, <1>5, <1>6, <1>7 DEF Ordered, End

\* Of the calls of the two ends, the verifications of classes and the
\* definitions of proxies that they make on the way, however they nest and
\* whoever fails or closes meanwhile: each takes the answer that was given to
\* it, though _recv pairs answers and requests by their order alone - unless a
\* request was given up before its answer came or an object was not callable.
THEOREM AnswersAreOwn ==
  Spec => []AnswerIsOwn
<1>1. Init => Marked /\ Parting /\ Ordered /\ ~ misread
  <2>1. Init => ~ misread
    BY DEF Init, PipeInit
  <2> QED BY <2>1, InitialMarks, InitialOrder
<1>2. Inv /\ Inv' /\ Marked /\ Parting /\ Ordered /\ ~ misread /\ [Next]_vars
        => Marked' /\ Parting' /\ Ordered' /\ ~ misread'
  <2> SUFFICES ASSUME Inv, Inv', Marked, Parting, Ordered, ~ misread, [Next]_vars
               PROVE  Marked' /\ Parting' /\ Ordered' /\ ~ misread'
    OBVIOUS
  <2>1. Marked' /\ Parting'
    BY MarkedInductive
  <2>2. Ordered'
    BY OrderedStep
  <2>3. misread' = misread
    BY OrderedOwn, StepReads
  <2> QED BY <2>1, <2>2, <2>3
<1>3. ~ misread => AnswerIsOwn
  BY DEF AnswerIsOwn
<1> QED BY <1>1, <1>2, <1>3, Invariance, PTL DEF Spec
----------------------------------------------------------------------------
(* What a step of an end does to its frames *)

Apart(e) ==
  /\ open'[Peer(e)] = open[Peer(e)] /\ stack'[Peer(e)] = stack[Peer(e)]
  /\ back'[Peer(e)] = back[Peer(e)]

\* The frames of e, with the wait or the function on top of them or without.
Holds(e, s) == s = stack[e] \/ (stack[e] # <<>> /\ s = Below(stack[e]))

\* A frame that may be put on s.
Puts(e, s, f) ==
  /\ f.at \notin {"receive", "closing"}
  /\ f.at \in Serving => open[e] /\ net[e] # <<>> /\ First(e).kind = "CALL"
  /\ s = stack[e] \/ Top(e).at \in Serving \cup {"verify"}

\* The connection is found broken, or e is done with it.
Breaks(e) == ~ open[Peer(e)] \/ (stack[e] # <<>> /\ Top(e).at \in {"closing", "drain"})

Rests(e) == open' = open /\ Holds(e, stack'[e])
Pushes(e) ==
  /\ open' = open
  /\ \E s \in Seq(Frame) : \E f \in Frame :
       stack'[e] = Append(s, f) /\ Holds(e, s) /\ Puts(e, s, f)
Drops(e) ==
  \E s \in Seq(Frame) : \E k \in 0 .. Len(s) : \E how \in How :
    /\ Holds(e, s) /\ Unwind(e, s, k, how)
    /\ k # 0 => s[k].at \in Serving
    /\ how = "shutdown" => Breaks(e)

Changes(e) == Apart(e) /\ (Rests(e) \/ Pushes(e) \/ Drops(e))

LEMMA HeldFrames ==
  ASSUME PipeInv, NEW e \in End
  PROVE  /\ stack[e] \in Seq(Frame) /\ Holds(e, stack[e])
         /\ stack[e] # <<>> => Below(stack[e]) \in Seq(Frame) /\ Holds(e, Below(stack[e]))
<1>1. stack[e] \in Seq(Frame)
  BY Types DEF Typed
<1> QED BY <1>1, Split DEF Holds

LEMMA UnwindApart ==
  ASSUME PipeInv, NEW e \in End, NEW s, NEW k, NEW how, Unwind(e, s, k, how)
  PROVE  Apart(e)
<1>1. /\ open \in [End -> BOOLEAN] /\ back \in [End -> Back] /\ stack \in [End -> Seq(Frame)]
      /\ Peer(e) \in End /\ Peer(e) # e
  BY TwoEnds DEF PipeInv, Moving, Stacks
<1>2. \E b : back' = back \/ back' = [back EXCEPT ![e] = b]
  BY DEF Unwind
<1>3. back'[Peer(e)] = back[Peer(e)]
  BY <1>1, <1>2
<1>4. \E o, t : open' = [open EXCEPT ![e] = o] /\ stack' = [stack EXCEPT ![e] = t]
  BY DEF Unwind
<1> QED BY <1>1, <1>3, <1>4 DEF Apart

LEMMA DropChange ==
  ASSUME PipeInv, NEW e \in End, NEW s \in Seq(Frame), NEW how \in How, Holds(e, s),
         Raise(e, s, how), how = "shutdown" => Breaks(e)
  PROVE  Changes(e)
<1>1. Unwind(e, s, LastCall(s), how)
  BY DEF Raise
<1>2. LastCall(s) \in 0 .. Len(s) /\ (LastCall(s) # 0 => s[LastCall(s)].at \in Serving)
  BY LastCallRange
<1>3. Drops(e)
  BY <1>1, <1>2 DEF Drops
<1> QED BY <1>1, <1>3, UnwindApart DEF Changes

\* Frames are put on those held, or taken, with the connection as it is.
LEMMA StackChange ==
  ASSUME PipeInv, NEW e \in End, NEW t, stack' = [stack EXCEPT ![e] = t], open' = open,
         back'[Peer(e)] = back[Peer(e)],
         \/ Holds(e, t)
         \/ \E s \in Seq(Frame) : \E f \in Frame : t = Append(s, f) /\ Holds(e, s) /\ Puts(e, s, f)
  PROVE  Changes(e)
<1>1. stack \in [End -> Seq(Frame)] /\ Peer(e) \in End /\ Peer(e) # e
  BY TwoEnds DEF PipeInv, Moving, Stacks
<1>2. stack'[e] = t /\ Apart(e)
  BY <1>1 DEF Apart
<1> QED BY <1>2 DEF Changes, Rests, Pushes

LEMMA WriteChange ==
  ASSUME PipeInv, NEW e \in End, NEW on, NEW m, NEW s \in Seq(Frame), Holds(e, s),
         NEW t, Write(e, on, m, s, t),
         \/ t = s
         \/ \E f \in Frame : t = Append(s, f) /\ Puts(e, s, f)
  PROVE  Changes(e)
<1>1. CASE stack' = [stack EXCEPT ![e] = t] /\ UNCHANGED <<open, back>>
  BY <1>1, StackChange
<1>2. CASE ~ open[Peer(e)] /\ Raise(e, s, "shutdown")
  BY <1>2, DropChange DEF Breaks, How
<1> QED BY <1>1, <1>2 DEF Write

LEMMA AskChange ==
  ASSUME PipeInv, NEW e \in End, NEW on, NEW m, NEW s \in Seq(Frame), Holds(e, s),
         NEW at \in Asking, NEW kept \in Message, Ask(e, on, m, s, at, kept),
         s = stack[e] \/ Top(e).at \in Serving \cup {"verify"}
  PROVE  Changes(e)
<1> DEFINE f == [at |-> at, n |-> asked[e] + 1, msg |-> kept]
<1>1. f \in Frame /\ f.at = at
  BY DEF PipeInv, Frame, Asking
<1>2. Puts(e, s, f)
  BY <1>1 DEF Puts, Asking, Serving
<1>3. Write(e, on, [m EXCEPT !.of = asked[e] + 1], s, Append(s, f))
  BY DEF Ask
<1> HIDE DEF f
<1> QED BY <1>1, <1>2, <1>3, WriteChange

LEMMA SendChange ==
  ASSUME PipeInv, NEW e \in End, NEW on, NEW m \in Message, NEW s \in Seq(Frame), Holds(e, s),
         NEW v, NEW r, SendKnowing(e, on, m, s, v, r),
         s = stack[e] \/ Top(e).at \in Serving \cup {"verify"}
  PROVE  Changes(e)
<1>1. CASE Raise(e, s, "error")
  BY <1>1, DropChange DEF How
<1>2. CASE Ask(e, on, Msg("VERIFY_TYPES", m.load, 0), s, "verify", m)
  BY <1>2, AskChange DEF Asking
<1>3. CASE Ask(e, on, [m EXCEPT !.ref = m.load \in r], s, "answer", Nothing)
  <2>1. Nothing \in Message /\ "answer" \in Asking
    BY MsgType DEF Nothing, Kind, Load, Asking
  <2> QED BY <1>3, <2>1, AskChange
<1>4. CASE Write(e, on, [m EXCEPT !.ref = m.load \in r], s, s)
  BY <1>4, WriteChange
<1> QED BY <1>1, <1>2, <1>3, <1>4 DEF SendKnowing

\* What comes is put on the frames of e as a frame of its own.
LEMMA WaitPuts ==
  ASSUME PipeInv, NEW e \in End, NEW n \in Nat, NEW at \in {"call", "dud", "drain"},
         at # "drain" => open[e] /\ net[e] # <<>> /\ First(e).kind = "CALL"
  PROVE  Wait(at, n) \in Frame /\ Puts(e, stack[e], Wait(at, n))
<1>1. Wait(at, n) \in Frame /\ Wait(at, n).at = at
  BY WaitType DEF On, Wait
<1> QED BY <1>1 DEF Puts, Serving

LEMMA AnsweredHeld ==
  ASSUME PipeInv, NEW e \in End, stack[e] # <<>>, NEW m
  PROVE  Answered(e, m) \in Seq(Frame) /\ Holds(e, Answered(e, m))
BY HeldFrames DEF Answered

LEMMA GivenUpChanges ==
  ASSUME PipeInv, NEW e \in End, EndOfFile(e) \/ LoadFails(e) \/ LastReceived(e) \/ TakeError(e)
  PROVE  Changes(e)
<1>1. CASE EndOfFile(e)
  <2>1. Raise(e, stack[e], "shutdown") /\ Breaks(e) /\ "shutdown" \in How
    BY <1>1 DEF EndOfFile, Breaks, How
  <2> QED BY <2>1, HeldFrames, DropChange
<1>2. CASE LastReceived(e)
  <2>1. Raise(e, stack[e], "shutdown") /\ Breaks(e) /\ "shutdown" \in How
    BY <1>2 DEF LastReceived, Breaks, How, Received, Waiting
  <2> QED BY <2>1, HeldFrames, DropChange
<1>3. CASE LoadFails(e) \/ TakeError(e)
  <2>1. Raise(e, Answered(e, First(e)), "error") /\ stack[e] # <<>> /\ "error" \in How
    BY <1>3 DEF LoadFails, TakeError, How, Arrives, Received, Waiting
  <2> QED BY <2>1, AnsweredHeld, DropChange
<1> QED BY <1>1, <1>2, <1>3

LEMMA ServeCallChanges ==
  ASSUME PipeInv, NEW e \in End, ServeCall(e) \/ ServeDud(e)
  PROVE  Changes(e)
<1>1. /\ open[e] /\ net[e] # <<>> /\ First(e).kind = "CALL" /\ stack[e] # <<>>
      /\ First(e).of \in Nat
  BY Arrived DEF ServeCall, ServeDud, Arrives, Received, Waiting
<1>2. ASSUME NEW at \in {"call", "dud"}, stack' = [stack EXCEPT ![e] = Append(@, Wait(at, First(e).of))],
             open' = open, back' = back
      PROVE  Changes(e)
  <2>1. Wait(at, First(e).of) \in Frame /\ Puts(e, stack[e], Wait(at, First(e).of))
    BY <1>1, WaitPuts
  <2>2. stack' = [stack EXCEPT ![e] = Append(stack[e], Wait(at, First(e).of))]
    BY <1>2
  <2> QED BY <1>2, <2>1, <2>2, HeldFrames, StackChange
<1>3. CASE ~ open[Peer(e)] /\ Raise(e, stack[e], "shutdown")
  BY <1>3, HeldFrames, DropChange DEF Breaks, How
<1>4. CASE stack' = [stack EXCEPT ![e] = Append(@, Wait("call", First(e).of))]
           /\ UNCHANGED <<open, back>>
  BY <1>2, <1>4
<1>5. CASE stack' = [stack EXCEPT ![e] = Append(@, Wait("dud", First(e).of))]
           /\ UNCHANGED <<open, back>>
  BY <1>2, <1>5
<1>6. CASE UNCHANGED <<stack, open, back>>
  <2>1. stack' = [stack EXCEPT ![e] = stack[e]]
    BY <1>6 DEF PipeInv, Moving, Stacks
  <2> QED BY <1>6, <2>1, HeldFrames, StackChange
<1> QED BY <1>3, <1>4, <1>5, <1>6 DEF ServeCall, ServeDud

LEMMA ServedChanges ==
  ASSUME PipeInv, Marked, NEW e \in End,
         ServeExposed(e) \/ ServeProxyDef(e) \/ ServeVerifyTypes(e) \/ TakeClose(e) \/ GetProxyDef(e)
  PROVE  Changes(e)
<1>1. stack[e] \in Seq(Frame) /\ Holds(e, stack[e])
  BY HeldFrames
<1>2. CASE ServeExposed(e)
  <2> DEFINE m == [exposed[e] EXCEPT !.of = First(e).of]
  <2>1. First(e).of \in Nat
    BY <1>2, Arrived DEF ServeExposed
  <2>2. m \in Message
    BY <2>1 DEF PipeInv, Exposures, Message
  <2>3. SendKnowing(e, Rest(e), m, stack[e], verified[e], remote[e])
    BY <1>2 DEF ServeExposed, Send
  <2> HIDE DEF m
  <2> QED BY <1>1, <2>2, <2>3, SendChange
<1>3. CASE ServeProxyDef(e)
  <2> DEFINE m == Msg("GET_PROXY_DEF_RESULT", ProxyDef, First(e).of)
  <2>1. First(e).of \in Nat /\ "GET_PROXY_DEF_RESULT" \in Kind /\ ProxyDef \in Load
    BY <1>3, Arrived, PlainSendable DEF ServeProxyDef, Kind
  <2>2. m \in Message
    BY <2>1, MsgType
  <2>3. SendKnowing(e, Rest(e), m, stack[e], verified[e], remote[e])
    BY <1>3 DEF ServeProxyDef, Send
  <2> HIDE DEF m
  <2> QED BY <1>1, <2>2, <2>3, SendChange
<1>4. CASE ServeVerifyTypes(e)
  <2>1. PICK m : Write(e, Rest(e), m, stack[e], stack[e])
    BY <1>4 DEF ServeVerifyTypes
  <2> QED BY <1>1, <2>1, WriteChange
<1>5. CASE TakeClose(e)
  <2>1. CASE stack' = [stack EXCEPT ![e] = Append(@, Wait("drain", 0))] /\ UNCHANGED <<open, back>>
    <3>1. Wait("drain", 0) \in Frame /\ Puts(e, stack[e], Wait("drain", 0))
      BY WaitPuts
    <3>2. stack' = [stack EXCEPT ![e] = Append(stack[e], Wait("drain", 0))]
      BY <2>1
    <3> QED BY <1>1, <2>1, <3>1, <3>2, StackChange
  <2>2. CASE ~ open[Peer(e)] /\ Raise(e, stack[e], "shutdown")
    BY <1>1, <2>2, DropChange DEF Breaks, How
  <2> QED BY <1>5, <2>1, <2>2 DEF TakeClose
<1>6. CASE GetProxyDef(e)
  <2>1. Ask(e, Rest(e), Msg("GET_PROXY_DEF", Plain, 0), stack[e], "proxy", First(e))
    BY <1>6 DEF GetProxyDef
  <2>2. First(e) \in Message /\ "proxy" \in Asking
    BY <1>6, Taking DEF GetProxyDef, To, Asking
  <2> QED BY <1>1, <2>1, <2>2, AskChange
<1> QED BY <1>2, <1>3, <1>4, <1>5, <1>6

LEMMA TakeValueChanges ==
  ASSUME PipeInv, Marked, NEW e \in End, NEW kinds, Arrives(e, kinds), NEW v, NEW r,
         TakeValue(e, v, r)
  PROVE  Changes(e)
<1>1. /\ stack[e] # <<>> /\ Below(stack[e]) \in Seq(Frame) /\ Holds(e, Below(stack[e]))
      /\ stack[e] \in Seq(Frame)
  BY HeldFrames, Arrived
<1>2. CASE /\ stack' = [stack EXCEPT ![e] = Below(@)] /\ open' = open
           /\ \E b : back' = back \/ back' = [back EXCEPT ![e] = b]
  <2>1. back'[Peer(e)] = back[Peer(e)]
    BY <1>2, TwoEnds DEF PipeInv, Moving
  <2>2. stack' = [stack EXCEPT ![e] = Below(stack[e])]
    BY <1>2
  <2> QED BY <1>1, <1>2, <2>1, <2>2, StackChange
<1>3. CASE Top(e).at = "verify" /\ SendKnowing(e, Rest(e), Top(e).msg, Below(stack[e]), v, r)
  <2>1. Top(e).msg \in Message
    BY <1>1, Split DEF Top, Last, Frame
  <2> QED BY <1>1, <1>3, <2>1, SendChange
<1>4. CASE Raise(e, Below(stack[e]), "error")
  BY <1>1, <1>4, DropChange DEF How
<1> QED BY <1>2, <1>3, <1>4 DEF TakeValue

LEMMA PipeStepChanges ==
  ASSUME PipeInv, Marked, NEW e \in End, PipeStep(e)
  PROVE  Changes(e)
<1>1. CASE EndOfFile(e) \/ LoadFails(e) \/ LastReceived(e) \/ TakeError(e)
  BY <1>1, GivenUpChanges
<1>2. CASE ServeCall(e)
  BY <1>2, ServeCallChanges
<1>3. CASE ServeExposed(e) \/ ServeProxyDef(e) \/ ServeVerifyTypes(e) \/ TakeClose(e) \/ GetProxyDef(e)
  BY <1>3, ServedChanges
<1>4. CASE TakeAnswer(e)
  BY <1>4, TakeValueChanges DEF TakeAnswer
<1>5. CASE TakeVerifyTypesResult(e)
  <2>1. Arrives(e, {"VERIFY_TYPES_RESULT"})
    BY <1>5 DEF TakeVerifyTypesResult
  <2>2. CASE \E v, r : TakeValue(e, v, r)
    BY <2>1, <2>2, TakeValueChanges
  <2>3. CASE Raise(e, Below(stack[e]), "error")
    <3>1. Below(stack[e]) \in Seq(Frame) /\ Holds(e, Below(stack[e]))
      BY <2>1, Arrived, HeldFrames
    <3> QED BY <2>3, <3>1, DropChange DEF How
  <2> QED BY <1>5, <2>2, <2>3 DEF TakeVerifyTypesResult
<1> QED BY <1>1, <1>2, <1>3, <1>4, <1>5 DEF PipeStep

\* What goes on at e while its program waits for its call into the pipe to end,
\* or for none.
Inner(e) ==
  \/ PipeStep(e) /\ UNCHANGED <<program, calls, faults>>
  \/ AppStep(e) \/ NotCallable(e)
  \/ e = "child" /\ ExitCall

LEMMA InnerChanges ==
  ASSUME Inv, Marked, NEW e \in End, Inner(e)
  PROVE  Changes(e) /\ UNCHANGED program
<1>0. PipeInv
  BY DEF Inv
<1>1. CASE PipeStep(e) /\ UNCHANGED <<program, calls, faults>>
  BY <1>0, <1>1, PipeStepChanges
<1>2. CASE NotCallable(e)
  BY <1>0, <1>2, ServeCallChanges DEF NotCallable
<1>3. CASE CallOther(e)
  <2>1. PICK load \in Values[e] : Call(e, load)
    BY <1>3 DEF CallOther
  <2>2. load \in Load /\ "CALL" \in Kind /\ 0 \in Nat
    BY Sent DEF Kind
  <2>3. Msg("CALL", load, 0) \in Message
    BY <2>2, MsgType
  <2>4. SendKnowing(e, net, Msg("CALL", load, 0), stack[e], verified[e], remote[e])
    BY <2>1 DEF Call, Send
  <2>5. Changes(e)
    BY <1>0, <2>3, <2>4, HeldFrames, SendChange
  <2> QED BY <1>3, <2>5 DEF CallOther
<1>4. CASE Return(e) \/ RaiseException(e)
  <2>1. PICK kind \in {"RETURN", "EXCEPTION"}, load \in Values[e] \cup Exceptions[e] :
          Answer(e, kind, load)
    BY <1>4 DEF Return, RaiseException
  <2>2. stack[e] # <<>> /\ Top(e).at \in Serving
    BY <1>4 DEF Return, RaiseException, InCall, CallOfNone, Serving
  <2>3. Top(e).n \in Nat /\ load \in Load /\ kind \in Kind
    <3>1. stack[e] \in Seq(Frame)
      BY <1>0, HeldFrames
    <3>2. Top(e) \in Frame
      BY <2>2, <3>1, Split DEF Top, Last
    <3> QED BY <3>2, Sent DEF Frame, Kind
  <2>4. Msg(kind, load, Top(e).n) \in Message
    BY <2>3, MsgType
  <2>5. SendKnowing(e, net, Msg(kind, load, Top(e).n), Below(stack[e]), verified[e], remote[e])
    BY <2>1 DEF Answer, Send
  <2>6. Below(stack[e]) \in Seq(Frame) /\ Holds(e, Below(stack[e]))
    BY <1>0, <2>2, HeldFrames
  <2>7. Changes(e)
    BY <1>0, <2>2, <2>4, <2>5, <2>6, SendChange
  <2> QED BY <1>4, <2>7 DEF Return, RaiseException
<1>5. CASE e = "child" /\ ExitCall
  <2> DEFINE s == Below(stack[e])
  <2>1. stack[e] # <<>> /\ UNCHANGED program
    BY <1>5 DEF ExitCall, InCall
  <2>2. s \in Seq(Frame) /\ Holds(e, s) /\ stack[e] \in Seq(Frame) /\ Len(s) = Len(stack[e]) - 1
    BY <1>0, <2>1, HeldFrames, Split
  <2>3. PICK k \in {0} \cup {i \in 1 .. Len(stack[e]) - 1 : stack[e][i].at = "call"} :
          Unwind(e, s, k, "exit")
    BY <1>5 DEF ExitCall, Exit
  <2>4. k \in 0 .. Len(s) /\ (k # 0 => s[k].at \in Serving)
    <3>1. \A i \in 1 .. Len(s) : s[i] = stack[e][i]
      BY <2>1, <2>2 DEF Below
    <3>2. Len(s) \in Nat
      BY <2>2
    <3> HIDE DEF s
    <3> QED BY <2>2, <3>1, <3>2 DEF Serving
  <2>5. Drops(e)
    <3> HIDE DEF s
    <3> QED BY <2>2, <2>3, <2>4 DEF Drops, How
  <2> HIDE DEF s
  <2> QED BY <1>0, <2>1, <2>3, <2>5, UnwindApart DEF Changes
<1> QED BY <1>1, <1>2, <1>3, <1>4, <1>5 DEF Inner, AppStep

Serves(s) == \E i \in 1 .. Len(s) : s[i].at \in Serving

\* The frames of e that are held are the lowest of its frames.
LEMMA HeldPrefix ==
  ASSUME PipeInv, NEW e \in End, NEW s \in Seq(Frame), Holds(e, s)
  PROVE  /\ Len(s) <= Len(stack[e]) /\ Len(s) \in Nat /\ Len(stack[e]) \in Nat
         /\ \A i \in 1 .. Len(s) : s[i] = stack[e][i] /\ i \in 1 .. Len(stack[e])
<1>1. stack[e] \in Seq(Frame)
  BY HeldFrames
<1>2. CASE s = stack[e]
  BY <1>1, <1>2
<1>3. CASE stack[e] # <<>> /\ s = Below(stack[e])
  <2>1. Len(s) = Len(stack[e]) - 1 /\ Len(stack[e]) \in Nat \ {0}
    BY <1>1, <1>3, Split
  <2>2. \A i \in 1 .. Len(s) : s[i] = stack[e][i]
    BY <1>1, <1>3, <2>1 DEF Below
  <2> QED BY <2>1, <2>2
<1> QED BY <1>2, <1>3 DEF Holds

\* A frame of e that was not there before is not one that its program puts there,
\* and a function is only served when a call has come.
LEMMA NewFrames ==
  ASSUME PipeInv, NEW e \in End, Changes(e), NEW i \in 1 .. Len(stack'[e])
  PROVE  \/ i \in 1 .. Len(stack[e]) /\ stack'[e][i] = stack[e][i]
         \/ /\ stack'[e][i].at \notin {"receive", "closing"}
            /\ stack'[e][i].at \in Serving => open[e] /\ net[e] # <<>> /\ First(e).kind = "CALL"
<1>1. CASE Rests(e)
  <2>1. stack'[e] \in Seq(Frame)
    BY <1>1, HeldFrames DEF Rests, Holds
  <2> QED BY <1>1, <2>1, HeldPrefix DEF Rests
<1>2. CASE Pushes(e)
  <2>1. PICK s \in Seq(Frame), f \in Frame :
          stack'[e] = Append(s, f) /\ Holds(e, s) /\ Puts(e, s, f)
    BY <1>2 DEF Pushes
  <2>2. i \in 1 .. Len(s) \/ i = Len(s) + 1
    BY <2>1, Pushed
  <2>3. CASE i \in 1 .. Len(s)
    BY <2>1, <2>3, Pushed, HeldPrefix
  <2>4. CASE i = Len(s) + 1
    BY <2>1, <2>4, Pushed DEF Puts
  <2> QED BY <2>2, <2>3, <2>4
<1>3. CASE Drops(e)
  <2>1. PICK s \in Seq(Frame), k \in Nat, how \in How : k \in 0 .. Len(s) /\ Holds(e, s) /\ Unwind(e, s, k, how)
    BY <1>3 DEF Drops
  <2>2. stack'[e] = SubSeq(s, 1, k)
    BY <2>1 DEF Unwind, PipeInv, Moving, Stacks
  <2>3. Len(s) \in Nat /\ Len(SubSeq(s, 1, k)) = k
    BY <2>1
  <2>4. i \in 1 .. k
    BY <2>2, <2>3
  <2>5. stack'[e][i] = s[i] /\ i \in 1 .. Len(s)
    BY <2>1, <2>2, <2>3, <2>4
  <2> QED BY <2>1, <2>5, HeldPrefix
<1> QED BY <1>1, <1>2, <1>3 DEF Changes

\* What the program of e put on its stack stays below all else.
LEMMA BottomKept ==
  ASSUME PipeInv, PipeInv', NEW e \in End, Changes(e), stack[e] # <<>>, stack'[e] # <<>>,
         stack[e][1].at \in {"receive", "closing"}
  PROVE  stack'[e][1] = stack[e][1]
<1>0. stack[e] \in Seq(Frame) /\ Len(stack[e]) \in Nat \ {0}
  BY HeldFrames, Split
<1>4. stack'[e] \in Seq(Frame) /\ 1 \in 1 .. Len(stack'[e])
  <2>1. stack' \in [End -> Seq(Frame)]
    BY DEF PipeInv, Moving, Stacks
  <2>2. stack'[e] \in Seq(Frame)
    BY <2>1
  <2> QED BY <2>2, Split
<1>1. CASE Rests(e)
  BY <1>1, <1>4, HeldPrefix DEF Rests
<1>2. CASE Pushes(e)
  <2>1. PICK s \in Seq(Frame), f \in Frame :
          stack'[e] = Append(s, f) /\ Holds(e, s) /\ Puts(e, s, f)
    BY <1>2 DEF Pushes
  <2>2. ASSUME Len(s) = 0
        PROVE  FALSE
    <3>1. s # stack[e]
      BY <1>0, <2>2
    <3>2. s = Below(stack[e])
      BY <2>1, <3>1 DEF Holds
    <3>3. Len(stack[e]) = 1
      <4>1. Len(Below(stack[e])) = Len(stack[e]) - 1
        BY <1>0, Split
      <4>2. Len(stack[e]) \in Nat
        BY <1>0
      <4>3. Len(Below(stack[e])) = 0
        BY <2>2, <3>2
      <4>4. \A n \in Nat : n - 1 = 0 => n = 1
        OBVIOUS
      <4> QED BY <4>1, <4>2, <4>3, <4>4, Zenon
    <3>4. Top(e) = stack[e][1] /\ Top(e).at \in Serving \cup {"verify"}
      BY <2>1, <3>1, <3>3 DEF Puts, Top
    <3> QED BY <3>4 DEF Serving
  <2>3. Len(s) \in Nat /\ 1 \in 1 .. Len(s)
    BY <2>2, <2>1, HeldPrefix
  <2> QED BY <2>1, <2>3, Pushed, HeldPrefix
<1>3. CASE Drops(e)
  <2>1. PICK s \in Seq(Frame), k \in Nat, how \in How : k \in 0 .. Len(s) /\ Holds(e, s) /\ Unwind(e, s, k, how)
    BY <1>3 DEF Drops
  <2>2. stack'[e] = SubSeq(s, 1, k)
    BY <2>1 DEF Unwind, PipeInv, Moving, Stacks
  <2>3. Len(s) \in Nat /\ Len(stack'[e]) = k /\ stack'[e][1] = s[1] /\ 1 \in 1 .. Len(s)
    BY <1>4, <2>2
  <2> QED BY <2>1, <2>3, HeldPrefix
<1> QED BY <1>1, <1>2, <1>3 DEF Changes

\* An end that neither closes nor has been told to, and whose peer is there,
\* keeps its connection.
LEMMA StaysOpen ==
  ASSUME PipeInv, NEW e \in End, Changes(e), open[Peer(e)],
         \A i \in 1 .. Len(stack[e]) : stack[e][i].at \notin {"closing", "drain"}
  PROVE  open' = open
<1>1. CASE Rests(e) \/ Pushes(e)
  BY <1>1 DEF Rests, Pushes
<1>2. CASE Drops(e)
  <2>1. PICK s \in Seq(Frame), k \in Nat, how \in How : k \in 0 .. Len(s) /\
          Holds(e, s) /\ Unwind(e, s, k, how) /\ (how = "shutdown" => Breaks(e))
    BY <1>2 DEF Drops
  <2>2. ~ Breaks(e)
    <3>1. stack[e] # <<>> => Len(stack[e]) \in 1 .. Len(stack[e])
      BY HeldFrames, Split
    <3> QED BY <3>1 DEF Breaks, Top
  <2> DEFINE left == SubSeq(s, k + 1, Len(s))
  <2>3. ~ Has(left, "drain") /\ ~ Has(left, "closing")
    BY <2>1, HeldPrefix, LeftOf, SMTT(30)
  <2>4. open' = [open EXCEPT ![e] = @ /\ ~ FALSE]
    BY <2>1, <2>2, <2>3 DEF Unwind
  <2> QED BY <2>4 DEF PipeInv, Moving
<1> QED BY <1>1, <1>2 DEF Changes

\* An end that serves nothing and does not close by itself is left without a
\* frame when the connection is lost, and its program told.
LEMMA LeftAtOnce ==
  ASSUME PipeInv, NEW e \in End, Changes(e), open[e], ~ open'[e], ~ Serves(stack[e]),
         \A i \in 1 .. Len(stack[e]) : stack[e][i].at # "closing"
  PROVE  stack'[e] = <<>> /\ back'[e] = "shutdown"
<1>1. PICK s \in Seq(Frame), k \in Nat, how \in How : k \in 0 .. Len(s) /\
        Holds(e, s) /\ Unwind(e, s, k, how) /\ (k # 0 => s[k].at \in Serving)
  BY DEF Changes, Rests, Pushes, Drops
<1>2. k = 0
  <2>1. k # 0 => k \in 1 .. Len(s) /\ s[k] = stack[e][k] /\ k \in 1 .. Len(stack[e])
    BY <1>1, HeldPrefix
  <2> QED BY <1>1, <2>1 DEF Serves
<1> DEFINE left == SubSeq(s, k + 1, Len(s))
           turned == IF Has(left, "drain") THEN "shutdown" ELSE how
<1>3. ~ Has(left, "closing")
  BY <1>1, HeldPrefix, LeftOf
<1>4. /\ open' = [open EXCEPT ![e] = @ /\ ~ (turned = "shutdown" \/ Has(left, "closing"))]
      /\ stack' = [stack EXCEPT ![e] = SubSeq(s, 1, k)]
      /\ back' = [back EXCEPT ![e] = IF turned = "shutdown" /\ Has(left, "closing")
                                     THEN "returned" ELSE turned]
  BY <1>1, <1>2 DEF Unwind
<1> HIDE DEF left, turned
<1>5. turned = "shutdown"
  BY <1>3, <1>4 DEF PipeInv, Moving
<1> QED BY <1>2, <1>3, <1>4, <1>5 DEF PipeInv, Moving, Stacks

LEMMA NeverReopens ==
  ASSUME PipeInv, NEW e \in End, Changes(e)
  PROVE  \A x \in End : open'[x] => open[x]
<1>1. open \in [End -> BOOLEAN] /\ End = {e, Peer(e)}
  BY TwoEnds DEF PipeInv, Moving
<1>2. open'[e] => open[e]
  <2>1. CASE Rests(e) \/ Pushes(e)
    BY <2>1 DEF Rests, Pushes
  <2>2. CASE Drops(e)
    <3>1. PICK c : open' = [open EXCEPT ![e] = @ /\ ~ c]
      BY <2>2, ZenonT(30) DEF Drops, Unwind
    <3> QED BY <1>1, <3>1
  <2> QED BY <2>1, <2>2 DEF Changes
<1> QED BY <1>1, <1>2 DEF Changes, Apart

\* An end of which nothing is served, and that waits for more than receive(),
\* gives up a request with an exception, or closes the connection.
LEMMA GivesUp ==
  ASSUME PipeInv, NEW e \in End, NEW s \in Seq(Frame), s # <<>>, ~ Serves(s),
         s[1].at # "receive", NEW how, Raise(e, s, how), open'[e]
  PROVE  spoiled'
<1>1. Unwind(e, s, LastCall(s), how)
  BY DEF Raise
<1>2. LastCall(s) = 0
  BY LastCallRange DEF Serves
<1>3. Len(s) \in Nat \ {0} /\ 1 \in 1 .. Len(s) /\ s[1] \in Frame
  BY Split
<1> DEFINE left == SubSeq(s, 0 + 1, Len(s))
           turned == IF Has(left, "drain") THEN "shutdown" ELSE how
           closes == turned = "shutdown" \/ Has(left, "closing")
<1>4. Has(left, s[1].at)
  BY <1>3, LeftOf
<1>5. /\ open' = [open EXCEPT ![e] = @ /\ ~ closes]
      /\ spoiled' = (spoiled \/ (open[e] /\ ~ closes /\ \E kind \in Asking : Has(left, kind)))
  BY <1>1, <1>2 DEF Unwind
<1>6. open[e] /\ ~ closes
  <2> HIDE DEF closes
  <2> QED BY <1>5 DEF PipeInv, Moving
<1>7. s[1].at \in Asking
  <2>1. s[1].at \notin {"closing", "drain", "receive"} \cup Serving
    BY <1>3, <1>4, <1>6 DEF Serves
  <2>2. s[1].at \in {"receive", "closing", "drain"} \cup Asking \cup Serving
    BY <1>3, Kinds
  <2> QED BY <2>1, <2>2
<1> HIDE DEF closes, left
<1> QED BY <1>4, <1>5, <1>6, <1>7

\* close() sends CLOSE, or asks for the class of what comes with it, or fails.
ClosingWith(k) == {Append(Closing, [at |-> "verify", n |-> n, msg |-> k]) : n \in Nat}

LEMMA ClosingFrames ==
  /\ Closing \in Seq(Frame) /\ Len(Closing) = 1 /\ Closing[1] = Wait("closing", 0)
  /\ Closing # <<>> /\ Wait("closing", 0).at = "closing"
  /\ \A k \in Message : \A s \in ClosingWith(k) :
       /\ s \in Seq(Frame) /\ Len(s) = 2 /\ s # <<>> /\ s[1] = Wait("closing", 0)
       /\ s[2].at = "verify" /\ s[2].msg = k
<1>1. /\ Closing \in Seq(Frame) /\ Len(Closing) = 1 /\ Closing[1] = Wait("closing", 0)
      /\ Closing # <<>> /\ Wait("closing", 0).at = "closing"
  BY Frames DEF Closing, Wait
<1>2. ASSUME NEW k \in Message, NEW s \in ClosingWith(k)
      PROVE  /\ s \in Seq(Frame) /\ Len(s) = 2 /\ s # <<>> /\ s[1] = Wait("closing", 0)
             /\ s[2].at = "verify" /\ s[2].msg = k
  <2>1. PICK n \in Nat : s = Append(Closing, [at |-> "verify", n |-> n, msg |-> k])
    BY <1>2 DEF ClosingWith
  <2> DEFINE f == [at |-> "verify", n |-> n, msg |-> k]
  <2>2. f \in Frame /\ f.at = "verify" /\ f.msg = k
    BY DEF Frame
  <2>3. s = Append(Closing, f)
    BY <2>1
  <2> HIDE DEF f
  <2>4. s \in Seq(Frame) /\ s # <<>> /\ Len(s) = 1 + 1 /\ s[1] = Closing[1] /\ s[1 + 1] = f
    BY <1>1, <2>2, <2>3, Pushed
  <2> QED BY <1>1, <2>2, <2>4
<1> QED BY <1>1, <1>2

LEMMA ClosingSends ==
  ASSUME Inv, NEW e \in End, NEW on \in [End -> Seq(Message)], NEW k \in Message,
         k.kind = "CLOSE", NEW v, NEW r, SendKnowing(e, on, k, Closing, v, r)
  PROVE  /\ Apart(e)
         /\ \/ ~ open'[e] /\ stack'[e] = <<>> /\ net' = on
            \/ /\ open' = open /\ open[e] /\ open[Peer(e)]
               /\ \E m \in Message :
                    /\ net' = [on EXCEPT ![Peer(e)] = Append(@, m)]
                    /\ \/ stack'[e] = Closing /\ m.kind = "CLOSE" /\ m.load = k.load
                       \/ stack'[e] \in ClosingWith(k) /\ m.kind = "VERIFY_TYPES"
                          /\ k.load \in Type \ (v \cup r)
<1>0. /\ Closing \in Seq(Frame) /\ Closing # <<>> /\ Len(Closing) = 1 /\ Closing[1].at = "closing"
      /\ \A i \in 1 .. Len(Closing) : Closing[i].at \notin Serving
  BY Frames
<1>1. PipeInv /\ stack \in [End -> Seq(Frame)] /\ asked[e] \in Nat
  BY DEF Inv, PipeInv, Moving, Stacks
<1>2. ASSUME NEW how, Raise(e, Closing, how), net' = on
      PROVE  Apart(e) /\ ~ open'[e] /\ stack'[e] = <<>> /\ net' = on
  <2>1. /\ stack'[e] = <<>>
        /\ open'[e] => \A i \in 1 .. Len(Closing) : Closing[i].at \notin {"closing", "drain"}
    BY <1>0, <1>2, RaisedThrough
  <2>2. ~ open'[e]
    BY <1>0, <2>1
  <2> QED BY <1>1, <1>2, <2>1, <2>2, UnwindApart DEF Raise
<1>3. ASSUME NEW m \in Message, NEW t, Write(e, on, m, Closing, t)
      PROVE  /\ Apart(e)
             /\ \/ ~ open'[e] /\ stack'[e] = <<>> /\ net' = on
                \/ /\ open' = open /\ open[Peer(e)] /\ stack'[e] = t
                   /\ net' = [on EXCEPT ![Peer(e)] = Append(@, m)]
  <2>1. CASE net' = on /\ Raise(e, Closing, "shutdown")
    BY <1>2, <2>1
  <2>2. CASE /\ open[Peer(e)] /\ net' = [on EXCEPT ![Peer(e)] = Append(@, m)]
             /\ stack' = [stack EXCEPT ![e] = t] /\ UNCHANGED <<open, back>>
    <3>1. Apart(e) /\ stack'[e] = t
      BY <1>1, <2>2, TwoEnds DEF Apart
    <3> QED BY <2>2, <3>1
  <2> QED BY <1>3, <2>1, <2>2 DEF Write
<1>4. CASE net' = on /\ Raise(e, Closing, "error")
  BY <1>2, <1>4
<1>5. CASE /\ open[e] /\ k.load \in Type \ (v \cup r)
           /\ Ask(e, on, Msg("VERIFY_TYPES", k.load, 0), Closing, "verify", k)
  <2> DEFINE query == Msg("VERIFY_TYPES", k.load, 0)
             m == [query EXCEPT !.of = asked[e] + 1]
             t == Append(Closing, [at |-> "verify", n |-> asked[e] + 1, msg |-> k])
  <2>1. query \in Message /\ query.kind = "VERIFY_TYPES"
    <3>1. k.load \in Load /\ "VERIFY_TYPES" \in Kind /\ 0 \in Nat
      BY DEF Message, Kind
    <3> QED BY <3>1, ProgramMessage
  <2>2. Write(e, on, m, Closing, t)
    BY <1>5 DEF Ask
  <2> HIDE DEF query
  <2>3. m \in Message /\ m.kind = "VERIFY_TYPES"
    <3>1. asked[e] + 1 \in Nat
      BY <1>1
    <3> QED BY <2>1, <3>1 DEF Message
  <2>4. t \in ClosingWith(k)
    BY <1>1 DEF ClosingWith
  <2> HIDE DEF m, t
  <2> QED BY <1>3, <1>5, <2>2, <2>3, <2>4
<1>6. CASE open[e] /\ Write(e, on, [k EXCEPT !.ref = k.load \in r], Closing, Closing)
  <2> DEFINE m == [k EXCEPT !.ref = k.load \in r]
  <2>1. m \in Message /\ m.kind = "CLOSE" /\ m.load = k.load
    BY SentByRef
  <2> HIDE DEF m
  <2>2. Write(e, on, m, Closing, Closing)
    BY <1>6 DEF m
  <2> QED BY <1>3, <1>6, <2>1, <2>2
<1> QED BY <1>4, <1>5, <1>6 DEF SendKnowing

----------------------------------------------------------------------------
(* Where the programs are when a result is reported *)

OfParent == StartFailed \/ GetExposed \/ Exposed \/ RunEnds \/ ParentClose \/ ParentClosed \/ Join
OfChild ==
  \/ SendVersion \/ StartTool \/ StartRaises \/ Listen \/ ServeEnds \/ StopTool \/ Stopped
  \/ ChildClose \/ ChildExits \/ StartExits

LEMMA Steps ==
  ASSUME [Next]_vars
  PROVE  \/ \E e \in End : Inner(e) \/ Die(e)
         \/ OfParent \/ OfChild \/ UNCHANGED vars
<1>1. "parent" \in End /\ "child" \in End
  BY DEF End
<1>2. CASE ParentStep
  BY <1>1, <1>2 DEF ParentStep, OfParent, Inner
<1>3. CASE ChildStep
  BY <1>1, <1>3 DEF ChildStep, OfChild, Inner
<1>4. CASE Fault
  BY <1>1, <1>4 DEF Fault, OfChild, Inner
<1>5. CASE Finished \/ UNCHANGED vars
  BY <1>5 DEF Finished
<1> QED BY <1>2, <1>3, <1>4, <1>5 DEF Next

LEMMA InnerWaits ==
  ASSUME NEW e \in End, Inner(e)
  PROVE  \/ stack[e] # <<>>
         \/ e = "parent" /\ pc["parent"] = "run" /\ back["parent"] # "shutdown"
BY DEF Inner, PipeStep, EndOfFile, GetProxyDef, LoadFails, LastReceived, ServeCall, ServeExposed,
       ServeProxyDef, ServeVerifyTypes, TakeAnswer, TakeVerifyTypesResult, TakeError, TakeClose,
       Arrives, Received, Waiting, AppStep, CallOther, Running, Return, RaiseException, InCall,
       CallOfNone, At, NotCallable, ServeDud, ExitCall

LEMMA SendApart ==
  ASSUME PipeInv, NEW e \in End, NEW on, NEW m, NEW s, NEW v, NEW r, SendKnowing(e, on, m, s, v, r)
  PROVE  Apart(e)
<1>1. CASE \E how : Raise(e, s, how)
  BY <1>1, UnwindApart DEF Raise
<1>2. CASE \E x, t : Write(e, on, x, s, t)
  <2>1. CASE \E t : stack' = [stack EXCEPT ![e] = t] /\ UNCHANGED <<open, back>>
    BY <2>1, TwoEnds DEF Apart, PipeInv, Moving, Stacks
  <2> QED BY <1>1, <1>2, <2>1 DEF Write
<1> QED BY <1>1, <1>2 DEF SendKnowing, Ask

\* A step of a program is taken with no wait open.
LEMMA OfParentOnly ==
  ASSUME Inv, OfParent
  PROVE  /\ stack["parent"] = <<>> /\ Apart("parent")
         /\ UNCHANGED <<code, started, stopped, attached>>
         /\ pc'["child"] = pc["child"] /\ held'["child"] = held["child"]
<1>1. stack["parent"] = <<>> /\ UNCHANGED <<code, started, stopped, attached>>
  BY DEF OfParent, StartFailed, GetExposed, Exposed, RunEnds, ParentClose, ParentClosed, Join,
         program, At, InProgram
<1>2. pc'["child"] = pc["child"] /\ held'["child"] = held["child"]
  BY DEF OfParent, StartFailed, GetExposed, Exposed, RunEnds, ParentClose, ParentClosed, Join,
         program, Goto, ToClose, Inv, ProgramInv, End
<1>3. Apart("parent")
  <2>0. PipeInv /\ "parent" \in End
    BY DEF Inv, End
  <2>1. CASE GetExposed \/ ParentClose
    BY <2>0, <2>1, SendApart DEF GetExposed, ParentClose, Close, Send
  <2>2. CASE UNCHANGED <<open, stack>> /\ back'["child"] = back["child"]
    BY <2>2 DEF Apart, Peer
  <2>3. CASE StartFailed \/ Exposed \/ RunEnds \/ ParentClosed \/ Join
    <3>1. UNCHANGED <<open, stack>> /\ back'["child"] = back["child"]
      BY <2>0, <2>3 DEF StartFailed, Exposed, RunEnds, ParentClosed, Join, ToClose, pipe,
                        PipeInv, Moving, End
    <3> QED BY <2>2, <3>1
  <2> QED BY <2>1, <2>3 DEF OfParent
<1> QED BY <1>1, <1>2, <1>3

LEMMA OfChildOnly ==
  ASSUME Inv, OfChild
  PROVE  /\ stack["child"] = <<>> /\ Apart("child") /\ UNCHANGED outcome
         /\ pc'["parent"] = pc["parent"] /\ held'["parent"] = held["parent"]
<1>1. stack["child"] = <<>> /\ UNCHANGED outcome
  BY DEF OfChild, SendVersion, StartTool, StartRaises, Listen, ServeEnds, StopTool, Stopped,
         ChildClose, ChildExits, StartExits, At, InProgram
<1>2. pc'["parent"] = pc["parent"] /\ held'["parent"] = held["parent"]
  BY DEF OfChild, SendVersion, StartTool, StartRaises, Listen, ServeEnds, StopTool, Stopped,
         ChildClose, ChildExits, StartExits, Goto, ToClose, Inv, ProgramInv, End
<1>3. Apart("child")
  <2>0. PipeInv /\ "child" \in End
    BY DEF Inv, End
  <2>1. CASE ChildClose
    BY <2>0, <2>1, SendApart DEF ChildClose, Close, Send
  <2>2. CASE SendVersion
    <3>1. CASE Raise("child", <<>>, "shutdown")
      BY <2>0, <3>1, UnwindApart DEF Raise
    <3>2. CASE stack' = [stack EXCEPT !["child"] = <<>>] /\ UNCHANGED <<open, back>>
      BY <2>0, <3>2, TwoEnds DEF Apart, PipeInv, Moving, Stacks
    <3> QED BY <2>2, <3>1, <3>2 DEF SendVersion, Write
  <2>3. CASE Listen
    BY <2>0, <2>3, TwoEnds DEF Listen, Receive, Apart, PipeInv, Moving, Stacks
  <2>4. CASE UNCHANGED <<open, stack>> /\ back'["parent"] = back["parent"]
    BY <2>4 DEF Apart, Peer
  <2>5. CASE StartTool \/ StartRaises \/ ServeEnds \/ StopTool \/ Stopped \/ ChildExits \/ StartExits
    <3>1. UNCHANGED <<open, stack>> /\ back'["parent"] = back["parent"]
      BY <2>0, <2>5 DEF StartTool, StartRaises, ServeEnds, StopTool, Stopped, ChildExits, StartExits,
                        ToClose, pipe, PipeInv, Moving, End
    <3> QED BY <2>4, <3>1
  <2> QED BY <2>1, <2>2, <2>3, <2>5 DEF OfChild
<1> QED BY <1>1, <1>2, <1>3

\* The tool process has left, and the exit code says that it failed, or the pipe
\* gave a request up.
Lost == spoiled \/ (pc["child"] = "exited" /\ code = 1)

LEMMA StaysExited ==
  ASSUME Inv, Marked, [Next]_vars, pc["child"] = "exited"
  PROVE  pc'["child"] = "exited" /\ UNCHANGED <<code, stopped, attached>>
<1>1. CASE \E e \in End : Inner(e)
  BY <1>1, InnerChanges DEF program
<1>2. CASE \E e \in End : Die(e)
  <2>1. Die("parent")
    BY <1>2 DEF Die, End
  <2> QED BY <2>1 DEF Die, Goto, Inv, ProgramInv, End
<1>3. CASE OfParent
  BY <1>3, OfParentOnly
<1>4. CASE OfChild
  BY <1>4 DEF OfChild, SendVersion, StartTool, StartRaises, Listen, ServeEnds, StopTool, Stopped,
              ChildClose, ChildExits, StartExits, At
<1>5. CASE UNCHANGED vars
  BY <1>5 DEF vars, program
<1> QED BY <1>1, <1>2, <1>3, <1>4, <1>5, Steps

LEMMA StaysLost ==
  ASSUME Inv, Marked, [Next]_vars, Lost
  PROVE  Lost'
BY StaysSpoiled, StaysExited DEF Lost

\* What the program of an end waits for at each of its places, and how far the
\* other has come by then.
Placed ==
  /\ stack["child"] # <<>> =>
       \/ pc["child"] = "close" /\ stack["child"][1] = Wait("closing", 0)
       \/ pc["child"] = "serve" /\ stack["child"][1] = Wait("receive", 0)
  /\ \A i \in 1 .. Len(stack["parent"]) :
       /\ stack["parent"][i].at = "receive" => pc["parent"] = "version"
       /\ stack["parent"][i].at = "closing" => pc["parent"] = "close"
  /\ pc["child"] = "exited" => ~ open["child"]
  /\ attached # None => pc["child"] \in {"close", "exited"}
  /\ held["parent"] = "result" => pc["parent"] \in {"close", "join", "end"}
  /\ outcome = "result" => pc["child"] = "exited"

LEMMA PlacedInner ==
  ASSUME Inv, Inv', Marked, Placed, NEW e \in End, Inner(e)
  PROVE  Placed'
<1>0. Changes(e) /\ UNCHANGED program /\ PipeInv /\ PipeInv'
  BY InnerChanges DEF Inv
<1>1. UNCHANGED <<pc, held, outcome, attached>>
  BY <1>0 DEF program
<1>2. pc["child"] = "exited" => ~ open'["child"]
  BY <1>0, NeverReopens DEF Placed, End
<1>3. CASE e = "parent"
  <2>1. stack'["child"] = stack["child"]
    BY <1>0, <1>3 DEF Changes, Apart, Peer
  <2>2. ASSUME NEW i \in 1 .. Len(stack'["parent"])
        PROVE  /\ stack'["parent"][i].at = "receive" => pc["parent"] = "version"
               /\ stack'["parent"][i].at = "closing" => pc["parent"] = "close"
    BY <1>0, <1>3, NewFrames DEF Placed
  <2> QED BY <1>1, <1>2, <2>1, <2>2 DEF Placed
<1>4. CASE e = "child"
  <2>1. stack'["parent"] = stack["parent"]
    BY <1>0, <1>4 DEF Changes, Apart, Peer
  <2>2. stack["child"] # <<>>
    BY <1>4, InnerWaits
  <2>3. stack["child"][1].at \in {"receive", "closing"}
    BY <2>2 DEF Placed, Wait
  <2>4. stack'["child"] # <<>> => stack'["child"][1] = stack["child"][1]
    BY <1>0, <1>4, <2>2, <2>3, BottomKept
  <2> QED BY <1>1, <1>2, <2>1, <2>2, <2>4 DEF Placed
<1> QED BY <1>3, <1>4 DEF End

LEMMA GetExposedChanges ==
  ASSUME Inv, GetExposed
  PROVE  Changes("parent")
<1>1. stack["parent"] = <<>> /\ PipeInv
  BY DEF GetExposed, At, InProgram, Inv
<1>2. SendKnowing("parent", net, Msg("GET_EXPOSED", Plain, 0), stack["parent"],
                  verified["parent"], remote["parent"])
  BY <1>1 DEF GetExposed
<1>3. Msg("GET_EXPOSED", Plain, 0) \in Message
  <2>1. "GET_EXPOSED" \in Kind /\ Plain \in Load /\ 0 \in Nat
    BY DEF Kind, Load
  <2> QED BY <2>1, MsgType
<1> QED BY <1>1, <1>2, <1>3, SendChange, HeldFrames DEF End

\* close() in the process of the build, which sends no exception: no class is
\* to be verified.
LEMMA ParentCloses ==
  ASSUME Inv, ParentClose
  PROVE  /\ pc' = pc /\ pc["parent"] = "close" /\ stack["parent"] = <<>> /\ open["parent"]
         /\ Apart("parent")
         /\ \/ ~ open'["parent"] /\ stack'["parent"] = <<>> /\ net' = net
            \/ /\ open["child"] /\ open' = open /\ stack'["parent"] = Closing
               /\ \E m \in Message :
                    m.kind = "CLOSE" /\ net' = [net EXCEPT !["child"] = Append(@, m)]
<1>1. /\ pc' = pc /\ pc["parent"] = "close" /\ stack["parent"] = <<>> /\ open["parent"]
  BY DEF ParentClose, At, InProgram, program
<1> DEFINE k == Msg("CLOSE", None, 0)
<1>2. k \in Message /\ k.kind = "CLOSE" /\ k.load = None
  <2>1. "CLOSE" \in Kind /\ None \in Load /\ 0 \in Nat
    BY DEF Kind, Load
  <2> QED BY <2>1, MsgType
<1>3. SendKnowing("parent", net, k, Closing, verified["parent"], remote["parent"])
  BY DEF ParentClose, Close, Send, Closing
<1> HIDE DEF k
<1>4. net \in [End -> Seq(Message)] /\ "parent" \in End /\ Peer("parent") = "child"
  BY DEF End, Peer, Inv, PipeInv, Moving, Nets
<1>5. None \notin Type
  BY RemotePipeAssumption
<1> QED BY <1>1, <1>2, <1>3, <1>4, <1>5, ClosingSends, SMTT(30)

LEMMA PlacedParent ==
  ASSUME Inv, Marked, Placed, OfParent
  PROVE  Placed'
<1>0. /\ stack["parent"] = <<>> /\ Apart("parent") /\ UNCHANGED attached
      /\ pc'["child"] = pc["child"] /\ PipeInv
  BY OfParentOnly DEF Inv
<1>1. /\ stack'["child"] = stack["child"] /\ open'["child"] = open["child"]
  BY <1>0 DEF Apart, Peer
<1>2. /\ held'["parent"] = "result" => pc'["parent"] \in {"close", "join", "end"}
      /\ outcome' = "result" => pc["child"] = "exited"
  BY DEF OfParent, StartFailed, GetExposed, Exposed, RunEnds, ParentClose, ParentClosed, Join,
         program, Goto, ToClose, At, Placed, Inv, ProgramInv, End
<1>3. ASSUME NEW i \in 1 .. Len(stack'["parent"])
      PROVE  /\ stack'["parent"][i].at = "receive" => pc'["parent"] = "version"
             /\ stack'["parent"][i].at = "closing" => pc'["parent"] = "close"
  <2>1. CASE GetExposed
    <3>1. ~ (i \in 1 .. Len(stack["parent"]))
      BY <1>0, EmptySeq
    <3> QED BY <1>0, <2>1, <3>1, GetExposedChanges, NewFrames DEF End
  <2>2. CASE ParentClose
    <3>1. pc'["parent"] = "close" /\ stack'["parent"] \in {<<>>, Closing}
      BY <2>2, ParentCloses
    <3>2. stack'["parent"] = Closing
      BY <3>1, EmptySeq
    <3>3. i = 1
      BY <3>2, ClosingFrames
    <3> QED BY <3>1, <3>2, <3>3, ClosingFrames
  <2>3. CASE StartFailed \/ Exposed \/ RunEnds \/ ParentClosed \/ Join
    <3>1. stack'["parent"] = <<>>
      BY <1>0, <2>3 DEF StartFailed, Exposed, RunEnds, ParentClosed, Join, ToClose, pipe
    <3> QED BY <3>1, EmptySeq
  <2> QED BY <2>1, <2>2, <2>3 DEF OfParent
<1> QED BY <1>0, <1>1, <1>2, <1>3 DEF Placed

\* close() in the tool process.
LEMMA ChildCloses ==
  ASSUME Inv, ChildClose
  PROVE  /\ pc' = pc /\ pc["child"] = "close" /\ stack["child"] = <<>> /\ open["child"]
         /\ \/ ~ open'["child"] /\ stack'["child"] = <<>> /\ net' = net
            \/ /\ open["parent"] /\ open' = open
               /\ \E m \in Message : \E k \in Message :
                    /\ net' = [net EXCEPT !["parent"] = Append(@, m)]
                    /\ m.kind \in {"CLOSE", "VERIFY_TYPES"} /\ k.kind = "CLOSE"
                    /\ stack'["child"] \in {Closing} \cup ClosingWith(k)
<1>1. /\ pc' = pc /\ pc["child"] = "close" /\ stack["child"] = <<>> /\ open["child"]
  BY DEF ChildClose, At, InProgram
<1>2. PICK exc \in Exceptions["child"] \cup {None} : Close("child", exc)
  BY DEF ChildClose
<1> DEFINE k == Msg("CLOSE", exc, 0)
<1>3. k \in Message /\ k.kind = "CLOSE"
  <2>1. "CLOSE" \in Kind /\ exc \in Load /\ 0 \in Nat
    BY Sent DEF Kind, Load, End
  <2> QED BY <2>1, MsgType
<1>4. SendKnowing("child", net, k, Closing, verified["child"], remote["child"])
  BY <1>2 DEF Close, Send, Closing
<1> HIDE DEF k
<1>5. net \in [End -> Seq(Message)] /\ "child" \in End /\ Peer("child") = "parent"
  BY DEF End, Peer, Inv, PipeInv, Moving, Nets
<1> QED BY <1>1, <1>3, <1>4, <1>5, ClosingSends, SMTT(30)

\* The version is sent, or the process ends.
LEMMA VersionSent ==
  ASSUME Inv, SendVersion
  PROVE  /\ stack'["child"] = <<>>
         /\ pc'["child"] = "start" \/ (pc'["child"] = "exited" /\ ~ open'["child"] /\ code' = 1)
<1>1. CASE open["parent"]
  BY <1>1 DEF SendVersion, Write, Peer, Goto, Inv, PipeInv, Moving, Stacks, ProgramInv, End
<1>2. CASE ~ open["parent"]
  <2>1. Raise("child", <<>>, "shutdown") /\ pc' = [pc EXCEPT !["child"] = "exited"] /\ code' = 1
    BY <1>2 DEF SendVersion, Write, Peer, Goto
  <2>2. ~ open'["child"] /\ stack'["child"] = <<>>
    <3>1. \A i \in 1 .. Len(<<>>) : <<>>[i].at \notin Serving
      BY EmptySeq
    <3>2. <<>> \in Seq(Frame) /\ "child" \in End
      BY EmptySeq DEF End
    <3> QED BY <2>1, <3>1, <3>2, RaisedThrough
  <2> QED BY <2>1, <2>2 DEF Inv, ProgramInv, End
<1> QED BY <1>1, <1>2

LEMMA PlacedChild ==
  ASSUME Inv, Marked, Placed, OfChild
  PROVE  Placed'
<1>0. /\ stack["child"] = <<>> /\ Apart("child") /\ UNCHANGED outcome
      /\ pc'["parent"] = pc["parent"] /\ held'["parent"] = held["parent"]
  BY OfChildOnly
<1>1. stack'["parent"] = stack["parent"]
  BY <1>0 DEF Apart, Peer
<1>2. outcome' # "result"
  BY <1>0 DEF Placed, OfChild, SendVersion, StartTool, StartRaises, Listen, ServeEnds, StopTool,
              Stopped, ChildClose, ChildExits, StartExits, At
<1>3. CASE ChildClose
  <2>1. stack'["child"] # <<>> => pc'["child"] = "close" /\ stack'["child"][1] = Wait("closing", 0)
    BY <1>3, ChildCloses, ClosingFrames
  <2>2. pc'["child"] = "close"
    BY <1>3, ChildCloses
  <2> QED BY <1>0, <1>1, <1>2, <2>1, <2>2 DEF Placed
<1>4. CASE SendVersion
  <2>1. UNCHANGED attached /\ pc["child"] = "spawned"
    BY <1>4 DEF SendVersion, At
  <2>2. attached' = None
    BY <2>1 DEF Placed
  <2> QED BY <1>0, <1>1, <1>2, <1>4, <2>2, VersionSent DEF Placed
<1>5. CASE Listen
  <2>1. /\ pc'["child"] = "serve" /\ stack'["child"] = <<Wait("receive", 0)>> /\ UNCHANGED attached
        /\ pc["child"] \in {"start", "serve"}
    BY <1>5 DEF Listen, Goto, Receive, At, Inv, ProgramInv, PipeInv, Moving, Stacks, End
  <2>2. attached' = None
    BY <2>1 DEF Placed
  <2> QED BY <1>0, <1>1, <1>2, <2>1, <2>2 DEF Placed
<1>6. CASE StartTool \/ StartRaises \/ ServeEnds \/ StopTool \/ Stopped \/ ChildExits \/ StartExits
  <2>1. stack'["child"] = <<>> /\ open' = open
    BY <1>0, <1>6 DEF StartTool, StartRaises, ServeEnds, StopTool, Stopped, ChildExits, StartExits,
                      ToClose, pipe
  <2>2. /\ pc'["child"] = "exited" => ~ open["child"]
        /\ attached' # None => pc'["child"] \in {"close", "exited"}
    BY <1>6 DEF StartTool, StartRaises, ServeEnds, StopTool, Stopped, ChildExits, StartExits,
                ToClose, Goto, At, Placed, Inv, ProgramInv, End
  <2> QED BY <1>0, <1>1, <1>2, <2>1, <2>2 DEF Placed
<1> QED BY <1>3, <1>4, <1>5, <1>6 DEF OfChild

LEMMA DeathPlaces ==
  ASSUME Inv, NEW e \in End, Die(e)
  PROVE  /\ ~ open'[e] /\ stack'[e] = <<>> /\ net' = net /\ back' = back /\ Apart(e)
         /\ UNCHANGED <<held, started, stopped, attached>>
         /\ pc'[Peer(e)] = pc[Peer(e)]
         /\ e = "parent" => pc'[e] = "end" /\ outcome' = "died" /\ code' = code
         /\ e = "child" => pc'[e] = "exited" /\ outcome' = outcome /\ code' = 1
<1>1. /\ open \in [End -> BOOLEAN] /\ stack \in [End -> Seq(Frame)] /\ Peer(e) \in End /\ Peer(e) # e
      /\ DOMAIN pc = End
  BY TwoEnds DEF Inv, ProgramInv, PipeInv, Moving, Stacks
<1>2. "parent" # "child"
  OBVIOUS
<1> QED BY <1>1, <1>2 DEF Die, Gone, Goto, Apart, Inv, ProgramInv

LEMMA PlacedStep ==
  ASSUME Inv, Inv', Marked, Placed, [Next]_vars
  PROVE  Placed'
<1>1. CASE \E e \in End : Inner(e)
  BY <1>1, PlacedInner
<1>2. CASE \E e \in End : Die(e)
  <2>1. CASE Die("parent")
    <3>1. /\ pc'["parent"] = "end" /\ pc'["child"] = pc["child"] /\ stack'["parent"] = <<>>
          /\ stack'["child"] = stack["child"] /\ open'["child"] = open["child"]
          /\ outcome' = "died" /\ UNCHANGED attached
      BY <2>1, DeathPlaces DEF Apart, Peer, End
    <3> QED BY <3>1, EmptySeq DEF Placed
  <2>2. CASE Die("child")
    <3>1. /\ pc'["child"] = "exited" /\ pc'["parent"] = pc["parent"] /\ stack'["child"] = <<>>
          /\ stack'["parent"] = stack["parent"] /\ ~ open'["child"]
          /\ UNCHANGED <<attached, held>>
      BY <2>2, DeathPlaces DEF Apart, Peer, End
    <3> QED BY <3>1 DEF Placed
  <2> QED BY <1>2, <2>1, <2>2 DEF End
<1>3. CASE OfParent
  BY <1>3, PlacedParent
<1>4. CASE OfChild
  BY <1>4, PlacedChild
<1>5. CASE UNCHANGED vars
  BY <1>5 DEF vars, pipe, program, Placed
<1> QED BY <1>1, <1>2, <1>3, <1>4, <1>5, Steps

\* The child waits for requests, and nothing is done yet but the version sent.
Listening ==
  ~ Starting /\ pc["parent"] = "version" /\ open["parent"] =>
    /\ open["child"] /\ stack["child"] = Receiving /\ net["child"] = <<>>
    /\ stack["parent"] \in {<<>>, Receiving}
    /\ \A i \in 1 .. Len(net["parent"]) : net["parent"][i].kind = "PICKLE_VERSION"

\* The child is in close(), or has left.
Leaving == ~ open["child"] \/ (stack["child"] # <<>> /\ stack["child"][1].at = "closing")

\* The parent has a request under way that is not answered any more, and hears
\* no other request than the one that close() makes.
HeldOn ==
  /\ stack["parent"] # <<>> /\ ~ Serves(stack["parent"])
  /\ \A i \in 1 .. Len(net["parent"]) :
       net["parent"][i].kind \in {"VERIFY_TYPES", "CLOSE", "CLOSE_CLOSED"}

AsksToClose(s) ==
  Len(s) = 2 /\ s[1] = Wait("closing", 0) /\ s[2].at = "verify" /\ s[2].msg.kind = "CLOSE"

\* What reaches a child that closes.
LastWord(m) ==
  \/ m.kind \in {"VERIFY_TYPES_RESULT", "CLOSE_CLOSED"}
  \/ m.kind = "GET_PROXY_DEF" /\ ~ CarriesObject(m) /\ stack["child"] = Closing

Closes ==
  open["child"] =>
    /\ stack["child"] = Closing \/ AsksToClose(stack["child"])
    /\ \A i \in 1 .. Len(net["child"]) : LastWord(net["child"][i])

Parted ==
  ~ Starting /\ open["parent"] /\ pc["parent"] \notin {"version", "end"} /\ Leaving =>
    HeldOn /\ Closes

\* The runner only goes on with the pipe open.
GoneAtOnce ==
  ~ open["parent"] /\ pc["parent"] \in {"version", "fetch", "run"} =>
    stack["parent"] = <<>> /\ back["parent"] = "shutdown"

\* No test is run before the child listens.
Untested == Starting => pc["parent"] # "run" /\ ~ Serves(stack["parent"])

\* When the runner has its result, the child waits for the next request, takes
\* CLOSE for it, and goes the way that ends with every tool stopped.
Finishing ==
  /\ attached = None /\ started = Tools
  /\ \/ /\ pc["child"] = "serve" /\ open["child"]
        /\ stack["child"] \in {Receiving, Append(Receiving, Wait("drain", 0))}
        /\ \A i \in 1 .. Len(net["child"]) : net["child"][i].kind = "CLOSE"
        /\ open["parent"] =>
             /\ stack["parent"] \in {<<>>, Closing}
             /\ \A i \in 1 .. Len(net["parent"]) : net["parent"][i].kind = "CLOSE_CLOSED"
     \/ /\ pc["child"] = "serve" /\ ~ open["child"]
        /\ stack["child"] = <<>> /\ back["child"] = "shutdown"
     \/ pc["child"] = "stop" /\ ~ open["child"]
     \/ /\ pc["child"] \in {"close", "exited"} /\ ~ open["child"]
        /\ code = 1 \/ stopped = Tools

Course ==
  Listening /\ Parted /\ GoneAtOnce /\ Untested /\ (held["parent"] = "result" => Finishing)

LEMMA FormedAt ==
  ASSUME NEW s \in Seq(Frame), Formed(s), NEW k \in 1 .. Len(s)
  PROVE  LET b == SubSeq(s, 1, k - 1)
         IN  /\ Opens(b, s[k]) /\ b \in Seq(Frame)
             /\ k # 1 => b # <<>> /\ Len(b) = k - 1 /\ Last(b) = s[k - 1]
<1> DEFINE b == SubSeq(s, 1, k - 1)
<1>1. Opens(b, s[k])
  BY DEF Formed, Grows
<1>2. Len(s) \in Nat /\ k - 1 \in 0 .. Len(s)
  OBVIOUS
<1>3. b \in Seq(Frame) /\ Len(b) = k - 1
  BY <1>2
<1>4. k # 1 => b # <<>> /\ Last(b) = s[k - 1]
  <2> SUFFICES ASSUME k # 1 PROVE b # <<>> /\ Last(b) = s[k - 1]
    OBVIOUS
  <2>1. k - 1 \in 1 .. Len(b)
    BY <1>2, <1>3
  <2>2. b[k - 1] = s[k - 1]
    BY <1>2, <2>1
  <2> HIDE DEF b
  <2> QED BY <1>3, <2>1, <2>2, EmptySeq DEF Last
<1> QED BY <1>1, <1>3, <1>4

\* In the frames of an open end, close() and receive() are at the bottom, and a
\* drain is on top, with nothing more to come.
LEMMA Outermost ==
  ASSUME Typed, Regular, NEW e \in End, open[e], NEW i \in 1 .. Len(stack[e])
  PROVE  /\ stack[e][i].at \in {"receive", "closing"} => i = 1
         /\ Final(stack[e][i]) => i = Len(stack[e]) /\ net[e] = <<>> /\ Mute(Peer(e))
<1> DEFINE s == stack[e]
<1>1. s \in Seq(Frame) /\ Formed(s) /\ Hushed(e)
  BY DEF Typed, Regular, Fit
<1>2. s[i].at \in {"receive", "closing"} => i = 1
  BY <1>1, FormedAt DEF Opens
<1>3. Len(s) \in Nat
  BY <1>1
<1>4. ASSUME Final(s[i]) PROVE i = Len(s)
  <2>1. CASE i + 1 \in 1 .. Len(s)
    <3> DEFINE b == SubSeq(s, 1, i)
    <3>1. i + 1 # 1 /\ (i + 1) - 1 = i
      BY <1>3
    <3>2. Opens(b, s[i + 1]) /\ b # <<>> /\ Last(b) = s[i]
      <4> HIDE DEF s
      <4> QED BY <1>1, <2>1, <3>1, FormedAt
    <3> HIDE DEF b, s
    <3> QED BY <1>4, <3>2 DEF Opens
  <2> QED BY <1>3, <2>1
<1>5. Final(s[i]) => net[e] = <<>> /\ Mute(Peer(e))
  <2>1. s # <<>>
    BY <1>3, EmptySeq
  <2> QED BY <1>1, <1>4, <2>1 DEF Hushed, Last
<1> QED BY <1>2, <1>4, <1>5

LEMMA NoCallComes ==
  ASSUME Inv, Ordered, Starting, open["parent"], net["parent"] # <<>>
  PROVE  First("parent").kind # "CALL"
<1>1. net["parent"] \in Seq(Message)
  BY DEF Inv, PipeInv, Moving, Nets, End
<1>2. CASE Early
  <2>1. IsVersion(net["parent"][1])
    BY <1>2 DEF Early
  <2> QED BY <1>1, <2>1 DEF First, IsVersion
<1>3. CASE Aborting
  <2>1. CASE net["parent"] \in Seq(Heard)
    <3>1. First("parent") \in Heard
      BY <2>1 DEF First
    <3> QED BY <3>1, HeardKinds
  <2>2. CASE IsVersion(Head(net["parent"]))
    BY <2>2 DEF First, IsVersion
  <2> QED BY <1>3, <2>1, <2>2 DEF Aborting, ParentAborts
<1> QED BY <1>2, <1>3 DEF Ordered

LEMMA UntestedStep ==
  ASSUME Inv, Marked, Ordered, Placed, Course, [Next]_vars, ~ Lost'
  PROVE  Untested'
<1> SUFFICES ASSUME Starting' PROVE pc'["parent"] # "run" /\ ~ Serves(stack'["parent"])
  BY DEF Untested
<1>1. Starting
  BY LaterNotStarting
<1>2. pc["parent"] # "run" /\ ~ Serves(stack["parent"]) /\ PipeInv
  BY <1>1 DEF Course, Untested, Inv
<1>3. ASSUME Changes("parent") PROVE ~ Serves(stack'["parent"])
  <2>1. "parent" \in End
    BY DEF End
  <2>2. ~ (open["parent"] /\ net["parent"] # <<>> /\ First("parent").kind = "CALL")
    BY <1>1, NoCallComes
  <2> QED BY <1>2, <1>3, <2>1, <2>2, NewFrames DEF Serves
<1>4. CASE \E e \in End : Inner(e)
  <2>1. PICK e \in End : Inner(e)
    BY <1>4
  <2>2. Changes(e) /\ pc' = pc
    BY <2>1, InnerChanges DEF program
  <2>3. CASE e = "parent"
    BY <1>2, <1>3, <2>2, <2>3
  <2>4. CASE e = "child"
    BY <1>2, <2>2, <2>4 DEF Changes, Apart, Peer
  <2> QED BY <2>3, <2>4 DEF End
<1>5. CASE \E e \in End : Die(e)
  <2>1. ~ Die("child")
    BY DeathPlaces DEF Lost, End
  <2>2. Die("parent")
    BY <1>5, <2>1 DEF End
  <2>3. pc'["parent"] = "end" /\ stack'["parent"] = <<>>
    BY <2>2, DeathPlaces DEF End
  <2> QED BY <2>3, EmptySeq DEF Serves
<1>6. CASE OfChild
  <2>1. stack'["parent"] = stack["parent"] /\ pc'["parent"] = pc["parent"]
    BY <1>6, OfChildOnly DEF Apart, Peer
  <2> QED BY <1>2, <2>1
<1>7. CASE OfParent
  <2>0. stack["parent"] = <<>>
    BY <1>7, OfParentOnly
  <2>1. pc'["parent"] # "run"
    <3>1. ~ (pc["parent"] = "fetch" /\ back["parent"] = "returned")
      <4>1. CASE open["parent"]
        <5>1. Receiving # <<>> /\ Fetching # <<>> /\ Closing # <<>>
          BY Frames
        <5> QED BY <1>1, <2>0, <4>1, <5>1, EmptySeq
                DEF Ordered, Early, VersionWaits, VersionKnown, ExposedWaits, Aborting,
                    ParentAborts, ParentWaits
      <4>2. CASE ~ open["parent"]
        BY <4>2 DEF Course, GoneAtOnce
      <4> QED BY <4>1, <4>2
    <3> QED BY <1>2, <1>7, <3>1 DEF OfParent, StartFailed, GetExposed, Exposed, RunEnds, ParentClose,
               ParentClosed, Join, At, Goto, ToClose, program, Inv, ProgramInv, End
  <2>2. CASE GetExposed
    <3>1. Changes("parent")
      BY <2>2, GetExposedChanges
    <3> QED BY <1>3, <2>1, <3>1
  <2>3. CASE ParentClose
    <3>1. stack'["parent"] \in {<<>>, Closing}
      BY <2>3, ParentCloses
    <3>2. ~ Serves(Closing) /\ ~ Serves(<<>>)
      BY Frames, EmptySeq DEF Serves
    <3> QED BY <2>1, <3>1, <3>2
  <2>4. CASE StartFailed \/ Exposed \/ RunEnds \/ ParentClosed \/ Join
    <3>1. stack'["parent"] = <<>>
      BY <2>0, <2>4 DEF StartFailed, Exposed, RunEnds, ParentClosed, Join, ToClose, pipe
    <3> QED BY <2>1, <3>1, EmptySeq DEF Serves
  <2> QED BY <1>7, <2>2, <2>3, <2>4 DEF OfParent
<1>8. CASE UNCHANGED vars
  BY <1>2, <1>8 DEF vars, pipe, program
<1> QED BY <1>4, <1>5, <1>6, <1>7, <1>8, Steps

Sound == Inv /\ Marked /\ Ordered /\ Placed /\ Course /\ ~ Lost

LEMMA SoundRegular ==
  ASSUME Sound, ~ Starting
  PROVE  Regular /\ Typed /\ PipeInv
<1>1. PipeInv /\ ~ spoiled /\ (spoiled \/ Regular)
  BY DEF Sound, Inv, Lost, Ordered
<1> QED BY <1>1, Types

\* The step with which the child is done with starting its tools.
LEMMA Starts ==
  ASSUME Sound, Starting, [Next]_vars, ~ Starting', ~ Lost', open'["parent"]
  PROVE  /\ Early /\ pc["child"] = "start" /\ stack'["child"] = Receiving
         /\ UNCHANGED <<open, net>> /\ stack'["parent"] = stack["parent"]
         /\ pc'["parent"] = pc["parent"]
<1>0. Inv /\ Marked
  BY DEF Sound
<1>1. ~ \E e \in End : Inner(e)
  BY <1>0, InnerChanges DEF Starting, program
<1>2. ~ \E e \in End : Die(e)
  BY <1>0, DeathPlaces DEF End, Lost
<1>3. ~ OfParent /\ ~ UNCHANGED vars
  BY <1>0, OfParentOnly DEF Starting, vars, program
<1>4. OfChild
  BY <1>1, <1>2, <1>3, Steps
<1>5. ~ SendVersion
  <2> SUFFICES ASSUME SendVersion PROVE FALSE
    OBVIOUS
  <2>1. (pc'["child"] = "exited" /\ code' = 1) \/ pc'["child"] = "start"
    BY <1>0, VersionSent
  <2> QED BY <2>1 DEF Lost, Starting
<1>6. Listen /\ pc["child"] = "start"
  <2>1. ASSUME UNCHANGED started, pc["child"] \notin {"spawned", "start"} PROVE FALSE
    BY <2>1 DEF Starting
  <2>2. ASSUME UNCHANGED started, started < Tools PROVE FALSE
    BY <2>2 DEF Starting
  <2>3. Tools \in Nat /\ started \in Nat
    BY <1>0, RemoteToolAssumption DEF Inv, ProgramInv
  <2>4. ~ StartTool
    BY DEF StartTool, At, Starting
  <2>5. ~ StartRaises /\ ~ StartExits
    BY <2>2, <2>3 DEF StartRaises, StartExits
  <2>6. ~ ServeEnds /\ ~ ChildClose /\ ~ ChildExits
    BY <2>1 DEF ServeEnds, ChildClose, ChildExits, At
  <2>7. ~ StopTool /\ ~ Stopped
    BY <2>1 DEF StopTool, Stopped, At
  <2>8. Listen
    BY <1>4, <1>5, <2>4, <2>5, <2>6, <2>7 DEF OfChild
  <2> QED BY <2>1, <2>8 DEF Listen, At
<1>7. Early
  BY <1>6 DEF Sound, Ordered, Starting
<1>8. stack'["child"] = Receiving /\ UNCHANGED <<open, net>>
  BY <1>0, <1>6 DEF Listen, Receive, Receiving, Inv, PipeInv, Moving, Stacks, End
<1> QED BY <1>0, <1>4, <1>6, <1>7, <1>8, OfChildOnly DEF Apart, Peer

\* An end in a wait takes what comes, or finds the connection closed.
LEMMA Reads ==
  ASSUME NEW e \in End, Inner(e), stack[e] # <<>>, Top(e).at \notin Serving
  PROVE  /\ Waiting(e) /\ (PipeStep(e) \/ ServeDud(e))
         /\ net[e] # <<>> \/ EndOfFile(e)
<1>1. ~ InCall(e) /\ ~ CallOfNone(e) /\ ~ Running(e)
  BY DEF InCall, CallOfNone, Serving, Running, At, InProgram
<1>2. PipeStep(e) \/ ServeDud(e)
  BY <1>1 DEF Inner, AppStep, CallOther, Return, RaiseException, NotCallable, ExitCall
<1>3. Waiting(e) /\ (net[e] # <<>> \/ EndOfFile(e))
  BY <1>2 DEF PipeStep, EndOfFile, GetProxyDef, LoadFails, LastReceived, ServeCall, ServeDud,
       ServeExposed, ServeProxyDef, ServeVerifyTypes, TakeAnswer, TakeVerifyTypesResult,
       TakeError, TakeClose, Arrives, Received
<1> QED BY <1>2, <1>3

\* What an end does with its connection closed stays with it.
LEMMA ClosedInner ==
  ASSUME Inv, Marked, NEW e \in End, ~ open[e], Inner(e)
  PROVE  net' = net /\ ~ open'[e]
<1>1. ~ open'[e] /\ Typed
  BY InnerChanges, NeverReopens, Types DEF Inv
<1>2. ~ PipeStep(e) /\ ~ ServeDud(e)
  BY DEF PipeStep, EndOfFile, GetProxyDef, LoadFails, LastReceived, ServeCall, ServeDud,
       ServeExposed, ServeProxyDef, ServeVerifyTypes, TakeAnswer, TakeVerifyTypesResult,
       TakeError, TakeClose, Arrives, Received, Waiting
<1>3. CASE e = "child" /\ ExitCall
  BY <1>1, <1>3 DEF ExitCall, Exit
<1>4. CASE AppStep(e)
  <2>1. PICK m, s : SendKnowing(e, net, m, s, verified[e], remote[e])
    BY <1>4 DEF AppStep, CallOther, Call, Return, RaiseException, Answer, Send
  <2> QED BY <1>1, <2>1, SentShut
<1> QED BY <1>2, <1>3, <1>4 DEF Inner, NotCallable

LEMMA ListeningStep ==
  ASSUME Sound, [Next]_vars, ~ Lost'
  PROVE  Listening'
<1> SUFFICES ASSUME ~ Starting', pc'["parent"] = "version", open'["parent"]
             PROVE  /\ open'["child"] /\ stack'["child"] = Receiving /\ net'["child"] = <<>>
                    /\ stack'["parent"] \in {<<>>, Receiving}
                    /\ \A i \in 1 .. Len(net'["parent"]) :
                         net'["parent"][i].kind = "PICKLE_VERSION"
  BY DEF Listening
<1>0. Inv /\ Marked /\ PipeInv
  BY DEF Sound, Inv
<1>1. CASE Starting
  <2>1. /\ Early /\ stack'["child"] = Receiving /\ UNCHANGED <<open, net>> /\ pc["child"] = "start"
        /\ stack'["parent"] = stack["parent"] /\ pc["parent"] = "version" /\ open["parent"]
    BY <1>1, Starts
  <2>2. open["child"] /\ net["child"] = <<>> /\ stack["parent"] \in {<<>>, Receiving}
    BY <2>1 DEF Early, VersionWaits, VersionKnown, ExposedWaits
  <2>3. \/ net["parent"] = <<>>
        \/ Len(net["parent"]) = 1 /\ net["parent"][1].kind = "PICKLE_VERSION"
    BY <2>1 DEF Early, VersionWaits, VersionKnown, ExposedWaits, IsVersion
  <2> QED BY <2>1, <2>2, <2>3, EmptySeq
<1>2. CASE ~ Starting
  <2>0. ASSUME pc["parent"] = "version", open["parent"]
        PROVE  /\ open["child"] /\ stack["child"] = Receiving /\ net["child"] = <<>>
               /\ stack["parent"] \in {<<>>, Receiving}
               /\ \A i \in 1 .. Len(net["parent"]) : net["parent"][i].kind = "PICKLE_VERSION"
    BY <1>2, <2>0 DEF Sound, Course, Listening
  <2>1. Receiving # <<>> /\ Top("child") = Last(stack["child"]) /\ Receiving[1].at = "receive"
        /\ Top("parent") = Last(stack["parent"]) /\ Last(Receiving) = Receiving[1]
        /\ Below(Receiving) = <<>>
    BY Frames DEF Top, Last
  <2>2. CASE \E e \in End : Inner(e)
    <3>1. PICK e \in End : Inner(e)
      BY <2>2
    <3>2. Changes(e) /\ pc' = pc /\ open["parent"]
      BY <1>0, <3>1, InnerChanges, NeverReopens DEF program, End
    <3>3. e = "parent"
      <4> SUFFICES ASSUME e = "child" PROVE FALSE
        BY DEF End
      <4>1. EndOfFile("child")
        BY <2>0, <2>1, <3>1, <3>2, Reads DEF Serving
      <4> QED BY <3>2, <4>1 DEF EndOfFile, Peer
    <3>4. stack["parent"] = Receiving
      BY <2>0, <3>1, <3>2, <3>3, InnerWaits
    <3>5. Waiting("parent") /\ (PipeStep("parent") \/ ServeDud("parent"))
          /\ net["parent"] # <<>> /\ Top("parent").at = "receive"
      <4>1. ~ EndOfFile("parent")
        BY <2>0, <3>2 DEF EndOfFile, Peer
      <4> QED BY <2>1, <3>1, <3>3, <3>4, <4>1, Reads DEF Serving
    <3>6. /\ First("parent").kind = "PICKLE_VERSION" /\ ~ CarriesObject(First("parent"))
          /\ net["parent"] \in Seq(Message)
      <4>1. net["parent"] \in Seq(Message) /\ 1 \in 1 .. Len(net["parent"])
        <5>1. net["parent"] \in Seq(Message)
          BY <1>0 DEF PipeInv, Moving, Nets, End
        <5> QED BY <3>5, <5>1
      <4>2. First("parent") = net["parent"][1]
        BY <3>5, <4>1 DEF First
      <4>3. First("parent").load = Plain
        BY <1>0, <2>0, <3>2, <3>5, <4>1, <4>2, TakingMarks DEF Bids, End
      <4> QED BY <2>0, <3>2, <4>1, <4>2, <4>3, RemotePipeAssumption DEF CarriesObject
    <3>7. TakeAnswer("parent")
      BY <2>0, <3>2, <3>5, <3>6 DEF PipeStep, EndOfFile, GetProxyDef, UnknownProxy, LoadFails, Unloadable,
           LastReceived, ServeCall, ServeDud, ServeExposed, ServeProxyDef, ServeVerifyTypes,
           TakeVerifyTypesResult, TakeError, TakeClose, Arrives, Peer
    <3>8. net' = Rest("parent") /\ stack' = [stack EXCEPT !["parent"] = Below(@)] /\ open' = open
      BY <3>5, <3>7 DEF TakeAnswer, TakeValue
    <3>9. net'["parent"] = Tail(net["parent"]) /\ net'["child"] = net["child"]
          /\ stack'["parent"] = <<>> /\ stack'["child"] = stack["child"]
      BY <1>0, <2>1, <3>4, <3>8 DEF Rest, PipeInv, Moving, Nets, Stacks, End
    <3>10. \A i \in 1 .. Len(Tail(net["parent"])) : i + 1 \in 1 .. Len(net["parent"])
             /\ Tail(net["parent"])[i] = net["parent"][i + 1]
      BY <3>5, <3>6
    <3>11. \A i \in 1 .. Len(net'["parent"]) : net'["parent"][i].kind = "PICKLE_VERSION"
      BY <2>0, <3>2, <3>9, <3>10
    <3> QED BY <2>0, <3>2, <3>8, <3>9, <3>11
  <2>3. CASE \E e \in End : Die(e)
    BY <1>0, <2>3, DeathPlaces DEF End, Lost
  <2>4. CASE OfParent
    BY <1>0, <2>4 DEF OfParent, StartFailed, GetExposed, Exposed, RunEnds, ParentClose, ParentClosed,
         Join, At, Goto, ToClose, program, Inv, ProgramInv, End
  <2>5. CASE OfChild
    <3>1. stack["child"] = <<>> /\ pc["parent"] = "version" /\ open["parent"]
      BY <1>0, <2>5, OfChildOnly DEF Apart, Peer
    <3> QED BY <2>0, <2>1, <3>1
  <2>6. CASE UNCHANGED vars
    BY <2>0, <2>6 DEF vars, pipe, program
  <2> QED BY <2>2, <2>3, <2>4, <2>5, <2>6, Steps
<1> QED BY <1>1, <1>2

LEMMA GoneAtOnceStep ==
  ASSUME Sound, [Next]_vars, ~ Lost'
  PROVE  GoneAtOnce'
<1> SUFFICES ASSUME ~ open'["parent"], pc'["parent"] \in {"version", "fetch", "run"}
             PROVE  stack'["parent"] = <<>> /\ back'["parent"] = "shutdown"
  BY DEF GoneAtOnce
<1>0. Inv /\ Marked /\ PipeInv /\ Placed /\ Course /\ GoneAtOnce /\ "parent" \in End
  BY DEF Sound, Inv, Course, End
<1>1. ASSUME UNCHANGED <<open, stack, back, pc>> PROVE stack'["parent"] = <<>> /\ back'["parent"] = "shutdown"
  BY <1>0, <1>1 DEF GoneAtOnce
<1>2. CASE Inner("parent")
  <2>1. Changes("parent") /\ pc' = pc
    BY <1>0, <1>2, InnerChanges DEF program
  <2>2. open["parent"]
    <3> SUFFICES ASSUME ~ open["parent"] PROVE FALSE
      OBVIOUS
    <3>1. stack["parent"] = <<>> /\ back["parent"] = "shutdown"
      BY <1>0, <2>1 DEF GoneAtOnce
    <3> QED BY <1>0, <1>2, <3>1, InnerWaits
  <2>3. \A i \in 1 .. Len(stack["parent"]) : stack["parent"][i].at # "closing"
    BY <1>0, <2>1 DEF Placed
  <2>4. ~ Serves(stack["parent"])
    <3>1. CASE Starting
      BY <1>0, <3>1 DEF Course, Untested
    <3>2. CASE ~ Starting /\ pc["parent"] = "version"
      <4>1. stack["parent"] \in {<<>>, Receiving}
        BY <1>0, <2>2, <3>2 DEF Course, Listening
      <4> QED BY <4>1, Frames, EmptySeq DEF Serves
    <3>3. CASE ~ Starting /\ pc["parent"] # "version"
      <4> SUFFICES ASSUME Serves(stack["parent"]) PROVE FALSE
        OBVIOUS
      <4>1. ~ Leaving
        BY <1>0, <2>1, <2>2, <3>3 DEF Course, Parted, HeldOn
      <4>2. open["child"] /\ ~ Mute("child")
        <5>1. CASE stack["child"] # <<>>
          BY <4>1, <5>1 DEF Leaving, Mute, Last
        <5>2. CASE stack["child"] = <<>>
          BY <4>1, <5>2, EmptySeq DEF Leaving, Mute
        <5> QED BY <5>1, <5>2
      <4>3. \A i \in 1 .. Len(stack["parent"]) : stack["parent"][i].at # "drain"
        BY <1>0, <2>2, <3>3, <4>2, SoundRegular, Outermost DEF Final, Peer
      <4>4. open' = open
        BY <1>0, <2>1, <2>3, <4>2, <4>3, StaysOpen DEF Peer
      <4> QED BY <2>2, <4>4
    <3> QED BY <3>1, <3>2, <3>3
  <2> QED BY <1>0, <2>1, <2>2, <2>3, <2>4, LeftAtOnce
<1>3. CASE Inner("child")
  <2>1. Apart("child") /\ pc' = pc
    BY <1>0, <1>3, InnerChanges DEF Changes, program, End
  <2> QED BY <1>0, <2>1 DEF Apart, Peer, GoneAtOnce
<1>4. CASE \E e \in End : Die(e)
  BY <1>0, <1>4, DeathPlaces DEF End, Lost
<1>5. CASE OfParent
  <2>1. CASE GetExposed
    <3>1. open["parent"] /\ stack["parent"] = <<>>
      BY <1>0, <2>1 DEF GetExposed, At, InProgram, GoneAtOnce
    <3>2. ~ Serves(<<>>)
      BY EmptySeq DEF Serves
    <3> QED BY <1>0, <2>1, <3>1, <3>2, GetExposedChanges, LeftAtOnce, EmptySeq
  <2>2. CASE Exposed
    <3>1. pc["parent"] = "fetch" /\ back["parent"] = "returned" /\ open' = open
      BY <1>0, <2>2 DEF Exposed, ToClose, Goto, At, pipe, Inv, ProgramInv, End
    <3> QED BY <1>0, <3>1 DEF GoneAtOnce
  <2>3. CASE StartFailed \/ RunEnds \/ ParentClose \/ ParentClosed \/ Join
    BY <1>0, <2>3 DEF StartFailed, RunEnds, ParentClose, ParentClosed, Join, At, Goto, ToClose,
         program, Inv, ProgramInv, End
  <2> QED BY <1>5, <2>1, <2>2, <2>3 DEF OfParent
<1>6. CASE OfChild
  BY <1>0, <1>6, OfChildOnly DEF Apart, Peer, GoneAtOnce
<1>7. CASE UNCHANGED vars
  BY <1>1, <1>7 DEF vars, pipe, program
<1> QED BY <1>2, <1>3, <1>4, <1>5, <1>6, <1>7, Steps DEF End

LEMMA OneFrame ==
  ASSUME NEW q \in Seq(Frame), Len(q) = 1
  PROVE  q = <<q[1]>>
OBVIOUS

\* What comes to an end is all that is under way.
LEMMA AllThatComes ==
  ASSUME Typed, Regular, NEW e \in End, open[e], net[e] # <<>>
  PROVE  /\ First(e) = net[e][1] /\ 1 \in 1 .. Len(net[e]) /\ First(e) \in Message
         /\ Rest(e) \in [End -> Seq(Message)] /\ Rest(e)[e] = <<>> /\ Rest(e)[Peer(e)] = net[Peer(e)]
         /\ open[Peer(e)] => net[Peer(e)] = <<>>
<1>1. net[e] \in Seq(Message) /\ Len(net[e]) <= 1 /\ net \in [End -> Seq(Message)]
  BY DEF Typed, Regular, Single
<1>2. /\ Tail(net[e]) = <<>> /\ Head(net[e]) = net[e][1] /\ Len(net[e]) = 1
      /\ Head(net[e]) \in Message
  <2>1. Tail(net[e]) = <<>> /\ Head(net[e]) = net[e][1] /\ Len(net[e]) = 1
    BY <1>1, OneFlight
  <2>2. net[e][1] \in Message
    BY <1>1, <2>1
  <2> QED BY <2>1, <2>2
<1>3. Rest(e) = [net EXCEPT ![e] = <<>>] /\ Peer(e) \in End /\ Peer(e) # e
  BY <1>2, TwoEnds DEF Rest
<1>4. open[Peer(e)] => net[Peer(e)] = <<>>
  BY <1>3 DEF Regular, Single, Busy
<1> QED BY <1>1, <1>2, <1>3, <1>4, EmptySeq DEF First

\* The parent goes on with what it holds.
LEMMA HeldStays ==
  ASSUME Inv, HeldOn, Closes, NEW t, stack'["parent"] = t,
         \/ t = stack["parent"]
         \/ \E f \in Frame : t = Append(stack["parent"], f) /\ f.at \notin Serving,
         open'["child"] = open["child"], stack'["child"] = stack["child"],
         net'["parent"] = <<>>,
         open["child"] => \E m : LastWord(m) /\ net'["child"] = Append(<<>>, m)
  PROVE  HeldOn' /\ Closes'
<1>1. t # <<>> /\ ~ Serves(t)
  <2>1. CASE t = stack["parent"]
    BY <2>1 DEF HeldOn
  <2>2. CASE \E f \in Frame : t = Append(stack["parent"], f) /\ f.at \notin Serving
    <3>1. PICK f \in Frame : t = Append(stack["parent"], f) /\ f.at \notin Serving
      BY <2>2
    <3>2. stack["parent"] \in Seq(Frame)
      BY DEF Inv, PipeInv, Moving, Stacks, End
    <3> QED BY <3>1, <3>2, Pushed DEF HeldOn, Serves
  <2> QED BY <2>1, <2>2
<1>2. HeldOn'
  BY <1>1, EmptySeq DEF HeldOn
<1>3. CASE open'["child"]
  <2>1. PICK m : LastWord(m) /\ net'["child"] = Append(<<>>, m)
    BY <1>3
  <2>2. Len(net'["child"]) = 1 /\ net'["child"][1] = m
    BY <2>1
  <2>3. ASSUME NEW i \in 1 .. Len(net'["child"]) PROVE net'["child"][i] = m
    BY <2>2
  <2>4. LastWord(m)' /\ (AsksToClose(stack["child"]) => AsksToClose(stack["child"])')
    BY <2>1 DEF LastWord, CarriesObject, AsksToClose
  <2> QED BY <1>2, <1>3, <2>3, <2>4 DEF Closes, LastWord, CarriesObject, AsksToClose
<1> QED BY <1>2, <1>3 DEF Closes

\* A child that closes is answered by the parent, and not asked anything but
\* the definition of a proxy.
LEMMA PartedParent ==
  ASSUME Sound, ~ Starting, ~ spoiled', Inner("parent"), pc["parent"] # "version",
         HeldOn, Closes, open["parent"], open'["parent"]
  PROVE  HeldOn' /\ Closes'
<1>0. /\ Inv /\ Marked /\ PipeInv /\ Typed /\ Regular /\ "parent" \in End /\ Peer("parent") = "child"
      /\ stack["parent"] \in Seq(Frame)
  BY SoundRegular DEF Sound, Inv, End, Peer, Typed
<1>1. /\ stack["parent"] # <<>> /\ Top("parent") = Last(stack["parent"])
      /\ \A i \in 1 .. Len(stack["parent"]) : stack["parent"][i].at \notin Serving
      /\ 1 \in 1 .. Len(stack["parent"]) /\ Len(stack["parent"]) \in 1 .. Len(stack["parent"])
  BY <1>0, Split DEF HeldOn, Serves, Top, Last
<1>2. ~ Raise("parent", stack["parent"], "shutdown")
  BY <1>0, ShutDown
<1>3. ~ EndOfFile("parent") /\ ~ LastReceived("parent")
  BY <1>2 DEF EndOfFile, LastReceived
<1>4. /\ PipeStep("parent") \/ ServeDud("parent")
      /\ net["parent"] # <<>> /\ Top("parent").at \notin Serving
  BY <1>0, <1>1, <1>3, Reads DEF Top
<1> DEFINE m == First("parent")
<1>5. /\ m = net["parent"][1] /\ 1 \in 1 .. Len(net["parent"]) /\ m \in Message
      /\ Rest("parent") \in [End -> Seq(Message)] /\ Rest("parent")["parent"] = <<>>
      /\ Rest("parent")["child"] = net["child"] /\ (open["child"] => net["child"] = <<>>)
  BY <1>0, <1>4, AllThatComes
<1>6. m.kind \in {"VERIFY_TYPES", "CLOSE", "CLOSE_CLOSED"} /\ m \in Bids("parent")
  BY <1>0, <1>4, <1>5, TakingMarks DEF HeldOn
<1>7. m.kind \notin Answers /\ (CarriesObject(m) => m.kind = "CLOSE")
  BY <1>6, RemotePipeAssumption DEF Answers, CarriesObject, Bids
<1> HIDE DEF m
<1>8. ASSUME Raise("parent", stack["parent"], "error") PROVE FALSE
  <2>1. stack["parent"][1].at # "receive"
    BY <1>1 DEF Sound, Placed
  <2> QED BY <1>0, <1>1, <1>8, <2>1, GivesUp DEF HeldOn
<1>9. ~ LoadFails("parent") /\ ~ TakeError("parent")
  <2>1. Answered("parent", m) = stack["parent"]
    BY <1>7 DEF Answered
  <2> QED BY <1>8, <2>1 DEF LoadFails, TakeError, m
<1>10. ASSUME NEW w \in Message, NEW t, Write("parent", Rest("parent"), w, stack["parent"], t)
       PROVE  /\ open'["child"] = open["child"] /\ stack'["child"] = stack["child"]
              /\ open["child"] /\ stack'["parent"] = t /\ net'["parent"] = <<>>
              /\ net'["child"] = Append(<<>>, w)
  BY <1>0, <1>1, <1>5, <1>10, ParentWrites, ZenonT(30)
<1>11. CASE ServeVerifyTypes("parent")
  <2>1. PICK w \in Message : /\ w.kind = "VERIFY_TYPES_RESULT"
                             /\ Write("parent", Rest("parent"), w, stack["parent"], stack["parent"])
    BY <1>0, <1>11, VerdictGood DEF To
  <2>2. LastWord(w)
    BY <2>1 DEF LastWord
  <2> QED BY <1>0, <1>10, <2>1, <2>2, HeldStays
<1>12. CASE GetProxyDef("parent")
  <2> DEFINE f == [at |-> "proxy", n |-> asked["parent"] + 1, msg |-> m]
             w == [Msg("GET_PROXY_DEF", Plain, 0) EXCEPT !.of = asked["parent"] + 1]
  <2>1. m.kind = "CLOSE" /\ Mute("child")
    BY <1>0, <1>5, <1>7, <1>12 DEF GetProxyDef, UnknownProxy, m, Regular, Fit, Hushed
  <2>2. f \in Frame /\ f.at = "proxy" /\ f.at \notin Serving
    BY <1>0, <1>5 DEF Frame, Serving, Typed
  <2>3. w \in Message /\ w.kind = "GET_PROXY_DEF" /\ w.load = Plain
    <3> DEFINE query == Msg("GET_PROXY_DEF", Plain, 0)
    <3>1. "GET_PROXY_DEF" \in Kind /\ Plain \in Load /\ 0 \in Nat /\ asked["parent"] + 1 \in Nat
      BY <1>0 DEF Kind, Load, Typed
    <3>2. query \in Message /\ query.kind = "GET_PROXY_DEF" /\ query.load = Plain
      BY <3>1, ProgramMessage
    <3> HIDE DEF query
    <3>3. w = [query EXCEPT !.of = asked["parent"] + 1]
      BY DEF query
    <3> HIDE DEF w
    <3> QED BY <3>1, <3>2, <3>3 DEF Message
  <2>4. Write("parent", Rest("parent"), w, stack["parent"], Append(stack["parent"], f))
    BY <1>12 DEF GetProxyDef, Ask, m
  <2> HIDE DEF f, w
  <2>5. open["child"] => stack["child"] = Closing
    <3>1. 2 # 1
      OBVIOUS
    <3> QED BY <2>1, <3>1 DEF Mute, Closes, AsksToClose
  <2>6. LastWord(w)
    BY <1>10, <2>3, <2>4, <2>5, RemotePipeAssumption DEF LastWord, CarriesObject
  <2> QED BY <1>0, <1>10, <2>2, <2>3, <2>4, <2>6, HeldStays
<1>13. CASE TakeClose("parent")
  <2> DEFINE w == Msg("CLOSE_CLOSED", Plain, 0)
             f == Wait("drain", 0)
  <2>1. LastWord(w)
    BY DEF LastWord, Msg
  <2>2. f \in Frame /\ f.at \notin Serving
    BY <1>0, WaitType DEF On, Wait, Serving
  <2>3. /\ net' = [Rest("parent") EXCEPT !["child"] = Append(@, w)] /\ open' = open
        /\ stack' = [stack EXCEPT !["parent"] = Append(stack["parent"], f)] /\ open["child"]
    BY <1>2, <1>13 DEF TakeClose, Peer
  <2> HIDE DEF w, f
  <2>4. /\ net'["parent"] = <<>> /\ net'["child"] = Append(<<>>, w)
        /\ stack'["parent"] = Append(stack["parent"], f) /\ stack'["child"] = stack["child"]
    <3>1. "child" \in End /\ stack \in [End -> Seq(Frame)]
      BY <1>0 DEF End, Typed
    <3>2. net'["parent"] = Rest("parent")["parent"]
          /\ net'["child"] = Append(Rest("parent")["child"], w)
      BY <1>0, <1>5, <2>3, <3>1
    <3> QED BY <1>0, <1>5, <2>3, <3>1, <3>2
  <2> QED BY <1>0, <2>1, <2>2, <2>3, <2>4, HeldStays
<1>14. ~ ServeCall("parent") /\ ~ ServeDud("parent") /\ ~ ServeExposed("parent")
       /\ ~ ServeProxyDef("parent") /\ ~ TakeAnswer("parent") /\ ~ TakeVerifyTypesResult("parent")
  BY <1>6 DEF ServeCall, ServeDud, ServeExposed, ServeProxyDef, TakeAnswer, TakeVerifyTypesResult,
              Arrives, m
<1> QED BY <1>3, <1>4, <1>9, <1>11, <1>12, <1>13, <1>14 DEF PipeStep

LEMMA PartedChild ==
  ASSUME Sound, ~ Starting, Inner("child"), HeldOn, Closes, open["parent"]
  PROVE  HeldOn' /\ Closes'
<1>0. /\ Inv /\ Marked /\ PipeInv /\ Typed /\ Regular /\ "child" \in End /\ Peer("child") = "parent"
      /\ stack["child"] \in Seq(Frame)
  BY SoundRegular DEF Sound, Inv, End, Peer, Typed
<1>1. stack'["parent"] = stack["parent"]
  BY <1>0, <1>0, InnerChanges DEF Changes, Apart
<1>2. CASE ~ open["child"]
  <2>1. net' = net /\ ~ open'["child"]
    BY <1>0, <1>2, ClosedInner
  <2> QED BY <1>1, <2>1 DEF HeldOn, Closes
<1>3. CASE open["child"]
  <2>1. stack["child"] = Closing \/ AsksToClose(stack["child"])
    BY <1>3 DEF Closes
  <2>2. /\ Top("child") = Last(stack["child"]) /\ stack["child"] # <<>>
        /\ stack["child"] = Closing => Top("child").at = "closing"
        /\ AsksToClose(stack["child"]) =>
             /\ Top("child") = stack["child"][2] /\ Top("child").at = "verify"
             /\ Top("child").msg.kind = "CLOSE" /\ Below(stack["child"]) = Closing
             /\ Top("child").msg \in Message
        /\ \A i \in 1 .. Len(stack["child"]) : stack["child"][i].at \notin Serving
        /\ stack["child"][1].at = "closing" /\ 1 \in 1 .. Len(stack["child"])
    <3>1. CASE stack["child"] = Closing
      <4>1. Len(Closing) = 1 /\ Closing[1].at = "closing" /\ Closing # <<>> /\ 1 # 2
            /\ \A i \in 1 .. Len(Closing) : Closing[i].at \notin Serving
        BY ClosingFrames, Frames DEF Wait
      <4> QED BY <3>1, <4>1 DEF Top, Last, AsksToClose
    <3>2. CASE AsksToClose(stack["child"])
      <4>1. /\ Len(stack["child"]) = 2 /\ stack["child"][1] = Wait("closing", 0)
            /\ stack["child"][2].at = "verify" /\ stack["child"][2].msg.kind = "CLOSE"
        BY <3>2 DEF AsksToClose
      <4>2. stack["child"][2] \in Frame
        BY <1>0, <4>1
      <4>3. Below(stack["child"]) = Closing
        <5>1. Len(SubSeq(stack["child"], 1, 1)) = 1 /\ SubSeq(stack["child"], 1, 1)[1] = stack["child"][1]
              /\ SubSeq(stack["child"], 1, 1) \in Seq(Frame)
          BY <1>0, <4>1
        <5>2. SubSeq(stack["child"], 1, 1) = Closing
          BY <4>1, <5>1, OneFrame DEF Closing
        <5>3. Len(stack["child"]) - 1 = 1
          BY <4>1
        <5> QED BY <5>2, <5>3 DEF Below
      <4>4. Wait("closing", 0).at = "closing" /\ stack["child"] # <<>> /\ stack["child"] # Closing
        BY <1>0, <4>1, ClosingFrames, EmptySeq
      <4>5. \A i \in 1 .. Len(stack["child"]) : stack["child"][i].at \notin Serving
        <5>1. \A i \in 1 .. Len(stack["child"]) : i = 1 \/ i = 2
          BY <4>1
        <5> QED BY <4>1, <4>4, <5>1 DEF Serving
      <4> QED BY <4>1, <4>2, <4>3, <4>4, <4>5 DEF Top, Last, Frame
    <3> QED BY <2>1, <3>1, <3>2
  <2>3. /\ PipeStep("child") \/ ServeDud("child")
        /\ net["child"] # <<>>
    <3>1. Top("child").at \notin Serving
      BY <2>1, <2>2 DEF Serving
    <3> QED BY <1>0, <2>2, <3>1, Reads DEF EndOfFile
  <2> DEFINE m == First("child")
  <2>4. /\ m = net["child"][1] /\ 1 \in 1 .. Len(net["child"]) /\ m \in Message
        /\ Rest("child") \in [End -> Seq(Message)] /\ Rest("child")["child"] = <<>>
        /\ Rest("child")["parent"] = <<>>
    BY <1>0, <1>3, <2>3, AllThatComes
  <2>5. LastWord(m) /\ m \in Bids("child")
    BY <1>0, <1>3, <2>3, <2>4, TakingMarks DEF Closes
  <2>6. ~ CarriesObject(m)
    BY <2>5, RemotePipeAssumption DEF LastWord, CarriesObject, Bids
  <2>7. m.kind \in {"VERIFY_TYPES_RESULT", "CLOSE_CLOSED"} \/ stack["child"] = Closing
    BY <2>5 DEF LastWord
  <2>8. ASSUME net' = Rest("child"), ~ open'["child"] PROVE HeldOn' /\ Closes'
    BY <1>1, <2>4, <2>8, EmptySeq DEF HeldOn, Closes
  <2> HIDE DEF m
  <2>9. CASE LastReceived("child")
    <3>1. net' = Rest("child") /\ ~ open'["child"]
      BY <1>0, <2>9, ShutDown DEF LastReceived
    <3> QED BY <2>8, <3>1
  <2>10. CASE TakeError("child")
    <3>1. Arrives("child", {"EXCEPTION", "REMOTE_ERROR", "GET_EXPOSED_ERROR", "CLOSE_CLOSED"})
      BY <2>10 DEF TakeError
    <3>2. m.kind = "CLOSE_CLOSED"
      BY <2>2, <2>7, <3>1 DEF Arrives, m
    <3>3. Answered("child", m) = stack["child"]
      BY <3>2 DEF Answered, Answers
    <3>4. net' = Rest("child") /\ Raise("child", stack["child"], "error")
      BY <2>10, <3>3 DEF TakeError, m
    <3>5. ~ open'["child"]
      BY <1>0, <2>2, <3>4, RaisedThrough
    <3> QED BY <2>8, <3>4, <3>5
  <2>11. CASE TakeVerifyTypesResult("child")
    <3>1. Top("child").at \notin {"closing", "drain"}
      BY <2>11 DEF TakeVerifyTypesResult, Arrives
    <3>2. AsksToClose(stack["child"])
      BY <2>1, <2>2, <3>1
    <3> DEFINE k == Top("child").msg
    <3>3. k \in Message /\ k.kind = "CLOSE" /\ Below(stack["child"]) = Closing /\ Top("child").at = "verify"
      BY <2>2, <3>2
    <3>4. CASE Raise("child", Below(stack["child"]), "error") /\ net' = Rest("child")
      <4>1. Closing \in Seq(Frame) /\ 1 \in 1 .. Len(Closing) /\ Closing[1].at = "closing"
            /\ \A i \in 1 .. Len(Closing) : Closing[i].at \notin Serving
        BY Frames
      <4>2. ~ open'["child"]
        BY <1>0, <3>3, <3>4, <4>1, RaisedThrough
      <4> QED BY <2>8, <3>4, <4>2
    <3>5. CASE \E v, r : SendKnowing("child", Rest("child"), k, Closing, v, r)
      <4>1. CASE ~ open'["child"] /\ net' = Rest("child")
        BY <2>8, <4>1
      <4>2. CASE /\ open' = open
                 /\ \E w \in Message :
                      /\ net' = [Rest("child") EXCEPT !["parent"] = Append(@, w)]
                      /\ \/ stack'["child"] = Closing /\ w.kind = "CLOSE"
                         \/ stack'["child"] \in ClosingWith(k) /\ w.kind = "VERIFY_TYPES"
        <5>1. PICK w \in Message :
                /\ net' = [Rest("child") EXCEPT !["parent"] = Append(@, w)]
                /\ \/ stack'["child"] = Closing /\ w.kind = "CLOSE"
                   \/ stack'["child"] \in ClosingWith(k) /\ w.kind = "VERIFY_TYPES"
          BY <4>2
        <5>2. net'["child"] = <<>> /\ net'["parent"] = Append(<<>>, w)
          <6>1. "parent" \in End /\ "child" \in End
            BY DEF End
          <6>2. net'["child"] = Rest("child")["child"]
                /\ net'["parent"] = Append(Rest("child")["parent"], w)
            BY <2>4, <5>1, <6>1
          <6> QED BY <2>4, <6>2
        <5>3. Len(net'["parent"]) = 1 /\ net'["parent"][1] = w
          BY <5>2
        <5>4. HeldOn'
          BY <1>1, <5>1, <5>3 DEF HeldOn
        <5>5. stack'["child"] = Closing \/ AsksToClose(stack'["child"])
          <6> HIDE DEF k
          <6> QED BY <3>3, <5>1, ClosingFrames DEF AsksToClose
        <5> QED BY <5>2, <5>4, <5>5, EmptySeq DEF Closes, AsksToClose
      <4> HIDE DEF k
      <4>3. PICK v, r : SendKnowing("child", Rest("child"), k, Closing, v, r)
        BY <3>5
      <4>4. \/ ~ open'["child"] /\ net' = Rest("child")
            \/ /\ open' = open
               /\ \E w \in Message :
                    /\ net' = [Rest("child") EXCEPT !["parent"] = Append(@, w)]
                    /\ \/ stack'["child"] = Closing /\ w.kind = "CLOSE"
                       \/ stack'["child"] \in ClosingWith(k) /\ w.kind = "VERIFY_TYPES"
        BY <1>0, <2>4, <3>3, <4>3, ClosingSends
      <4> QED BY <4>1, <4>2, <4>4
    <3>6. \/ Raise("child", Below(stack["child"]), "error") /\ net' = Rest("child")
          \/ \E v, r : SendKnowing("child", Rest("child"), k, Below(stack["child"]), v, r)
      BY <2>11, <3>3 DEF TakeVerifyTypesResult, TakeValue
    <3> QED BY <3>3, <3>4, <3>5, <3>6
  <2>12. /\ ~ GetProxyDef("child") /\ ~ LoadFails("child") /\ ~ EndOfFile("child")
         /\ ~ ServeCall("child") /\ ~ ServeDud("child") /\ ~ ServeExposed("child")
         /\ ~ ServeProxyDef("child") /\ ~ ServeVerifyTypes("child") /\ ~ TakeAnswer("child")
         /\ ~ TakeClose("child")
    BY <2>2, <2>3, <2>6, <2>7
       DEF GetProxyDef, UnknownProxy, LoadFails, Unloadable, EndOfFile, ServeCall, ServeDud, ServeExposed,
           ServeProxyDef, ServeVerifyTypes, TakeAnswer, TakeClose, Arrives, m
  <2> QED BY <2>3, <2>9, <2>10, <2>11, <2>12 DEF PipeStep
<1> QED BY <1>2, <1>3

LEMMA StaysListening ==
  ASSUME Sound, Inv', ~ Starting, Inner("child"), open["parent"], ~ Leaving
  PROVE  ~ Leaving'
<1>0. /\ Inv /\ Marked /\ PipeInv /\ PipeInv' /\ Typed /\ Regular /\ "child" \in End
      /\ Peer("child") = "parent" /\ Changes("child") /\ stack["child"] # <<>>
      /\ stack["child"] \in Seq(Frame)
  BY SoundRegular, InnerChanges, InnerWaits DEF Sound, Inv, End, Peer, Typed
<1>1. open["child"] /\ stack["child"][1] = Wait("receive", 0)
  BY <1>0 DEF Leaving, Sound, Placed, Wait
<1>2. stack["child"][1].at = "receive"
  BY <1>1 DEF Wait
<1>3. \A i \in 1 .. Len(stack["child"]) : stack["child"][i].at # "closing"
  BY <1>0, <1>1, <1>2, Outermost
<1>4. ASSUME NEW i \in 1 .. Len(stack["child"]), stack["child"][i].at = "drain" PROVE FALSE
  <2>1. i = Len(stack["child"]) /\ net["child"] = <<>>
    BY <1>0, <1>1, <1>4, Outermost DEF Final
  <2>2. EndOfFile("child")
    BY <1>0, <1>4, <2>1, Reads DEF Top, Serving
  <2> QED BY <1>0, <2>2 DEF EndOfFile
<1>5. open' = open
  BY <1>0, <1>3, <1>4, StaysOpen
<1>6. stack'["child"] # <<>> => stack'["child"][1] = stack["child"][1]
  BY <1>0, <1>2, BottomKept
<1> QED BY <1>1, <1>2, <1>5, <1>6 DEF Leaving

\* close() in the tool process meets a parent that waits for an answer, and is
\* not asked anything.
LEMMA PartedClose ==
  ASSUME Sound, ~ Starting, ChildClose, open["parent"]
  PROVE  HeldOn' /\ Closes'
<1>0. /\ Inv /\ Typed /\ Regular /\ "child" \in End /\ "parent" \in End
      /\ Peer("child") = "parent" /\ Peer("parent") = "child"
  BY SoundRegular DEF Sound, End, Peer
<1>1. stack["child"] = <<>> /\ open["child"] /\ Apart("child")
  BY <1>0, ChildCloses, OfChildOnly DEF OfChild
<1>2. net["child"] = <<>> /\ net["parent"] = <<>> /\ ~ Runs("parent")
  BY <1>0, <1>1 DEF Regular, Single, Runs, Busy
<1>3. stack["parent"] # <<>> /\ ~ Serves(stack["parent"])
  <2>1. Debts(stack["parent"]) \subseteq Asks(stack["child"])
    BY <1>0, <1>1 DEF Regular, Fit, Pairing, Owed
  <2>2. Debts(stack["parent"]) = {}
    BY <1>1, <2>1, EmptyStack
  <2> QED BY <1>2, <2>2 DEF Runs, Serves, Debts, Owes
<1>4. stack'["parent"] = stack["parent"]
  BY <1>0, <1>1 DEF Apart
<1>5. CASE ~ open'["child"] /\ stack'["child"] = <<>> /\ net' = net
  BY <1>2, <1>3, <1>4, <1>5, EmptySeq DEF HeldOn, Closes
<1>6. CASE \E m \in Message : \E k \in Message :
             /\ net' = [net EXCEPT !["parent"] = Append(@, m)]
             /\ m.kind \in {"CLOSE", "VERIFY_TYPES"} /\ k.kind = "CLOSE"
             /\ stack'["child"] \in {Closing} \cup ClosingWith(k)
  <2>1. PICK m \in Message : \E k \in Message :
          /\ net' = [net EXCEPT !["parent"] = Append(@, m)]
          /\ m.kind \in {"CLOSE", "VERIFY_TYPES"} /\ k.kind = "CLOSE"
          /\ stack'["child"] \in {Closing} \cup ClosingWith(k)
    BY <1>6
  <2>2. PICK k \in Message :
          /\ net' = [net EXCEPT !["parent"] = Append(@, m)]
          /\ m.kind \in {"CLOSE", "VERIFY_TYPES"} /\ k.kind = "CLOSE"
          /\ stack'["child"] \in {Closing} \cup ClosingWith(k)
    BY <2>1
  <2>3. net'["child"] = <<>> /\ net'["parent"] = Append(<<>>, m)
    <3>1. net'["child"] = net["child"] /\ net'["parent"] = Append(net["parent"], m)
      BY <1>0, <2>2 DEF Typed
    <3> QED BY <1>2, <3>1
  <2>4. Len(net'["parent"]) = 1 /\ net'["parent"][1] = m
    BY <2>3
  <2>5. stack'["child"] = Closing \/ AsksToClose(stack'["child"])
    BY <2>2, ClosingFrames DEF AsksToClose
  <2>6. HeldOn'
    BY <1>3, <1>4, <2>2, <2>4 DEF HeldOn
  <2> QED BY <2>3, <2>5, <2>6, EmptySeq DEF Closes, AsksToClose
<1> QED BY <1>0, <1>5, <1>6, ChildCloses

LEMMA ParentOpens ==
  ASSUME Inv, OfParent
  PROVE  open'["parent"] => open["parent"]
<1>1. CASE GetExposed
  BY <1>1, GetExposedChanges, NeverReopens DEF Inv, End
<1>2. CASE ParentClose
  BY <1>2, ParentCloses
<1>3. CASE StartFailed \/ Exposed \/ RunEnds \/ ParentClosed \/ Join
  BY <1>3 DEF StartFailed, Exposed, RunEnds, ParentClosed, Join, ToClose, pipe
<1> QED BY <1>1, <1>2, <1>3 DEF OfParent

LEMMA PartedStep ==
  ASSUME Sound, Inv', [Next]_vars, ~ Lost'
  PROVE  Parted'
<1> SUFFICES ASSUME ~ Starting', open'["parent"], pc'["parent"] \notin {"version", "end"}, Leaving'
             PROVE  HeldOn' /\ Closes'
  BY DEF Parted
<1>0. Inv /\ Marked /\ PipeInv /\ Course /\ "parent" \in End /\ "child" \in End /\ ~ spoiled'
  BY DEF Sound, Inv, End, Lost
<1>1. ~ Starting
  <2> SUFFICES ASSUME Starting PROVE FALSE
    OBVIOUS
  <2>1. Early /\ stack'["child"] = Receiving /\ open' = open
    BY Starts
  <2> QED BY <2>1, Frames DEF Early, Leaving
<1>2. ASSUME open["parent"], pc["parent"] \notin {"version", "end"}, Leaving
      PROVE  HeldOn /\ Closes
  BY <1>0, <1>1, <1>2 DEF Course, Parted
<1>3. CASE Inner("parent")
  <2>1. pc' = pc /\ Apart("parent") /\ open["parent"]
    BY <1>0, <1>3, InnerChanges, NeverReopens DEF program, Changes
  <2>2. Leaving
    BY <2>1 DEF Leaving, Apart, Peer
  <2> QED BY <1>0, <1>1, <1>2, <1>3, <2>1, <2>2, PartedParent
<1>4. CASE Inner("child")
  <2>1. pc' = pc /\ open["parent"]
    BY <1>0, <1>4, InnerChanges, NeverReopens DEF program
  <2>2. Leaving
    BY <1>1, <1>4, <2>1, StaysListening
  <2> QED BY <1>1, <1>2, <1>4, <2>1, <2>2, PartedChild
<1>5. CASE \E e \in End : Die(e)
  BY <1>0, <1>5, DeathPlaces DEF End, Lost
<1>6. CASE OfParent
  <2>1. /\ stack["parent"] = <<>> /\ Apart("parent") /\ open["parent"]
        /\ open'["child"] = open["child"] /\ stack'["child"] = stack["child"]
    BY <1>0, <1>6, OfParentOnly, ParentOpens DEF Apart, Peer
  <2>2. Leaving
    BY <2>1 DEF Leaving
  <2>3. pc["parent"] # "end"
    BY <1>6 DEF OfParent, StartFailed, GetExposed, Exposed, RunEnds, ParentClose, ParentClosed, Join, At
  <2>4. pc["parent"] # "version"
    <3>1. Receiving # <<>> /\ Receiving[1].at # "closing"
      BY Frames
    <3> QED BY <1>0, <1>1, <2>1, <2>2, <3>1 DEF Course, Listening, Leaving
  <2> QED BY <1>2, <2>1, <2>2, <2>3, <2>4 DEF HeldOn
<1>7. CASE OfChild
  <2>1. /\ stack["child"] = <<>> /\ open["parent"] /\ pc'["parent"] = pc["parent"]
        /\ stack'["parent"] = stack["parent"]
    BY <1>0, <1>7, OfChildOnly DEF Apart, Peer
  <2>2. CASE ChildClose
    BY <1>1, <2>1, <2>2, PartedClose
  <2>3. CASE Listen
    <3>1. stack'["child"] = Receiving /\ UNCHANGED <<open, net>>
      BY <1>0, <2>3 DEF Listen, Receive, Receiving, PipeInv, Moving, Stacks
    <3>2. ~ open["child"]
      BY <3>1, Frames DEF Leaving
    <3>3. HeldOn
      BY <1>2, <2>1, <3>2 DEF Leaving
    <3> QED BY <2>1, <3>1, <3>2, <3>3 DEF HeldOn, Closes
  <2>4. CASE ServeEnds \/ StopTool \/ Stopped \/ ChildExits
    <3>1. UNCHANGED <<open, net, stack>>
      BY <2>4 DEF ServeEnds, StopTool, Stopped, ChildExits, ToClose, pipe
    <3>2. HeldOn /\ Closes
      BY <1>2, <2>1, <3>1 DEF Leaving
    <3> QED BY <3>1, <3>2 DEF HeldOn, Closes, LastWord, CarriesObject, AsksToClose
  <2>5. ~ SendVersion /\ ~ StartTool /\ ~ StartRaises /\ ~ StartExits
    BY <1>1 DEF SendVersion, StartTool, StartRaises, StartExits, At, Starting
  <2> QED BY <1>7, <2>2, <2>3, <2>4, <2>5 DEF OfChild
<1>8. CASE UNCHANGED vars
  <2>1. UNCHANGED <<open, net, stack, pc>>
    BY <1>8 DEF vars, pipe, program
  <2>2. HeldOn /\ Closes
    BY <1>2, <2>1 DEF Leaving
  <2> QED BY <2>1, <2>2 DEF HeldOn, Closes, LastWord, CarriesObject, AsksToClose
<1> QED BY <1>3, <1>4, <1>5, <1>6, <1>7, <1>8, Steps DEF End

----------------------------------------------------------------------------
(* The way that ends with every tool stopped *)

\* The four stretches of that way.
Called ==
  /\ pc["child"] = "serve" /\ open["child"]
  /\ stack["child"] \in {Receiving, Append(Receiving, Wait("drain", 0))}
  /\ \A i \in 1 .. Len(net["child"]) : net["child"][i].kind = "CLOSE"
  /\ open["parent"] =>
       /\ stack["parent"] \in {<<>>, Closing}
       /\ \A i \in 1 .. Len(net["parent"]) : net["parent"][i].kind = "CLOSE_CLOSED"

Released ==
  /\ ~ open["child"]
  /\ \/ pc["child"] = "serve" /\ stack["child"] = <<>> /\ back["child"] = "shutdown"
     \/ pc["child"] = "stop"
     \/ pc["child"] \in {"close", "exited"} /\ (code = 1 \/ stopped = Tools)

LEMMA Ways ==
  Finishing <=> attached = None /\ started = Tools /\ (Called \/ Released)
BY DEF Finishing, Called, Released

LEMMA CalledFrames ==
  /\ \A s \in {Receiving, Append(Receiving, Wait("drain", 0))} :
       /\ s # <<>> /\ s \in Seq(Frame) /\ ~ Serves(s)
       /\ \A i \in 1 .. Len(s) : s[i].at \in {"receive", "drain"}
  /\ Last(Receiving).at = "receive"
  /\ Last(Append(Receiving, Wait("drain", 0))).at = "drain"
<1> DEFINE d == Wait("drain", 0)
           t == Append(Receiving, d)
<1>1. d \in Frame /\ d.at = "drain"
  BY WaitType DEF On, Wait, End
<1>2. /\ Receiving \in Seq(Frame) /\ Receiving # <<>> /\ Len(Receiving) = 1
      /\ Receiving[1].at = "receive" /\ Last(Receiving) = Receiving[1]
  BY Frames
<1> HIDE DEF d
<1>3. /\ t \in Seq(Frame) /\ t # <<>> /\ Len(t) = 2 /\ t[1] = Receiving[1] /\ t[2] = d
      /\ Last(t) = d
  BY <1>1, <1>2, Pushed
<1> HIDE DEF t
<1>4. \A i \in 1 .. Len(t) : t[i].at \in {"receive", "drain"}
  <2>1. \A i \in 1 .. Len(t) : i = 1 \/ i = 2
    BY <1>3
  <2> QED BY <1>1, <1>2, <1>3, <2>1
<1>5. \A i \in 1 .. Len(Receiving) : Receiving[i].at \in {"receive", "drain"}
  <2>1. \A i \in 1 .. Len(Receiving) : i = 1
    BY <1>2
  <2> QED BY <1>2, <2>1
<1>6. ~ Serves(t) /\ ~ Serves(Receiving)
  BY <1>4, <1>5 DEF Serves, Serving
<1> QED BY <1>1, <1>2, <1>3, <1>4, <1>5, <1>6 DEF d, t

\* The runner is done: the child listens, for it is not about to leave, and
\* serves nothing, for the parent waits for nothing.
LEMMA RunEndsCalled ==
  ASSUME Sound, RunEnds, held'["parent"] = "result", held["parent"] # "result"
  PROVE  attached = None /\ started = Tools /\ Called
<1>0. Inv /\ Marked /\ PipeInv /\ Placed /\ Course /\ "parent" \in End /\ "child" \in End
      /\ Peer("parent") = "child" /\ Peer("child") = "parent"
  BY DEF Sound, Inv, End, Peer
<1>1. pc["parent"] = "run" /\ stack["parent"] = <<>> /\ back["parent"] # "shutdown"
  BY <1>0 DEF RunEnds, At, InProgram, ToClose, Inv, ProgramInv
<1>2. ~ Starting /\ open["parent"]
  BY <1>0, <1>1 DEF Course, Untested, GoneAtOnce
<1>3. Regular /\ Typed
  BY <1>2, SoundRegular
<1>4. ~ Leaving
  BY <1>0, <1>1, <1>2 DEF Course, Parted, HeldOn
<1> DEFINE s == stack["child"]
<1>5. /\ open["child"] /\ net["child"] = <<>> /\ net["parent"] = <<>> /\ s # <<>> /\ s \in Seq(Frame)
  BY <1>0, <1>1, <1>2, <1>3, <1>4 DEF Regular, Single, Runs, Busy, Leaving, Typed
<1>6. pc["child"] = "serve" /\ s[1] = Wait("receive", 0)
  BY <1>0, <1>4, <1>5 DEF Placed, Leaving, Wait
<1>7. Wait("receive", 0).at = "receive"
  BY DEF Wait
<1>8. Len(s) \in Nat \ {0}
  BY <1>5, Split
<1>9. ASSUME 2 \in 1 .. Len(s) PROVE FALSE
  <2> DEFINE b == SubSeq(s, 1, 1)
             f == s[2]
  <2>1. Opens(b, f) /\ b # <<>> /\ Last(b) = s[1] /\ Formed(s)
    <3>1. Formed(s) /\ 2 # 1 /\ 2 - 1 = 1
      BY <1>0, <1>3, <1>5 DEF Regular, Fit
    <3> HIDE DEF s
    <3> QED BY <1>5, <1>9, <3>1, FormedAt
  <2>2. ~ Owes(f)
    <3>1. Debts(s) \subseteq Asks(stack["parent"])
      BY <1>0, <1>2, <1>3, <1>5 DEF Regular, Fit, Pairing, Owed
    <3>2. Debts(s) = {}
      BY <1>1, <3>1, EmptyStack
    <3> QED BY <1>9, <3>2 DEF Debts
  <2>3. ~ Final(f)
    <3>1. ~ Mute("parent")
      BY <1>1, <1>2, EmptySeq DEF Mute
    <3> QED BY <1>0, <1>3, <1>5, <1>9, <3>1, Outermost
  <2>4. f \in Frame /\ f \in Marks("child") /\ f \in On("child")
    <3>1. s \in Seq(Marks("child")) /\ s \in Seq(On("child"))
      BY <1>0, TakingMarks, Taking
    <3> HIDE DEF s
    <3> QED BY <1>5, <1>9, <3>1
  <2> HIDE DEF b, f, s
  <2>5. Last(b).at = "receive"
    BY <1>6, <1>7, <2>1
  <2>6. f.at \notin {"receive", "closing", "drain"} \cup Serving
    BY <2>1, <2>2, <2>3 DEF Opens, Owes, Final
  <2>7. f.at # "answer"
    BY <2>1, <2>5 DEF Opens, Begins, Serving
  <2>8. f.at # "verify"
    BY <2>1, <2>2, <2>5 DEF Opens, Begins, Serving, Owes
  <2>9. f.at # "proxy"
    <3> SUFFICES ASSUME f.at = "proxy" PROVE FALSE
      OBVIOUS
    <3>1. f.msg.kind \notin Requests /\ f.msg.kind # "CLOSE"
      BY <2>2, <2>3 DEF Owes, Final
    <3>2. f.msg.kind \notin Answers
      BY <2>1, <2>5 DEF Opens, Settles, Asking
    <3>3. f.msg \in Bids("child") /\ CarriesObject(f.msg) /\ f.msg.kind \in Kind
      BY <2>4 DEF Marks, On, GoodFrame, Frame, Message
    <3>4. f.msg.kind \in {"CLOSE_CLOSED", "PICKLE_VERSION"}
      BY <3>1, <3>2, <3>3 DEF Kind, Requests, Answers
    <3> QED BY <3>3, <3>4, RemotePipeAssumption DEF Bids, CarriesObject
  <2> QED BY <2>4, <2>6, <2>7, <2>8, <2>9, Kinds DEF Asking
<1>10. s = Receiving
  <2>0. \A n \in Nat \ {0} : n = 1 \/ 2 \in 1 .. n
    OBVIOUS
  <2>1. Len(s) = 1
    BY <1>8, <1>9, <2>0, Zenon
  <2> HIDE DEF s
  <2> QED BY <1>5, <1>6, <2>1, OneFrame DEF Receiving
<1>11. attached = None
  BY <1>0, <1>6 DEF Placed
<1>12. started = Tools
  BY <1>0, <1>2, RemoteToolAssumption DEF Starting, Inv, ProgramInv
<1> QED BY <1>1, <1>2, <1>5, <1>6, <1>10, <1>11, <1>12, EmptySeq DEF Called

\* CLOSE comes to the child, which answers and closes; the parent waits for no
\* more than that.
LEMMA CalledInner ==
  ASSUME Sound, NEW e \in End, Inner(e), attached = None, Called,
         pc["parent"] \in {"close", "join", "end"}
  PROVE  Called' \/ Released'
<1>0. /\ Inv /\ Marked /\ PipeInv /\ Typed /\ "parent" \in End /\ "child" \in End
      /\ Peer("parent") = "child" /\ Peer("child") = "parent"
      /\ Changes(e) /\ UNCHANGED program
  BY InnerChanges, Types DEF Sound, Inv, End, Peer
<1>1. /\ pc["child"] = "serve" /\ pc'["child"] = "serve" /\ open["child"]
      /\ stack["child"] \in {Receiving, Append(Receiving, Wait("drain", 0))}
      /\ \A i \in 1 .. Len(net["child"]) : net["child"][i].kind = "CLOSE"
  BY <1>0 DEF Called, program
<1>2. CASE e = "parent"
  <2>1. stack'["child"] = stack["child"] /\ open'["child"]
    BY <1>0, <1>1, <1>2 DEF Changes, Apart
  <2>2. CASE ~ open["parent"]
    <3>1. net' = net /\ ~ open'["parent"]
      BY <1>0, <1>2, <2>2, ClosedInner
    <3> QED BY <1>1, <2>1, <3>1 DEF Called
  <2>3. CASE open["parent"]
    <3>1. stack["parent"] = Closing
      BY <1>2, <2>3, InnerWaits DEF Called
    <3>2. Top("parent").at = "closing" /\ Top("parent") = Last(stack["parent"]) /\ stack["parent"] # <<>>
      BY <3>1, Frames DEF Top, Last
    <3>3. /\ PipeStep("parent") \/ ServeDud("parent")
          /\ net["parent"] # <<>> \/ EndOfFile("parent")
      BY <1>2, <3>2, Reads DEF Serving
    <3>4. net["parent"] # <<>> => ~ CarriesObject(First("parent"))
      <4> SUFFICES ASSUME net["parent"] # <<>> PROVE ~ CarriesObject(First("parent"))
        OBVIOUS
      <4>1. First("parent") \in Bids("parent")
        BY <1>0, TakingMarks
      <4>2. First("parent") = net["parent"][1] /\ 1 \in 1 .. Len(net["parent"])
        <5>1. net["parent"] \in Seq(Message) /\ net["parent"] # <<>>
          BY <1>0 DEF Typed
        <5> QED BY <5>1 DEF First
      <4> QED BY <2>3, <4>1, <4>2, RemotePipeAssumption DEF Called, Bids, CarriesObject
    <3>5. EndOfFile("parent") \/ LastReceived("parent")
      BY <3>2, <3>3, <3>4
         DEF PipeStep, GetProxyDef, UnknownProxy, LoadFails, Unloadable, ServeCall, ServeDud, ServeExposed,
             ServeProxyDef, ServeVerifyTypes, TakeAnswer, TakeVerifyTypesResult, TakeError, TakeClose,
             Arrives
    <3>6. Raise("parent", stack["parent"], "shutdown") /\ net'["child"] = net["child"]
      BY <1>0, <3>5 DEF EndOfFile, LastReceived, Rest, Typed
    <3>7. ~ open'["parent"]
      BY <1>0, <3>6, ShutDown
    <3> QED BY <1>1, <2>1, <3>6, <3>7 DEF Called
  <2> QED BY <2>2, <2>3
<1>3. CASE e = "child"
  <2>1. stack'["parent"] = stack["parent"] /\ open'["parent"] = open["parent"]
    BY <1>0, <1>3 DEF Changes, Apart
  <2>2. CASE ~ open'["child"]
    <3>1. ~ Serves(stack["child"])
          /\ \A i \in 1 .. Len(stack["child"]) : stack["child"][i].at # "closing"
      BY <1>1, CalledFrames
    <3>2. stack'["child"] = <<>> /\ back'["child"] = "shutdown"
      BY <1>0, <1>1, <1>3, <2>2, <3>1, LeftAtOnce
    <3> QED BY <1>1, <2>2, <3>2 DEF Released
  <2>3. CASE open'["child"]
    <3>1. ~ Raise("child", stack["child"], "shutdown")
      BY <1>0, <2>3, ShutDown
    <3>2. Top("child") = Last(stack["child"]) /\ Top("child").at \in {"receive", "drain"}
          /\ stack["child"] # <<>>
      BY <1>1, CalledFrames DEF Top, Last
    <3>3. /\ PipeStep("child") \/ ServeDud("child")
          /\ net["child"] # <<>>
      BY <1>3, <3>1, <3>2, Reads DEF Serving, EndOfFile
    <3>4. /\ net["child"] \in Seq(Message) /\ First("child") = net["child"][1]
          /\ First("child").kind = "CLOSE" /\ ~ CarriesObject(First("child"))
      <4>1. net["child"] \in Seq(Message) /\ First("child") \in Bids("child")
        BY <1>0, <3>3, TakingMarks DEF Typed
      <4>2. First("child") = net["child"][1] /\ 1 \in 1 .. Len(net["child"])
        BY <3>3, <4>1 DEF First
      <4> QED BY <1>1, <4>1, <4>2, RemotePipeAssumption DEF Bids, CarriesObject
    <3>5. ~ LastReceived("child") /\ ~ EndOfFile("child")
      BY <3>1 DEF LastReceived, EndOfFile
    <3>6. TakeClose("child")
      BY <3>3, <3>4, <3>5
         DEF PipeStep, GetProxyDef, UnknownProxy, LoadFails, Unloadable, ServeCall, ServeDud, ServeExposed,
             ServeProxyDef, ServeVerifyTypes, TakeAnswer, TakeVerifyTypesResult, TakeError,
             Arrives
    <3>7. stack["child"] = Receiving
      BY <1>1, <3>2, <3>6, CalledFrames DEF TakeClose, Arrives
    <3> DEFINE m == Msg("CLOSE_CLOSED", Plain, 0)
               q == net["parent"]
    <3>8. /\ open["parent"] /\ net' = [Rest("child") EXCEPT !["parent"] = Append(@, m)]
          /\ stack' = [stack EXCEPT !["child"] = Append(@, Wait("drain", 0))] /\ open' = open
      BY <1>0, <3>1, <3>6 DEF TakeClose
    <3>9. m \in Message /\ m.kind = "CLOSE_CLOSED" /\ q \in Seq(Message)
      <4>1. "CLOSE_CLOSED" \in Kind /\ Plain \in Load /\ 0 \in Nat
        BY DEF Kind, Load
      <4> QED BY <1>0, <4>1, ProgramMessage DEF Typed
    <3> HIDE DEF m, q
    <3>10. net'["child"] = Tail(net["child"]) /\ net'["parent"] = Append(q, m)
           /\ stack'["child"] = Append(Receiving, Wait("drain", 0))
      BY <1>0, <3>7, <3>8 DEF Rest, Typed, q
    <3>11. \A i \in 1 .. Len(Tail(net["child"])) : Tail(net["child"])[i].kind = "CLOSE"
      <4>1. \A i \in 1 .. Len(Tail(net["child"])) : i + 1 \in 1 .. Len(net["child"])
              /\ Tail(net["child"])[i] = net["child"][i + 1]
        BY <3>3, <3>4
      <4> QED BY <1>1, <4>1
    <3>12. \A i \in 1 .. Len(Append(q, m)) : Append(q, m)[i].kind = "CLOSE_CLOSED"
      <4>1. \A i \in 1 .. Len(q) : q[i].kind = "CLOSE_CLOSED"
        BY <3>8 DEF Called, q
      <4>2. \A i \in 1 .. Len(Append(q, m)) :
              (i \in 1 .. Len(q) /\ Append(q, m)[i] = q[i]) \/ Append(q, m)[i] = m
        BY <3>9
      <4> QED BY <3>9, <4>1, <4>2
    <3>13. stack["parent"] \in {<<>>, Closing}
      BY <3>8 DEF Called
    <3> QED BY <1>1, <2>1, <2>3, <3>10, <3>11, <3>12, <3>13 DEF Called
  <2> QED BY <2>2, <2>3
<1> QED BY <1>2, <1>3 DEF End

LEMMA CalledProgram ==
  ASSUME Sound, Called, pc["parent"] \in {"close", "join", "end"}, OfParent \/ OfChild
  PROVE  Called'
<1>0. Inv /\ Typed /\ "parent" \in End /\ "child" \in End
  BY Types DEF Sound, Inv, End
<1>1. stack["child"] # <<>>
  BY CalledFrames DEF Called
<1>2. OfParent
  BY <1>0, <1>1, OfChildOnly
<1>3. /\ pc'["child"] = pc["child"] /\ open'["child"] = open["child"]
      /\ stack'["child"] = stack["child"]
  BY <1>0, <1>2, OfParentOnly DEF Apart, Peer
<1>4. CASE ParentClose
  <2>1. CASE ~ open'["parent"] /\ net' = net
    BY <1>3, <2>1 DEF Called
  <2>2. CASE /\ open' = open /\ open["parent"] /\ stack'["parent"] = Closing
             /\ \E m \in Message : m.kind = "CLOSE" /\ net' = [net EXCEPT !["child"] = Append(@, m)]
    <3>1. PICK m \in Message : m.kind = "CLOSE" /\ net' = [net EXCEPT !["child"] = Append(@, m)]
      BY <2>2
    <3> DEFINE q == net["child"]
    <3>2. net'["child"] = Append(q, m) /\ net'["parent"] = net["parent"] /\ q \in Seq(Message)
      BY <1>0, <3>1 DEF Typed
    <3>3. \A i \in 1 .. Len(q) : q[i].kind = "CLOSE"
      BY DEF Called
    <3> HIDE DEF q
    <3>4. \A i \in 1 .. Len(Append(q, m)) : Append(q, m)[i].kind = "CLOSE"
      <4>1. \A i \in 1 .. Len(Append(q, m)) :
              (i \in 1 .. Len(q) /\ Append(q, m)[i] = q[i]) \/ Append(q, m)[i] = m
        BY <3>2
      <4> QED BY <3>1, <3>3, <4>1
    <3> QED BY <1>3, <2>2, <3>2, <3>4 DEF Called
  <2> QED BY <1>0, <1>4, <2>1, <2>2, ParentCloses
<1>5. CASE ParentClosed \/ Join
  BY <1>3, <1>5 DEF ParentClosed, Join, pipe, Called
<1>6. ~ StartFailed /\ ~ GetExposed /\ ~ Exposed /\ ~ RunEnds
  BY DEF StartFailed, GetExposed, Exposed, RunEnds, At
<1> QED BY <1>2, <1>4, <1>5, <1>6 DEF OfParent

\* With its connection closed the child stops its tools, and leaves.
LEMMA ReleasedStep ==
  ASSUME Sound, [Next]_vars, ~ Lost', started = Tools, Released
  PROVE  Released' /\ UNCHANGED <<attached, started>>
<1>0. /\ Inv /\ Marked /\ PipeInv /\ Placed /\ "parent" \in End /\ "child" \in End
      /\ Peer("parent") = "child" /\ Peer("child") = "parent"
  BY DEF Sound, Inv, End, Peer
<1>1. CASE Inner("parent")
  BY <1>0, <1>1, InnerChanges DEF Changes, Apart, program, Released
<1>2. CASE Inner("child")
  <2>1. UNCHANGED program /\ ~ open'["child"]
    BY <1>0, <1>2, InnerChanges, NeverReopens DEF Released
  <2>2. stack["child"] # <<>>
    BY <1>0, <1>2, InnerWaits
  <2>3. pc["child"] = "close"
    BY <1>0, <2>2 DEF Released, Placed
  <2> QED BY <2>1, <2>3 DEF Released, program
<1>3. CASE Die("parent")
  <2>1. /\ Apart("parent") /\ back' = back /\ pc'["child"] = pc["child"] /\ code' = code
        /\ UNCHANGED <<started, stopped, attached>>
    BY <1>0, <1>3, DeathPlaces
  <2> QED BY <1>0, <2>1 DEF Apart, Released
<1>4. ~ Die("child")
  BY <1>0, DeathPlaces DEF Lost
<1>5. CASE OfParent
  BY <1>0, <1>5, OfParentOnly DEF Apart, Released
<1>6. CASE OfChild
  <2>1. pc["child"] \in {"serve", "stop", "close", "exited"} /\ ~ open["child"]
    BY DEF Released
  <2>2. ~ SendVersion /\ ~ StartTool /\ ~ StartRaises /\ ~ StartExits /\ ~ ChildClose
    BY <2>1 DEF SendVersion, StartTool, StartRaises, StartExits, ChildClose, At
  <2>3. ~ Listen
    BY <2>1 DEF Listen, At, Released
  <2>4. CASE ServeEnds
    BY <1>0, <2>4 DEF ServeEnds, At, Released, Goto, pipe, Inv, ProgramInv
  <2>5. CASE StopTool
    BY <1>0, <2>5 DEF StopTool, At, Released, ToClose, Goto, pipe, Inv, ProgramInv
  <2>6. CASE Stopped
    BY <1>0, <2>6 DEF Stopped, At, Released, ToClose, Goto, Inv, ProgramInv
  <2>7. CASE ChildExits
    BY <1>0, <2>7 DEF ChildExits, At, Released, Goto, pipe, Inv, ProgramInv
  <2> QED BY <1>6, <2>2, <2>3, <2>4, <2>5, <2>6, <2>7 DEF OfChild
<1>7. CASE UNCHANGED vars
  BY <1>7 DEF vars, pipe, program, Released
<1> QED BY <1>1, <1>2, <1>3, <1>4, <1>5, <1>6, <1>7, Steps DEF End

LEMMA FinishingStep ==
  ASSUME Sound, [Next]_vars, ~ Lost', held'["parent"] = "result"
  PROVE  Finishing'
<1>0. Inv /\ Marked /\ Placed /\ Course /\ "parent" \in End /\ "child" \in End
  BY DEF Sound, End
<1>1. CASE held["parent"] = "result"
  <2>1. Finishing /\ pc["parent"] \in {"close", "join", "end"}
    BY <1>0, <1>1 DEF Course, Placed
  <2>2. CASE Released
    <3>1. Released' /\ attached' = None /\ started' = Tools
      BY <2>1, <2>2, ReleasedStep, Ways
    <3> QED BY <3>1 DEF Finishing, Released
  <2>3. CASE Called
    <3>1. CASE \E e \in End : Inner(e)
      <4>1. Called' \/ Released'
        BY <2>1, <2>3, <3>1, CalledInner, Ways
      <4>2. UNCHANGED <<attached, started>>
        BY <1>0, <3>1, InnerChanges DEF program
      <4> QED BY <2>1, <4>1, <4>2, Ways DEF Finishing, Released, Called
    <3>2. CASE \E e \in End : Die(e)
      <4>1. Die("parent")
        BY <1>0, <3>2, DeathPlaces DEF End, Lost
      <4>2. /\ ~ open'["parent"] /\ net' = net /\ Apart("parent") /\ pc'["child"] = pc["child"]
            /\ UNCHANGED <<started, attached>>
        BY <1>0, <4>1, DeathPlaces DEF Peer
      <4> QED BY <2>1, <2>3, <4>2, Ways DEF Finishing, Called, Apart, Peer
    <3>3. CASE OfParent \/ OfChild
      <4>1. Called'
        BY <2>1, <2>3, <3>3, CalledProgram
      <4>2. stack["child"] # <<>>
        BY <2>3, CalledFrames DEF Called
      <4>3. UNCHANGED <<attached, started>>
        BY <1>0, <3>3, <4>2, OfParentOnly, OfChildOnly
      <4> QED BY <2>1, <4>1, <4>3, Ways DEF Finishing, Called
    <3>4. CASE UNCHANGED vars
      BY <2>1, <3>4 DEF vars, pipe, program, Finishing
    <3> QED BY <3>1, <3>2, <3>3, <3>4, Steps
  <2> QED BY <2>1, <2>2, <2>3, Ways
<1>2. CASE held["parent"] # "result"
  <2>1. ~ \E e \in End : Inner(e)
    BY <1>0, <1>2, InnerChanges DEF program
  <2>2. ~ (\E e \in End : Die(e)) /\ ~ OfChild /\ ~ UNCHANGED vars
    BY <1>0, <1>2, DeathPlaces, OfChildOnly DEF vars, program
  <2>3. OfParent
    BY <2>1, <2>2, Steps
  <2>4. RunEnds
    BY <1>0, <1>2, <2>3 DEF OfParent, StartFailed, GetExposed, Exposed, ParentClose, ParentClosed,
         Join, ToClose, program, Inv, ProgramInv
  <2>5. attached = None /\ started = Tools /\ Called
    BY <1>2, <2>4, RunEndsCalled
  <2>6. UNCHANGED <<open, net, stack, attached, started>> /\ pc'["child"] = pc["child"]
    BY <1>0, <2>4 DEF RunEnds, ToClose, Goto, Inv, ProgramInv
  <2> QED BY <2>5, <2>6 DEF Finishing, Called
<1> QED BY <1>1, <1>2

LEMMA CourseStep ==
  ASSUME Sound, Inv', [Next]_vars, ~ Lost'
  PROVE  Course'
<1>1. Listening' /\ Parted' /\ GoneAtOnce'
  BY ListeningStep, PartedStep, GoneAtOnceStep
<1>2. Untested'
  BY UntestedStep DEF Sound
<1>3. held'["parent"] = "result" => Finishing'
  BY FinishingStep
<1> QED BY <1>1, <1>2, <1>3 DEF Course

Reported ==
  outcome = "result" =>
    \/ spoiled \/ (stopped = Tools /\ attached = None)
    \/ held["parent"] = "salvaged"

Completed == Placed /\ (Lost \/ Course) /\ Reported

LEMMA InitialCourse ==
  Init => Completed
<1> SUFFICES ASSUME Init PROVE Completed
  OBVIOUS
<1>1. /\ stack["child"] = <<>> /\ stack["parent"] = Receiving /\ pc["parent"] = "version"
      /\ pc["child"] = "spawned" /\ attached = None /\ outcome = "running"
      /\ held["parent"] = "nothing" /\ open["parent"]
  BY DEF Init, PipeInit, End, Receiving
<1>2. /\ \A i \in 1 .. Len(Receiving) : Receiving[i].at # "closing"
      /\ ~ Serves(Receiving)
  BY CalledFrames
<1>3. Placed
  BY <1>1, <1>2 DEF Placed
<1>4. Course
  BY <1>1, <1>2 DEF Course, Listening, Parted, GoneAtOnce, Untested, Starting
<1> QED BY <1>1, <1>3, <1>4 DEF Completed, Reported

LEMMA ReportedStep ==
  ASSUME Inv, Marked, Parting, Completed, [Next]_vars
  PROVE  Reported'
<1> SUFFICES ASSUME outcome' = "result", held'["parent"] # "salvaged"
             PROVE  spoiled' \/ (stopped' = Tools /\ attached' = None)
  BY DEF Reported
<1>1. CASE outcome = "result"
  <2>1. pc["child"] = "exited"
    BY <1>1 DEF Completed, Placed
  <2>2. held'["parent"] = held["parent"]
    <3>1. pc["parent"] = "end"
      BY <1>1 DEF Parting
    <3>2. ~ OfParent /\ ~ \E e \in End : Die(e) /\ e = "parent"
      BY <3>1 DEF OfParent, StartFailed, GetExposed, Exposed, RunEnds, ParentClose, ParentClosed,
           Join, At, Die
    <3>3. CASE \E e \in End : Inner(e)
      BY <3>3, InnerChanges DEF program
    <3>4. CASE \E e \in End : Die(e)
      BY <3>4 DEF Die
    <3>5. CASE OfChild
      BY <3>5, OfChildOnly
    <3>6. CASE UNCHANGED vars
      BY <3>6 DEF vars, program
    <3> QED BY <3>2, <3>3, <3>4, <3>5, <3>6, Steps
  <2>3. spoiled \/ (stopped = Tools /\ attached = None)
    BY <1>1, <2>2 DEF Completed, Reported
  <2> QED BY <2>1, <2>3, StaysExited, StaysSpoiled
<1>2. CASE outcome # "result"
  <2>1. ~ (\E e \in End : Inner(e)) /\ ~ OfChild /\ ~ UNCHANGED vars
    BY <1>2, InnerChanges, OfChildOnly DEF program, vars
  <2>2. ~ \E e \in End : Die(e)
    BY <1>2 DEF Die, End
  <2>3. OfParent
    BY <2>1, <2>2, Steps
  <2>4. Join
    BY <1>2, <2>3 DEF OfParent, StartFailed, GetExposed, Exposed, RunEnds, ParentClose, ParentClosed,
         program
  <2>5. held["parent"] = "result" /\ code = 0 /\ pc["child"] = "exited"
    <3>1. /\ held["parent"] \in {"nothing", "result", "salvaged", "exception", "exit"}
          /\ held["parent"] \notin {"salvaged", "exit"} /\ code \in {0, 1}
      BY <2>4 DEF Join, Parting, Inv, ProgramInv, End
    <3>2. held["parent"] # "exception" /\ held["parent"] # "nothing" /\ code = 0
      BY <2>4, <3>1 DEF Join
    <3>3. pc["child"] = "exited"
      BY <2>4 DEF Join
    <3> QED BY <3>1, <3>2, <3>3
  <2>6. UNCHANGED <<spoiled, stopped, attached>>
    BY <2>4 DEF Join, pipe
  <2>7. CASE Lost
    BY <2>5, <2>6, <2>7 DEF Lost
  <2>8. CASE Course
    <3>1. Finishing
      BY <2>5, <2>8 DEF Course
    <3> QED BY <2>5, <2>6, <3>1 DEF Finishing
  <2> QED BY <2>7, <2>8 DEF Completed
<1> QED BY <1>1, <1>2

LEMMA CompletedStep ==
  ASSUME Inv, Inv', Marked, Parting, Ordered, Completed, [Next]_vars
  PROVE  Completed'
<1>1. Placed' /\ Reported'
  BY PlacedStep, ReportedStep DEF Completed
<1>2. CASE Lost
  BY <1>1, <1>2, StaysLost DEF Completed
<1>3. CASE ~ Lost
  <2>1. Sound
    BY <1>3 DEF Sound, Completed
  <2> QED BY <1>1, <2>1, CourseStep DEF Completed
<1> QED BY <1>2, <1>3

\* execute_tests_matching only returns a result when the tool process stopped
\* every tool and passed no exception to close(), unless a request was given up
\* on the way: a runner that comes to its end finds the child in receive(), with
\* nothing served or under way, and the CLOSE that follows is what the child
\* takes next; a child that is about to leave lets no call of the runner end but
\* with PipeShutdownError. A result made in spite of that error is returned only
\* behind a SystemExit, as nothing would be.
THEOREM ResultsAreDone ==
  Spec => []ResultMeansDone
<1>1. Init => Marked /\ Parting /\ Ordered /\ Completed
  BY InitialMarks, InitialOrder, InitialCourse
<1>2. Inv /\ Inv' /\ (Marked /\ Parting /\ Ordered /\ Completed) /\ [Next]_vars
      => (Marked /\ Parting /\ Ordered /\ Completed)'
  BY MarkedInductive, OrderedStep, CompletedStep
<1>3. Inv /\ Parting /\ Completed => ResultMeansDone
  BY DEF Completed, Reported, Parting, LeftByExit, ResultMeansDone, Inv, ProgramInv, End
<1> QED BY <1>1, <1>2, <1>3, Invariance, PTL DEF Spec
=============================================================================
